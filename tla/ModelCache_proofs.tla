------------------------- MODULE ModelCache_proofs -------------------------
(***************************************************************************)
(* Proofs about ModelCache, for every number of requests and keys and every *)
(* bound on the images.  For every choice of operations and events:         *)
(*   TypeCorrect              the types                                     *)
(*   LockedModelsStayCurrent  what an identity map marks as locked is the   *)
(*                            row as it is                                  *)
(*   LockedSavesStayCurrent   and so is what a locked reservation is based  *)
(*                            on                                            *)
(*   TransactionsReadClean    no transaction works on an uncommitted image  *)
(*                            of another                                    *)
(*   DeletesReachWriteEnd     a deleted row is on the list WriteEnd         *)
(*                            invalidates                                   *)
(* Where nothing dies between two commands (NoFaults):                      *)
(*   EntriesExpire            every entry gets a time to live               *)
(* For finitely many requests that only write (WritersOnly):                *)
(*   SortedWritesWaitForRowsInOrder                                         *)
(*                            they never wait for each other's rows in a    *)
(*                            cycle, though they may for a gap              *)
(* With saves of whole models only (WholeSavesOnly), and with locked reads  *)
(* only (LockedReadsOnly):                                                  *)
(*   SavesKeepCacheCoherent, LockedReadsKeepCacheCoherent                   *)
(*                            an unlocked row is cached as committed        *)
(*   DisciplinedRequestsImplementCachedTable                                *)
(*                            the steps are those of the abstract table     *)
(* Each has its inductive invariant, and one lemma per kind of step that    *)
(* takes more than unfolding the definitions.                               *)
(***************************************************************************)
EXTENDS ModelCache, TLAPS, FiniteSetTheorems, WellFoundedInduction

\* A row image is a possible image, and None is not a row image.
LEMMA RowFacts ==
    /\ Absent \in Row /\ Row \subseteq MaybeRow /\ None \in MaybeRow
    /\ 1 \in Row /\ None \notin Row
    /\ \A v \in MaybeRow : v # None => v \in Row
  BY ConstantsAssumption DEF Row, MaybeRow, None, Absent

\* Changing one entry of a function of functions.
LEMMA Update2 ==
    ASSUME NEW D, NEW E, NEW S, NEW f \in [D -> [E -> S]],
           NEW d \in D, NEW e \in E, NEW v \in S
    PROVE  [f EXCEPT ![d][e] = v] \in [D -> [E -> S]]
  OBVIOUS

\* What a transaction reads, with or without a lock, is a row image.
LEMMA LatestIsRow ==
    ASSUME TypeOK, NEW p \in Procs, NEW k \in Keys
    PROVE  Latest(p, k) \in Row /\ Visible(p, k) \in Row
  BY RowFacts DEF TypeOK, Latest, Visible

\* What TypeOK needs to be inductive: an image that is about to be written to
\* Redis is there.
Pending ==
    \A p \in Procs :
        /\ pc[p] = "fill" => store[p][cur[p]] # None
        /\ \A k \in saved[p] : own[p][k] # None
        /\ pc[p] \notin {"write", "push", "pushExpire", "failed"}
               => saved[p] = {}

TypeInv == TypeOK /\ Pending

\* The initial states have the types.
LEMMA TypeInit == Init => TypeInv
  <1> SUFFICES ASSUME Init PROVE TypeInv
    OBVIOUS
  <1>1. (CHOOSE k \in Keys : TRUE) \in Keys
    BY ConstantsAssumption
  <1>2. committed \in [Keys -> Row]
    BY ConstantsAssumption, RowFacts DEF Init
  <1>3. QED
    BY <1>1, <1>2, RowFacts, ConstantsAssumption
    DEF Init, TypeInv, TypeOK, Pending, NoRows, NoPlan

\* What every statement that locks does to the locks: p gets the one on k and,
\* if k lies in a gap, locks on other missing keys, and nobody loses any.
Takes(p, k) ==
    /\ locks' \in [Keys -> SUBSET Procs]
    /\ p \in locks'[k]
    /\ \A j \in Keys : /\ locks[j] \subseteq locks'[j]
                       /\ locks'[j] \subseteq locks[j] \cup {p}
                       /\ j # k /\ locks'[j] # locks[j] => Missing(j)

\* A lock on a row, and one on the gap around a missing row.
LEMMA RowLockTaken ==
    ASSUME TypeOK, NEW p \in Procs, NEW k \in Keys, TakeLocks(p, {k})
    PROVE  Takes(p, k)
  BY DEF TypeOK, TakeLocks, Takes

LEMMA GapLockTaken ==
    ASSUME TypeOK, NEW p \in Procs, NEW k \in Keys,
           NEW gap \in Gaps(k), TakeLocks(p, gap)
    PROVE  Takes(p, k)
  <1>1. k \in gap /\ \A j \in gap : j = k \/ Missing(j)
    BY DEF Gaps
  <1>2. QED
    BY <1>1 DEF TypeOK, TakeLocks, Takes

\* The statements of WriteAll take their locks that way.
LEMMA WriteTakes ==
    ASSUME TypeOK, NEW p \in Procs, NEW k \in Keys,
           \/ WriteInsert(p, k) \/ WriteSave(p, k) \/ SaveMisses(p, k)
           \/ WriteUpdate(p, k) \/ WriteDelete(p, k)
    PROVE  Takes(p, k)
  <1>1. \/ TakeLocks(p, {k})
        \/ \E gap \in Gaps(k) : TakeLocks(p, gap)
    BY DEF WriteInsert, WriteSave, SaveMisses, WriteUpdate, WriteDelete
  <1>2. QED
    BY <1>1, RowLockTaken, GapLockTaken

\* A statement of WriteAll keeps the types, whatever it does to the three lists.
LEMMA WriteRowTypes ==
    ASSUME TypeInv, NEW p \in Procs, NEW k \in Keys, NEW v \in MaybeRow,
           WriteRow(p, k, v), Takes(p, k),
           saved' \in [Procs -> SUBSET Keys],
           updated' \in [Procs -> SUBSET Keys],
           deleted' \in [Procs -> SUBSET Keys]
    PROVE  TypeOK'
  <1> USE DEF TypeInv, TypeOK, WriteRow, Goto
  <1>1. own' \in [Procs -> [Keys -> MaybeRow]]
    BY Update2
  <1>2. locks' \in [Keys -> SUBSET Procs] /\ todo' \in [Procs -> SUBSET Keys]
    BY DEF Takes
  <1>3. /\ store' \in [Procs -> [Keys -> MaybeRow]]
        /\ locked' \in [Procs -> SUBSET Keys]
        /\ plan' \in [Procs -> [Keys -> Kinds \cup {"none", "delete"}]]
        /\ base' \in [Procs -> [Keys -> MaybeRow]]
        /\ pc' \in [Procs -> {"app", "select", "lock", "fill", "expire",
                              "write", "push", "pushExpire", "purge",
                              "writeEnd", "failed"}]
    <2>1. CASE todo[p] = {k}
      <3>1. NoRows \in [Keys -> MaybeRow]
        BY RowFacts DEF NoRows
      <3>2. NoPlan \in [Keys -> Kinds \cup {"none", "delete"}]
        BY DEF NoPlan
      <3>3. /\ store' = [store EXCEPT ![p] = NoRows]
            /\ locked' = [locked EXCEPT ![p] = {}]
            /\ plan' = [plan EXCEPT ![p] = NoPlan]
            /\ base' = [base EXCEPT ![p] = NoRows]
            /\ pc' = [pc EXCEPT ![p] = "push"]
        BY <2>1
      <3>4. QED
        BY <3>1, <3>2, <3>3
    <2>2. CASE todo[p] # {k}
      BY <2>2 DEF planVars, storeVars
    <2>3. QED
      BY <2>1, <2>2
  <1>4. QED
    BY <1>1, <1>2, <1>3 DEF redisVars

\* Every step keeps the types.
LEMMA TypeStep == TypeInv /\ [Next]_vars => TypeInv'
  <1> SUFFICES ASSUME TypeInv, [Next]_vars PROVE TypeInv'
    OBVIOUS
  <1>a. TypeOK /\ Pending
    BY DEF TypeInv
  <1> USE <1>a, ConstantsAssumption, RowFacts
      DEF TypeOK, Pending, NoRows, NoPlan,
      Goto, dbVars, redisVars, txVars,
          storeVars, planVars, writeVars
  <1>1. ASSUME NEW p \in Procs, StartTransaction(p)
       PROVE  TypeInv'
    BY <1>1 DEF StartTransaction, FreshManager, TypeInv
  <1>2. ASSUME NEW p \in Procs, EndRequest(p)
       PROVE  TypeInv'
    BY <1>2 DEF EndRequest, FreshManager, TypeInv
  <1>3. ASSUME NEW p \in Procs, Commit(p)
       PROVE  TypeInv'
    <2>1. TypeOK'
      BY <1>3 DEF Commit, EndTransaction, Latest
    <2>2. Pending'
      BY <1>3 DEF Commit, EndTransaction, Latest
    <2>3. QED
      BY <2>1, <2>2 DEF TypeInv
  <1>4. ASSUME NEW p \in Procs, WriteEnd(p)
       PROVE  TypeInv'
    BY <1>4 DEF WriteEnd, DelEntries, FreshManager, TypeInv
  <1>5. ASSUME NEW p \in Procs, Rollback(p)
       PROVE  TypeInv'
    BY <1>5 DEF Rollback, EndTransaction, FreshManager, TypeInv
  <1>6. ASSUME NEW p \in Procs, Fault(p)
       PROVE  TypeInv'
    BY <1>6 DEF Fault, EndTransaction, FreshManager, TypeInv
  <1>7. ASSUME NEW p \in Procs, NEW k \in Keys, Get(p, k)
       PROVE  TypeInv'
    <2>1. redis[k] \in MaybeRow
      OBVIOUS
    <2>2. store' \in [Procs -> [Keys -> MaybeRow]]
      <3>1. CASE store' = [store EXCEPT ![p][k] = redis[k]]
        BY <2>1, <3>1, Update2
      <3>2. CASE UNCHANGED store
        BY <3>2
      <3>3. QED
        BY <1>7, <3>1, <3>2 DEF Get, Keep
    <2>3. TypeOK'
      <3>1. /\ pc' \in [Procs -> {"app", "select", "lock", "fill", "expire",
                                 "write", "push", "pushExpire", "purge",
                                 "writeEnd", "failed"}]
            /\ cur' \in [Procs -> Keys]
        <4>1. CASE redis[k] # Absent
          BY <1>7, <4>1 DEF Get, Keep
        <4>2. CASE redis[k] = Absent
          <5>1. /\ pc' = [pc EXCEPT ![p] = "select"]
                /\ cur' = [cur EXCEPT ![p] = k]
            BY <1>7, <4>2 DEF Get, Keep
          <5>2. QED
            BY <5>1
        <4>3. QED
          BY <4>1, <4>2
      <3>2. QED
        BY <1>7, <2>2, <3>1 DEF Get, Keep
    <2>4. Pending'
      BY <1>7, ZenonT(30) DEF Get, Keep, Ready
    <2>5. QED
      BY <2>3, <2>4 DEF TypeInv
  <1>8. ASSUME NEW p \in Procs, NEW k \in Keys, TxGet(p, k)
       PROVE  TypeInv'
    <2>1. TypeOK'
      BY <1>8 DEF TxGet, Ready
    <2>2. Pending'
      BY <1>8 DEF TxGet, Ready
    <2>3. QED
      BY <2>1, <2>2 DEF TypeInv
  <1>9. ASSUME NEW p \in Procs, NEW k \in Keys, GetForUpdate(p, k)
       PROVE  TypeInv'
    <2>1. TypeOK'
      BY <1>9 DEF GetForUpdate, Ready
    <2>2. Pending'
      BY <1>9 DEF GetForUpdate, Ready
    <2>3. QED
      BY <2>1, <2>2 DEF TypeInv
  <1>10. ASSUME NEW p \in Procs, Select(p)
       PROVE  TypeInv'
    <2> DEFINE k == cur[p]
    <2>1. Visible(p, k) \in Row /\ Visible(p, k) \in MaybeRow
      BY LatestIsRow
    <2>2. store' \in [Procs -> [Keys -> MaybeRow]]
      <3> DEFINE v == IF Visible(p, k) = Absent THEN store[p][k]
                                               ELSE Visible(p, k)
      <3>0. cur[p] \in Keys /\ store[p] \in [Keys -> MaybeRow]
        OBVIOUS
      <3>1. v \in MaybeRow
        BY <2>1, <3>0
      <3>2. store' = [store EXCEPT ![p][k] = v]
        BY <1>10 DEF Select, Keep
      <3>3. QED
        BY <3>0, <3>1, <3>2, Update2
    <2>3. snap' \in [Procs -> [Keys -> MaybeRow]]
      BY <1>10 DEF Select, Keep
    <2>4. TypeOK'
      BY <1>10, <2>2, <2>3 DEF Select, Keep
    <2>5. Visible(p, k) # Absent => store'[p][k] # None
      BY <1>10, <2>1 DEF Select, Keep
    <2>6. Pending'
      BY <1>10, <2>5 DEF Select, Keep
    <2>7. QED
      BY <2>4, <2>6 DEF TypeInv
  <1>11. ASSUME NEW p \in Procs, SelectForUpdate(p)
       PROVE  TypeInv'
    <2> DEFINE k == cur[p]
    <2>1. Latest(p, k) \in Row /\ Latest(p, k) \in MaybeRow
      BY LatestIsRow
    <2>2. /\ store' \in [Procs -> [Keys -> MaybeRow]]
          /\ locked' \in [Procs -> SUBSET Keys]
          /\ Latest(p, k) # Absent => store'[p][k] # None
      <3>1. CASE UNCHANGED storeVars /\ Latest(p, k) = Absent
        BY <3>1
      <3>2. CASE /\ store' = [store EXCEPT ![p][k] = Latest(p, k)]
                 /\ locked' = [locked EXCEPT ![p] = @ \cup {k}]
        BY <2>1, <3>2, Update2
      <3>3. QED
        BY <1>11, <3>1, <3>2 DEF SelectForUpdate, Keep
    <2>3. TypeOK'
      <3>1. locks' \in [Keys -> SUBSET Procs]
        BY <1>11, GapLockTaken DEF SelectForUpdate, Takes
      <3>2. QED
        BY <1>11, <2>2, <3>1 DEF SelectForUpdate, Keep
    <2>4. Pending'
      BY <1>11, <2>2 DEF SelectForUpdate, Keep
    <2>5. QED
      BY <2>3, <2>4 DEF TypeInv
  <1>12. ASSUME NEW p \in Procs, LockWaitEnds(p)
       PROVE  TypeInv'
    BY <1>12 DEF LockWaitEnds, TypeInv
  <1>13. ASSUME NEW p \in Procs, Fill(p)
       PROVE  TypeInv'
    <2>1. store[p][cur[p]] \in Row
      <3>1. cur[p] \in Keys /\ store[p] \in [Keys -> MaybeRow]
        OBVIOUS
      <3>2. store[p][cur[p]] # None
        BY <1>13 DEF Fill, SetNxEntry
      <3>3. QED
        BY <3>1, <3>2
    <2>2. TypeOK'
      BY <1>13, <2>1 DEF Fill, SetNxEntry, SetEntry
    <2>3. Pending'
      BY <1>13 DEF Fill, SetNxEntry
    <2>4. QED
      BY <2>2, <2>3 DEF TypeInv
  <1>14. ASSUME NEW p \in Procs, FillExpire(p)
       PROVE  TypeInv'
    BY <1>14 DEF FillExpire, ExpireEntry, TypeInv
  <1>15. ASSUME NEW p \in Procs, NEW k \in Keys, NEW kind \in Kinds,
                SetSave(p, k, kind)
       PROVE  TypeInv'
    BY <1>15 DEF SetSave, Ready, Merged, Kinds, TypeInv
  <1>16. ASSUME NEW p \in Procs, NEW k \in Keys, SetForceDelete(p, k)
       PROVE  TypeInv'
    BY <1>16 DEF SetForceDelete, Ready, TypeInv
  <1>17. ASSUME NEW p \in Procs, WriteAll(p)
       PROVE  TypeInv'
    BY <1>17 DEF WriteAll, Ready, Reserved, Row, TypeInv
  <1>18. ASSUME NEW p \in Procs, NEW k \in Keys, WriteInsert(p, k)
       PROVE  TypeInv'
    <2>1. TypeOK'
      <3>1. image[p] \in MaybeRow
        BY LatestIsRow
      <3>2. QED
        BY <1>18, <3>1, WriteRowTypes, WriteTakes DEF WriteInsert, TypeInv
    <2>2. Pending'
      BY <1>18 DEF WriteInsert, AtRow, WriteRow
    <2>3. QED
      BY <2>1, <2>2 DEF TypeInv
  <1>19. ASSUME NEW p \in Procs, NEW k \in Keys, DuplicateEntry(p, k)
       PROVE  TypeInv'
    BY <1>19 DEF DuplicateEntry, AtRow, TypeInv
  <1>20. ASSUME NEW p \in Procs, NEW k \in Keys, WriteSave(p, k)
       PROVE  TypeInv'
    <2>1. TypeOK'
      <3>1. image[p] \in MaybeRow
        BY LatestIsRow
      <3>2. QED
        BY <1>20, <3>1, WriteRowTypes, WriteTakes DEF WriteSave, TypeInv
    <2>2. Pending'
      BY <1>20 DEF WriteSave, AtRow, WriteRow
    <2>3. QED
      BY <2>1, <2>2 DEF TypeInv
  <1>20a. ASSUME NEW p \in Procs, NEW k \in Keys, SaveMisses(p, k)
       PROVE  TypeInv'
    <2>1. locks' \in [Keys -> SUBSET Procs]
      BY <1>20a, WriteTakes DEF Takes
    <2>2. TypeOK'
      BY <1>20a, <2>1 DEF SaveMisses
    <2>3. Pending'
      BY <1>20a DEF SaveMisses
    <2>4. QED
      BY <2>2, <2>3 DEF TypeInv
  <1>21. ASSUME NEW p \in Procs, NEW k \in Keys, WriteUpdate(p, k)
       PROVE  TypeInv'
    <2>1. TypeOK'
      <3>1. (IF Latest(p, k) = Absent THEN own[p][k] ELSE image[p]) \in MaybeRow
        BY LatestIsRow
      <3>2. QED
        BY <1>21, <3>1, WriteRowTypes, WriteTakes, ZenonT(30)
        DEF WriteUpdate, TypeInv
    <2>2. Pending'
      BY <1>21 DEF WriteUpdate, AtRow, WriteRow, Latest
    <2>3. QED
      BY <2>1, <2>2 DEF TypeInv
  <1>22. ASSUME NEW p \in Procs, NEW k \in Keys, WriteDelete(p, k)
       PROVE  TypeInv'
    <2>1. TypeOK'
      <3>1. (IF Latest(p, k) = Absent THEN own[p][k] ELSE Absent) \in MaybeRow
        BY LatestIsRow
      <3>2. QED
        BY <1>22, <3>1, WriteRowTypes, WriteTakes, ZenonT(30)
        DEF WriteDelete, TypeInv
    <2>2. Pending'
      BY <1>22 DEF WriteDelete, AtRow, WriteRow, Latest
    <2>3. QED
      BY <2>1, <2>2 DEF TypeInv
  <1>23. ASSUME NEW p \in Procs, NEW k \in Keys, PushSaved(p, k)
       PROVE  TypeInv'
    <2>1. TypeOK'
      BY <1>23 DEF PushSaved, SetEntry, SavedImage
    <2>2. Pending'
      BY <1>23 DEF PushSaved, SetEntry, SavedImage
    <2>3. QED
      BY <2>1, <2>2 DEF TypeInv
  <1>24. ASSUME NEW p \in Procs, PushExpire(p)
       PROVE  TypeInv'
    BY <1>24 DEF PushExpire, ExpireEntry, TypeInv
  <1>25. ASSUME NEW p \in Procs, PurgeUpdated(p)
       PROVE  TypeInv'
    BY <1>25 DEF PurgeUpdated, DelEntries, TypeInv
  <1>26. ASSUME NEW p \in Procs, PurgeDeleted(p)
       PROVE  TypeInv'
    BY <1>26 DEF PurgeDeleted, DelEntries, ToInvalidate, TypeInv
  <1>27. ASSUME NEW k \in Keys, Age(k)
       PROVE  TypeInv'
    BY <1>27 DEF Age, TypeInv
  <1>28. ASSUME NEW k \in Keys, Expire(k)
       PROVE  TypeInv'
    BY <1>28 DEF Expire, DelEntries, TypeInv
  <1>29. CASE UNCHANGED vars
    BY <1>29 DEF vars, TypeInv
  <1>30. QED
    BY <1>1, <1>2, <1>3, <1>4, <1>5, <1>6, <1>7, <1>8, <1>9, <1>10, <1>11,
       <1>12, <1>13, <1>14, <1>15, <1>16, <1>17, <1>18, <1>19, <1>20, <1>20a,
       <1>21, <1>22, <1>23, <1>24, <1>25, <1>26, <1>27, <1>28, <1>29 DEF Next,
       Application, Continue

\* The variables of the cache keep their types through every operation of Client
\* and ModelManager, every lock wait and every failure.
THEOREM TypeCorrect == Spec => []TypeOK
  <1>1. TypeInv => TypeOK
    BY DEF TypeInv
  <1>2. QED
    BY TypeInit, TypeStep, <1>1, PTL DEF Spec

-----------------------------------------------------------------------------
(* Locks: why a model marked IsForUpdate can be trusted                     *)

\* Only open transactions hold locks.
HoldersAreOpen == \A p \in Procs, k \in Keys : p \in locks[k] => tx[p]

\* Two transactions hold a key only as gap locks of a missing row.
SharedLocksAreGaps ==
    \A p, q \in Procs, k \in Keys :
        p \in locks[k] /\ q \in locks[k] /\ p # q => committed[k] = Absent

\* A transaction that changed a row holds its lock alone.
WritersAreAlone ==
    \A p \in Procs, k \in Keys : own[p][k] # None => locks[k] = {p}

\* The identity map between the steps of one call.
StoreSteps ==
    \A p \in Procs :
        /\ todo[p] # {} => tx[p] /\ pc[p] \in {"write", "failed"}
        /\ pc[p] = "select" => store[p][cur[p]] = None
        /\ pc[p] = "lock" => ~Dangerous(p, cur[p])
        /\ \A k \in locked[p] : store[p][k] # None

\* A reservation of a model from the identity map is of the model still there.
ReservedIsStored ==
    \A p \in Procs, k \in Keys :
        plan[p][k] \in Kinds /\ base[p][k] # None => base[p][k] = store[p][k]

\* Together these are inductive: the lock keeps the committed row from changing,
\* and the guards of getModels keep the identity map and the reservations in step
\* with it.
LockInv == /\ HoldersAreOpen /\ SharedLocksAreGaps /\ WritersAreAlone
           /\ StoreSteps /\ ReservedIsStored /\ LockedModelsAreCurrent

\* At the start nobody holds anything.
LEMMA LockInit == Init => LockInv
  BY DEF Init, LockInv, HoldersAreOpen, SharedLocksAreGaps, WritersAreAlone,
     StoreSteps, ReservedIsStored, LockedModelsAreCurrent, NoRows, NoPlan, Kinds

\* Locks that are granted leave a changed row to its writer, and only gaps to
\* several.
LEMMA TakesLocks ==
    ASSUME TypeOK, LockInv, NEW p \in Procs, NEW k \in Keys,
           tx[p], Lockable(p, k), Takes(p, k), UNCHANGED <<committed, tx>>
    PROVE  /\ HoldersAreOpen' /\ SharedLocksAreGaps'
           /\ own' = own => WritersAreAlone'
  <1> USE DEF LockInv, Takes
  <1>1. HoldersAreOpen'
    BY DEF HoldersAreOpen
  <1>2. SharedLocksAreGaps'
    <2>1. \A j \in Keys : j # k /\ locks'[j] # locks[j] => committed[j] = Absent
      BY DEF Missing
    <2>2. locks'[k] \subseteq {p} \/ committed[k] = Absent
      BY DEF Lockable, Exclusive
    <2>3. QED
      BY <2>1, <2>2 DEF SharedLocksAreGaps
  <1>3. ASSUME own' = own PROVE WritersAreAlone'
    <2> SUFFICES ASSUME NEW q \in Procs, NEW j \in Keys, own[q][j] # None
                 PROVE  locks'[j] = {q}
      BY <1>3 DEF WritersAreAlone
    <2>1. locks[j] = {q}
      BY DEF WritersAreAlone
    <2>2. CASE j = k
      BY <2>1, <2>2 DEF Lockable, Exclusive
    <2>3. CASE j # k
      BY <2>1, <2>3 DEF Missing
    <2>4. QED
      BY <2>2, <2>3
  <1>4. QED
    BY <1>1, <1>2, <1>3

\* A lock on a row that is there is exclusive.
LEMMA RowLocksAreExclusive ==
    ASSUME WritersAreAlone, NEW p \in Procs, NEW k \in Keys,
           Lockable(p, k), Latest(p, k) # Absent \/ own[p][k] # None
    PROVE  Exclusive(p, k)
  BY DEF WritersAreAlone, Lockable, Exclusive, Latest

\* Every statement of WriteAll has a lock, and an exclusive one if it writes.
LEMMA WritesAreLocked ==
    ASSUME WritersAreAlone, NEW p \in Procs, NEW k \in Keys
    PROVE  /\ CanWrite(p, k) => Lockable(p, k)
           /\ WriteInsert(p, k) => Exclusive(p, k)
           /\ WriteSave(p, k) => Exclusive(p, k)
           /\ WriteUpdate(p, k) /\ Latest(p, k) # Absent => Exclusive(p, k)
           /\ WriteDelete(p, k) /\ Latest(p, k) # Absent => Exclusive(p, k)
  <1>1. CanWrite(p, k) => Lockable(p, k)
    BY DEF CanWrite, Lockable
  <1>2. WriteInsert(p, k) => Exclusive(p, k)
    BY DEF WriteInsert, AtRow, CanWrite, Inserts
  <1>3. WriteSave(p, k) => Exclusive(p, k)
    <2>1. CASE Latest(p, k) # Absent
      BY <1>1, <2>1, RowLocksAreExclusive DEF WriteSave, AtRow
    <2>2. CASE Latest(p, k) = Absent
      BY <2>2 DEF WriteSave, AtRow, CanWrite, Inserts
    <2>3. QED
      BY <2>1, <2>2
  <1>4. /\ WriteUpdate(p, k) /\ Latest(p, k) # Absent => Exclusive(p, k)
        /\ WriteDelete(p, k) /\ Latest(p, k) # Absent => Exclusive(p, k)
    BY <1>1, RowLocksAreExclusive DEF WriteUpdate, WriteDelete, AtRow
  <1>5. QED
    BY <1>1, <1>2, <1>3, <1>4

\* A statement of WriteAll takes the lock it waited for.
LEMMA WriteRowLocks ==
    ASSUME TypeOK, LockInv, NEW p \in Procs, NEW k \in Keys, NEW v \in MaybeRow,
           pc[p] = "write", k \in todo[p], plan[p][k] # "none",
           Lockable(p, k), Takes(p, k), v # None => Exclusive(p, k),
           WriteRow(p, k, v)
    PROVE  LockInv'
  <1> USE DEF TypeOK, LockInv, WriteRow, Goto
  <1>1. HoldersAreOpen' /\ SharedLocksAreGaps'
    <2>1. tx[p]
      BY DEF StoreSteps
    <2>2. QED
      BY <2>1, TakesLocks
  <1>2. \A j \in Keys : locks[j] \subseteq locks'[j]
    BY DEF Takes
  <1>3. WritersAreAlone'
    <2> SUFFICES ASSUME NEW q \in Procs, NEW j \in Keys, own'[q][j] # None
                 PROVE  locks'[j] = {q}
      BY DEF WritersAreAlone
    <2>1. CASE q = p /\ j = k
      <3>1. locks[k] \subseteq {p}
        BY <2>1 DEF Exclusive
      <3>2. QED
        BY <2>1, <3>1 DEF Takes
    <2>2. CASE ~(q = p /\ j = k)
      <3>1. own[q][j] # None
        BY <2>2
      <3>2. locks[j] = {q}
        BY <3>1 DEF WritersAreAlone
      <3>3. CASE j = k
        BY <2>2, <3>1, <3>2, <3>3 DEF Lockable, Exclusive
      <3>4. CASE j # k
        BY <3>1, <3>2, <3>4 DEF Takes, Missing
      <3>5. QED
        BY <3>3, <3>4
    <2>3. QED
      BY <2>1, <2>2
  <1>4. StoreSteps'
    <2>1. CASE todo[p] = {k}
      BY <2>1 DEF StoreSteps, Dangerous, Held
    <2>2. CASE todo[p] # {k}
      BY <2>2 DEF StoreSteps, Dangerous, Held, storeVars, planVars
    <2>3. QED
      BY <2>1, <2>2
  <1>5. ReservedIsStored'
    <2>1. CASE todo[p] = {k}
      <3>1. \A j \in Keys : base'[p][j] = None
        BY <2>1 DEF NoRows
      <3>2. \A q \in Procs : q # p => /\ plan'[q] = plan[q] /\ base'[q] = base[q]
                                     /\ store'[q] = store[q]
        BY <2>1
      <3> SUFFICES ASSUME NEW q \in Procs, NEW j \in Keys,
                          plan'[q][j] \in Kinds, base'[q][j] # None
                   PROVE  base'[q][j] = store'[q][j]
        BY DEF ReservedIsStored
      <3>3. q # p
        BY <3>1
      <3>4. QED
        BY <3>2, <3>3 DEF ReservedIsStored
    <2>2. CASE todo[p] # {k}
      <3>1. UNCHANGED <<plan, base, store>>
        BY <2>2, ZenonT(30) DEF storeVars, planVars
      <3>2. QED
        BY <3>1 DEF ReservedIsStored
    <2>3. QED
      BY <2>1, <2>2
  <1>6. LockedModelsAreCurrent'
    <2>1. CASE todo[p] = {k}
      BY <1>2, <2>1 DEF LockedModelsAreCurrent, Latest, Unwritten
    <2>2. CASE todo[p] # {k}
      BY <1>2, <2>2
      DEF LockedModelsAreCurrent, Latest, Unwritten, storeVars, planVars
    <2>3. QED
      BY <2>1, <2>2
  <1>7. QED
    BY <1>1, <1>3, <1>4, <1>5, <1>6 DEF LockInv

\* A plain read adds to the identity map only what was not there.
LEMMA GetLocks ==
    ASSUME TypeOK, LockInv, NEW p \in Procs, NEW k \in Keys, Get(p, k)
    PROVE  LockInv'
  <1> USE DEF TypeOK, LockInv, Get, Keep, Goto, Ready, dbVars, txVars, planVars,
             writeVars
  <1>1. HoldersAreOpen' /\ SharedLocksAreGaps' /\ WritersAreAlone'
    BY DEF HoldersAreOpen, SharedLocksAreGaps, WritersAreAlone
  <1>2. \/ store' = [store EXCEPT ![p][k] = redis[k]] /\ UNCHANGED <<pc, cur>>
        \/ /\ UNCHANGED store
           /\ pc' = [pc EXCEPT ![p] = "select"]
           /\ cur' = [cur EXCEPT ![p] = k]
    OBVIOUS
  <1>3. store[p][k] = None /\ k \notin locked[p] /\ todo[p] = {}
    BY DEF StoreSteps, Held
  <1>4. \A q \in Procs, j \in Keys :
            store[q][j] # None => store'[q][j] = store[q][j]
    BY <1>2, <1>3
  <1>5. StoreSteps'
    BY <1>2, <1>3, <1>4 DEF StoreSteps, Dangerous, Held
  <1>6. ReservedIsStored'
    BY <1>4 DEF ReservedIsStored
  <1>7. LockedModelsAreCurrent'
    BY <1>3, <1>4 DEF LockedModelsAreCurrent, StoreSteps, Latest, Unwritten
  <1>8. QED
    BY <1>1, <1>5, <1>6, <1>7

\* A locking read replaces the model it marks, and the model is not reserved.
LEMMA SelectForUpdateLocks ==
    ASSUME TypeOK, LockInv, NEW p \in Procs, SelectForUpdate(p)
    PROVE  LockInv'
  <1> DEFINE k == cur[p]
  <1> USE DEF TypeOK, LockInv, SelectForUpdate, Keep, Goto, redisVars, txVars,
             planVars, writeVars
  <1>0. k \in Keys /\ Lockable(p, k) /\ ~Dangerous(p, k) /\ todo[p] = {}
    BY DEF StoreSteps
  <1>1. locks' = locks \/ (tx[p] /\ Takes(p, k))
    BY <1>0, GapLockTaken
  <1>2. HoldersAreOpen' /\ SharedLocksAreGaps' /\ WritersAreAlone'
    <2>1. CASE locks' = locks
      BY <2>1 DEF HoldersAreOpen, SharedLocksAreGaps, WritersAreAlone
    <2>2. CASE tx[p] /\ Takes(p, k)
      BY <1>0, <2>2, TakesLocks
    <2>3. QED
      BY <1>1, <2>1, <2>2
  <1>5. \/ UNCHANGED storeVars
        \/ /\ store' = [store EXCEPT ![p][k] = Latest(p, k)]
           /\ locked' = [locked EXCEPT ![p] = @ \cup {k}]
    OBVIOUS
  <1>6. Latest(p, k) # None
    BY <1>0, LatestIsRow, RowFacts
  <1>7. pc' = [pc EXCEPT ![p] = "fill"] \/ pc' = [pc EXCEPT ![p] = "app"]
    OBVIOUS
  <1>8. StoreSteps'
    BY <1>0, <1>5, <1>6, <1>7 DEF StoreSteps, Dangerous, Held, storeVars
  <1>9. ReservedIsStored'
    <2>1. CASE UNCHANGED storeVars
      BY <2>1 DEF ReservedIsStored, storeVars
    <2>2. CASE store' = [store EXCEPT ![p][k] = Latest(p, k)]
      <3> SUFFICES ASSUME NEW q \in Procs, NEW j \in Keys,
                          plan'[q][j] \in Kinds, base'[q][j] # None
                   PROVE  base'[q][j] = store'[q][j]
        BY DEF ReservedIsStored
      <3>1. base[q][j] = store[q][j]
        BY DEF ReservedIsStored
      <3>2. CASE q = p /\ j = k
        BY <1>0, <2>2, <3>1, <3>2 DEF Dangerous, Held
      <3>3. CASE ~(q = p /\ j = k)
        BY <2>2, <3>1, <3>3
      <3> QED
        BY <3>2, <3>3
    <2>3. QED
      BY <1>5, <2>1, <2>2
  <1>10. LockedModelsAreCurrent'
    <2>1. \A q \in Procs, j \in Keys : Latest(q, j)' = Latest(q, j)
      BY DEF Latest
    <2>2. tx[p] => p \in locks'[k]
      BY <1>0, GapLockTaken DEF Takes
    <2>3. \A j \in Keys : locks[j] \subseteq locks'[j]
      BY <1>1 DEF Takes
    <2>4. UNCHANGED <<tx, plan, todo>>
      OBVIOUS
    <2> HIDE DEF SelectForUpdate
    <2>5. ASSUME NEW q \in Procs, NEW j \in Keys, q # p \/ j # k
          PROVE  /\ store'[q][j] = store[q][j]
                 /\ j \in locked'[q] => j \in locked[q]
      BY <1>5, <2>5 DEF storeVars
    <2>6. CASE UNCHANGED storeVars
      BY <2>1, <2>3, <2>4, <2>6
      DEF LockedModelsAreCurrent, Unwritten, storeVars
    <2>7. CASE store'[p][k] = Latest(p, k)
      <3> SUFFICES ASSUME NEW q \in Procs, NEW j \in Keys,
                          tx'[q], j \in locked'[q], Unwritten(q, j)'
                   PROVE  q \in locks'[j] /\ store'[q][j] = Latest(q, j)'
        BY DEF LockedModelsAreCurrent
      <3>1. tx[q] /\ Unwritten(q, j)
        BY <2>4 DEF Unwritten
      <3>2. CASE q = p /\ j = k
        BY <2>1, <2>2, <2>7, <3>1, <3>2
      <3>3. CASE q # p \/ j # k
        <4>1. q \in locks[j] /\ store[q][j] = Latest(q, j)
          BY <2>5, <3>1, <3>3 DEF LockedModelsAreCurrent
        <4>2. QED
          BY <2>1, <2>3, <2>5, <3>3, <4>1
      <3>4. QED
        BY <3>2, <3>3
    <2>8. QED
      BY <1>5, <2>6, <2>7
  <1>11. QED
    BY <1>2, <1>8, <1>9, <1>10

\* Entering WriteAll makes every reservation one still to be written.
LEMMA WriteAllLocks ==
    ASSUME TypeOK, LockInv, NEW p \in Procs, WriteAll(p)
    PROVE  LockInv'
  <1> USE DEF TypeOK, LockInv, WriteAll, Ready, Goto, redisVars, txVars,
             planVars, storeVars
  <1>1. HoldersAreOpen' /\ SharedLocksAreGaps' /\ WritersAreAlone'
    BY DEF HoldersAreOpen, SharedLocksAreGaps, WritersAreAlone
  <1>2. StoreSteps'
    BY DEF StoreSteps, Dangerous, Held
  <1>3. ReservedIsStored'
    BY DEF ReservedIsStored
  <1>4. todo[p] = {} /\ todo'[p] = Reserved(p)
    BY DEF StoreSteps
  <1>5. \A q \in Procs, j \in Keys : Unwritten(q, j)' => Unwritten(q, j)
    BY <1>4 DEF Unwritten, Reserved
  <1>6. LockedModelsAreCurrent'
    BY <1>5 DEF LockedModelsAreCurrent, Latest
  <1>7. QED
    BY <1>1, <1>2, <1>3, <1>6

\* Every step keeps the locks and the identity maps in step.
LEMMA LockStep == TypeOK /\ LockInv /\ [Next]_vars => LockInv'
  <1> SUFFICES ASSUME TypeOK, LockInv, [Next]_vars PROVE LockInv'
    OBVIOUS
  <1> USE ConstantsAssumption
      DEF TypeOK, LockInv, HoldersAreOpen, SharedLocksAreGaps, WritersAreAlone,
          StoreSteps, ReservedIsStored, LockedModelsAreCurrent, Latest,
          Unwritten, Dangerous, Held, Goto, NoRows, NoPlan, dbVars, redisVars,
          txVars, storeVars, planVars, writeVars
  <1>1. ASSUME NEW p \in Procs, StartTransaction(p)
       PROVE  LockInv'
    <2>1. HoldersAreOpen'
      BY <1>1 DEF StartTransaction
    <2>2. SharedLocksAreGaps'
      BY <1>1 DEF StartTransaction
    <2>3. WritersAreAlone'
      BY <1>1 DEF StartTransaction
    <2>4. StoreSteps'
      BY <1>1 DEF StartTransaction, FreshManager
    <2>5. ReservedIsStored'
      BY <1>1 DEF StartTransaction, FreshManager
    <2>6. LockedModelsAreCurrent'
      BY <1>1 DEF StartTransaction, FreshManager
    <2>7. QED
      BY <2>1, <2>2, <2>3, <2>4, <2>5, <2>6
  <1>2. ASSUME NEW p \in Procs, EndRequest(p)
       PROVE  LockInv'
    BY <1>2 DEF EndRequest, FreshManager
  <1>3. ASSUME NEW p \in Procs, Commit(p)
       PROVE  LockInv'
    BY <1>3 DEF Commit, EndTransaction
  <1>4. ASSUME NEW p \in Procs, WriteEnd(p)
       PROVE  LockInv'
    BY <1>4 DEF WriteEnd, DelEntries, FreshManager
  <1>5. ASSUME NEW p \in Procs, Rollback(p)
       PROVE  LockInv'
    BY <1>5 DEF Rollback, EndTransaction, FreshManager
  <1>6. ASSUME NEW p \in Procs, Fault(p)
       PROVE  LockInv'
    <2>1. HoldersAreOpen'
      BY <1>6 DEF Fault, EndTransaction, FreshManager
    <2>2. SharedLocksAreGaps'
      BY <1>6 DEF Fault, EndTransaction, FreshManager
    <2>3. WritersAreAlone'
      BY <1>6 DEF Fault, EndTransaction, FreshManager
    <2>4. StoreSteps'
      BY <1>6 DEF Fault, EndTransaction, FreshManager
    <2>5. ReservedIsStored'
      BY <1>6 DEF Fault, EndTransaction, FreshManager
    <2>6. LockedModelsAreCurrent'
      BY <1>6 DEF Fault, EndTransaction, FreshManager
    <2>7. QED
      BY <2>1, <2>2, <2>3, <2>4, <2>5, <2>6
  <1>7. ASSUME NEW p \in Procs, NEW k \in Keys, Get(p, k)
       PROVE  LockInv'
    BY <1>7, GetLocks
  <1>8. ASSUME NEW p \in Procs, NEW k \in Keys, TxGet(p, k)
       PROVE  LockInv'
    BY <1>8 DEF TxGet, Ready
  <1>9. ASSUME NEW p \in Procs, NEW k \in Keys, GetForUpdate(p, k)
       PROVE  LockInv'
    BY <1>9 DEF GetForUpdate, Ready
  <1>10. ASSUME NEW p \in Procs, Select(p)
       PROVE  LockInv'
    <2>1. store' = [store EXCEPT ![p][cur[p]] = IF Visible(p, cur[p]) = Absent
                                                THEN @ ELSE Visible(p, cur[p])]
      BY <1>10 DEF Select, Keep
    <2>2. QED
      BY <1>10, <2>1 DEF Select, Visible
  <1>11. ASSUME NEW p \in Procs, SelectForUpdate(p)
       PROVE  LockInv'
    BY <1>11, SelectForUpdateLocks
  <1>12. ASSUME NEW p \in Procs, LockWaitEnds(p)
       PROVE  LockInv'
    BY <1>12 DEF LockWaitEnds
  <1>13. ASSUME NEW p \in Procs, Fill(p)
       PROVE  LockInv'
    BY <1>13 DEF Fill, SetNxEntry, SetEntry
  <1>14. ASSUME NEW p \in Procs, FillExpire(p)
       PROVE  LockInv'
    BY <1>14 DEF FillExpire, ExpireEntry
  <1>15. ASSUME NEW p \in Procs, NEW k \in Keys, NEW kind \in Kinds,
                SetSave(p, k, kind)
       PROVE  LockInv'
    BY <1>15 DEF SetSave, Ready, Merged, Kinds
  <1>16. ASSUME NEW p \in Procs, NEW k \in Keys, SetForceDelete(p, k)
       PROVE  LockInv'
    BY <1>16 DEF SetForceDelete, Ready
  <1>17. ASSUME NEW p \in Procs, WriteAll(p)
       PROVE  LockInv'
    BY <1>17, WriteAllLocks
  <1>18. ASSUME NEW p \in Procs, NEW k \in Keys, WriteInsert(p, k)
       PROVE  LockInv'
    <2>1. image[p] \in MaybeRow
      BY LatestIsRow, RowFacts
    <2>0. pc[p] = "write" /\ k \in todo[p] /\ plan[p][k] # "none"
      BY <1>18 DEF WriteInsert, AtRow
    <2>2. Lockable(p, k) /\ (image[p] # None => Exclusive(p, k))
      BY <1>18, WritesAreLocked DEF WriteInsert, AtRow
    <2>3. Takes(p, k)
      BY <1>18, WriteTakes
    <2>4. QED
      BY <1>18, <2>0, <2>1, <2>2, <2>3, WriteRowLocks, ZenonT(30)
      DEF WriteInsert
  <1>19. ASSUME NEW p \in Procs, NEW k \in Keys, DuplicateEntry(p, k)
       PROVE  LockInv'
    BY <1>19 DEF DuplicateEntry, AtRow
  <1>20. ASSUME NEW p \in Procs, NEW k \in Keys, WriteSave(p, k)
       PROVE  LockInv'
    <2>1. image[p] \in MaybeRow
      BY LatestIsRow, RowFacts
    <2>0. pc[p] = "write" /\ k \in todo[p] /\ plan[p][k] # "none"
      BY <1>20 DEF WriteSave, AtRow
    <2>2. Lockable(p, k) /\ (image[p] # None => Exclusive(p, k))
      BY <1>20, WritesAreLocked DEF WriteSave, AtRow
    <2>3. Takes(p, k)
      BY <1>20, WriteTakes
    <2>4. QED
      BY <1>20, <2>0, <2>1, <2>2, <2>3, WriteRowLocks, ZenonT(30)
      DEF WriteSave
  <1>20a. ASSUME NEW p \in Procs, NEW k \in Keys, SaveMisses(p, k)
       PROVE  LockInv'
    <2>1. tx[p] /\ Lockable(p, k) /\ Takes(p, k)
      BY <1>20a, WritesAreLocked, WriteTakes DEF SaveMisses, AtRow
    <2>2. HoldersAreOpen' /\ SharedLocksAreGaps' /\ WritersAreAlone'
      BY <1>20a, <2>1, TakesLocks DEF SaveMisses
    <2>3. StoreSteps' /\ ReservedIsStored'
      BY <1>20a DEF SaveMisses
    <2>4. LockedModelsAreCurrent'
      BY <1>20a, <2>1 DEF SaveMisses, Takes
    <2>5. QED
      BY <2>2, <2>3, <2>4
  <1>21. ASSUME NEW p \in Procs, NEW k \in Keys, WriteUpdate(p, k)
       PROVE  LockInv'
    <2>1. (IF Latest(p, k) = Absent THEN own[p][k] ELSE image[p]) \in MaybeRow
      BY LatestIsRow, RowFacts
    <2>0. pc[p] = "write" /\ k \in todo[p] /\ plan[p][k] # "none"
      BY <1>21 DEF WriteUpdate, AtRow
    <2>2. /\ Lockable(p, k)
          /\ (IF Latest(p, k) = Absent THEN own[p][k] ELSE image[p]) # None
                => Exclusive(p, k)
      BY <1>21, WritesAreLocked, RowLocksAreExclusive DEF WriteUpdate, AtRow
    <2>3. Takes(p, k)
      BY <1>21, WriteTakes
    <2>4. QED
      BY <1>21, <2>0, <2>1, <2>2, <2>3, WriteRowLocks, ZenonT(30)
      DEF WriteUpdate
  <1>22. ASSUME NEW p \in Procs, NEW k \in Keys, WriteDelete(p, k)
       PROVE  LockInv'
    <2>1. (IF Latest(p, k) = Absent THEN own[p][k] ELSE Absent) \in MaybeRow
      BY LatestIsRow, RowFacts
    <2>0. pc[p] = "write" /\ k \in todo[p] /\ plan[p][k] # "none"
      BY <1>22 DEF WriteDelete, AtRow
    <2>2. /\ Lockable(p, k)
          /\ (IF Latest(p, k) = Absent THEN own[p][k] ELSE Absent) # None
                => Exclusive(p, k)
      BY <1>22, WritesAreLocked, RowLocksAreExclusive DEF WriteDelete, AtRow
    <2>3. Takes(p, k)
      BY <1>22, WriteTakes
    <2>4. QED
      BY <1>22, <2>0, <2>1, <2>2, <2>3, WriteRowLocks, ZenonT(30)
      DEF WriteDelete
  <1>23. ASSUME NEW p \in Procs, NEW k \in Keys, PushSaved(p, k)
       PROVE  LockInv'
    BY <1>23 DEF PushSaved, SetEntry, SavedImage
  <1>24. ASSUME NEW p \in Procs, PushExpire(p)
       PROVE  LockInv'
    BY <1>24 DEF PushExpire, ExpireEntry
  <1>25. ASSUME NEW p \in Procs, PurgeUpdated(p)
       PROVE  LockInv'
    BY <1>25 DEF PurgeUpdated, DelEntries
  <1>26. ASSUME NEW p \in Procs, PurgeDeleted(p)
       PROVE  LockInv'
    BY <1>26 DEF PurgeDeleted, DelEntries, ToInvalidate
  <1>27. ASSUME NEW k \in Keys, Age(k)
       PROVE  LockInv'
    BY <1>27 DEF Age
  <1>28. ASSUME NEW k \in Keys, Expire(k)
       PROVE  LockInv'
    BY <1>28 DEF Expire, DelEntries
  <1>29. CASE UNCHANGED vars
    BY <1>29 DEF vars
  <1>30. QED
    BY <1>1, <1>2, <1>3, <1>4, <1>5, <1>6, <1>7, <1>8, <1>9, <1>10, <1>11,
       <1>12, <1>13, <1>14, <1>15, <1>16, <1>17, <1>18, <1>19, <1>20, <1>20a,
       <1>21, <1>22, <1>23, <1>24, <1>25, <1>26, <1>27, <1>28, <1>29 DEF Next,
       Application, Continue

\* The inductive invariant holds.
LEMMA LocksHold == Spec => []LockInv
  <1>1. Init => TypeInv /\ LockInv
    BY TypeInit, LockInit
  <1>2. TypeInv /\ LockInv /\ [Next]_vars => (TypeInv /\ LockInv)'
    BY TypeStep, LockStep DEF TypeInv
  <1>3. QED
    BY <1>1, <1>2, PTL DEF Spec

\* A model marked IsForUpdate in a transaction's identity map is locked by that
\* transaction and equal to the row, however it came there (getModels,
\* GetModelForUpdateWithCreate) and whatever the other requests do.
THEOREM LockedModelsStayCurrent == Spec => []LockedModelsAreCurrent
  <1>1. LockInv => LockedModelsAreCurrent
    BY DEF LockInv
  <1>2. QED
    BY LocksHold, <1>1, PTL

\* A reservation that is written under a lock taken with GetModelForUpdate was
\* made from the row as it still is: no update of another request is lost.
THEOREM LockedSavesStayCurrent == Spec => []LockedSavesAreCurrent
  <1>1. LockInv => LockedSavesAreCurrent
    BY DEF LockInv, ReservedIsStored, LockedModelsAreCurrent,
       LockedSavesAreCurrent
  <1>2. QED
    BY LocksHold, <1>1, PTL

-----------------------------------------------------------------------------
\* Everything a transaction can read is committed or its own.
CleanInv ==
    /\ \A k \in Keys : committed[k] \in installed \cup {Absent}
    /\ \A p \in Procs, k \in Keys : snap[p][k] \in installed \cup {Absent, None}
    /\ TxModelsAreCommitted

\* At the start every row is committed.
LEMMA CleanInit == Init => CleanInv
  BY ConstantsAssumption DEF Init, CleanInv, TxModelsAreCommitted, NoRows

\* A statement of WriteAll makes the image the transaction's own.
LEMMA WriteRowClean ==
    ASSUME TypeOK, CleanInv, NEW p \in Procs, NEW k \in Keys, NEW v,
           k \in todo[p], plan[p][k] # "none", WriteRow(p, k, v)
    PROVE  CleanInv'
  <1> USE DEF TypeOK, CleanInv, WriteRow, Goto
  <1>1. \A j \in Keys : committed'[j] \in installed' \cup {Absent}
    OBVIOUS
  <1>2. \A q \in Procs, j \in Keys : snap'[q][j] \in installed' \cup {Absent, None}
    OBVIOUS
  <1>3. TxModelsAreCommitted'
    <2>1. CASE todo[p] = {k}
      BY <2>1 DEF TxModelsAreCommitted, Unwritten, NoRows
    <2>2. CASE todo[p] # {k}
      BY <2>2 DEF TxModelsAreCommitted, Unwritten, storeVars, planVars
    <2>3. QED
      BY <2>1, <2>2
  <1>4. QED
    BY <1>1, <1>2, <1>3

\* Every step keeps uncommitted images out of the transactions of others.
LEMMA CleanStep == TypeOK /\ StoreSteps /\ CleanInv /\ [Next]_vars => CleanInv'
  <1> SUFFICES ASSUME TypeOK, StoreSteps, CleanInv, [Next]_vars PROVE CleanInv'
    OBVIOUS
  <1> USE ConstantsAssumption
      DEF TypeOK, StoreSteps, CleanInv, TxModelsAreCommitted, Unwritten,
          Goto, NoRows, NoPlan, dbVars, redisVars, txVars,
          storeVars, planVars, writeVars
  <1>1. ASSUME NEW p \in Procs, StartTransaction(p)
       PROVE  CleanInv'
    BY <1>1 DEF StartTransaction, FreshManager
  <1>2. ASSUME NEW p \in Procs, EndRequest(p)
       PROVE  CleanInv'
    BY <1>2 DEF EndRequest, FreshManager
  <1>3. ASSUME NEW p \in Procs, Commit(p)
       PROVE  CleanInv'
    BY <1>3 DEF Commit, EndTransaction, Latest
  <1>4. ASSUME NEW p \in Procs, WriteEnd(p)
       PROVE  CleanInv'
    BY <1>4 DEF WriteEnd, DelEntries, FreshManager
  <1>5. ASSUME NEW p \in Procs, Rollback(p)
       PROVE  CleanInv'
    BY <1>5 DEF Rollback, EndTransaction, FreshManager
  <1>6. ASSUME NEW p \in Procs, Fault(p)
       PROVE  CleanInv'
    <2>1. /\ UNCHANGED <<committed, installed>>
          /\ tx' = [tx EXCEPT ![p] = FALSE]
          /\ snap' = [snap EXCEPT ![p] = NoRows]
          /\ own' = [own EXCEPT ![p] = NoRows]
      BY <1>6 DEF Fault, EndTransaction
    <2>2. \A q \in Procs : q # p => /\ store'[q] = store[q] /\ plan'[q] = plan[q]
                                   /\ todo'[q] = todo[q]
      BY <1>6 DEF Fault, FreshManager
    <2>3. QED
      BY <2>1, <2>2
  <1>7. ASSUME NEW p \in Procs, NEW k \in Keys, Get(p, k)
       PROVE  CleanInv'
    <2>1. ~tx[p] /\ UNCHANGED <<dbVars, txVars, planVars, writeVars>>
      BY <1>7 DEF Get, Keep, ReadsRedis
    <2>2. \A q \in Procs : q # p => store'[q] = store[q]
      BY <1>7 DEF Get, Keep
    <2>3. UNCHANGED <<committed, installed, snap, own, tx, plan, todo>>
      BY <2>1
    <2>4. TxModelsAreCommitted'
      <3> SUFFICES ASSUME NEW q \in Procs, NEW j \in Keys, tx[q], Unwritten(q, j),
                          store'[q][j] # None
                   PROVE  store'[q][j] \in installed \cup {Absent, own[q][j]}
        BY <2>3
      <3>1. q # p /\ store'[q] = store[q]
        BY <2>1, <2>2
      <3>2. QED
        BY <3>1
    <2>5. QED
      BY <2>3, <2>4
  <1>8. ASSUME NEW p \in Procs, NEW k \in Keys, TxGet(p, k)
       PROVE  CleanInv'
    BY <1>8 DEF TxGet, Ready
  <1>9. ASSUME NEW p \in Procs, NEW k \in Keys, GetForUpdate(p, k)
       PROVE  CleanInv'
    BY <1>9 DEF GetForUpdate, Ready
  <1>10. ASSUME NEW p \in Procs, Select(p)
       PROVE  CleanInv'
    <2>1. store' = [store EXCEPT ![p][cur[p]] = IF Visible(p, cur[p]) = Absent
                                                THEN @ ELSE Visible(p, cur[p])]
      BY <1>10 DEF Select, Keep
    <2>2. QED
      BY <1>10, <2>1 DEF Select, Visible
  <1>11. ASSUME NEW p \in Procs, SelectForUpdate(p)
       PROVE  CleanInv'
    <2>1. UNCHANGED <<committed, installed, tx, snap, own, plan, todo>>
      BY <1>11 DEF SelectForUpdate, Keep
    <2>2. Latest(p, cur[p]) \in installed \cup {Absent, own[p][cur[p]]}
      BY DEF Latest
    <2>3. store' = store \/ store' = [store EXCEPT ![p][cur[p]] = Latest(p, cur[p])]
      BY <1>11 DEF SelectForUpdate, Keep
    <2>4. \A q \in Procs, j \in Keys :
              \/ store'[q][j] = store[q][j]
              \/ store'[q][j] \in installed \cup {Absent, own[q][j]}
      <3>1. CASE store' = store
        BY <3>1
      <3>2. CASE store' = [store EXCEPT ![p][cur[p]] = Latest(p, cur[p])]
        <4>1. \A q \in Procs, j \in Keys :
                 store'[q][j] = IF q = p /\ j = cur[p] THEN Latest(p, cur[p])
                                                     ELSE store[q][j]
          BY <3>2
        <4>2. QED
          BY <2>2, <4>1
      <3>3. QED
        BY <2>3, <3>1, <3>2
    <2>5. QED
      BY <2>1, <2>4
  <1>12. ASSUME NEW p \in Procs, LockWaitEnds(p)
       PROVE  CleanInv'
    BY <1>12 DEF LockWaitEnds
  <1>13. ASSUME NEW p \in Procs, Fill(p)
       PROVE  CleanInv'
    BY <1>13 DEF Fill, SetNxEntry, SetEntry
  <1>14. ASSUME NEW p \in Procs, FillExpire(p)
       PROVE  CleanInv'
    BY <1>14 DEF FillExpire, ExpireEntry
  <1>15. ASSUME NEW p \in Procs, NEW k \in Keys, NEW kind \in Kinds,
                SetSave(p, k, kind)
       PROVE  CleanInv'
    BY <1>15 DEF SetSave, Ready, Merged, Kinds
  <1>16. ASSUME NEW p \in Procs, NEW k \in Keys, SetForceDelete(p, k)
       PROVE  CleanInv'
    BY <1>16 DEF SetForceDelete, Ready
  <1>17. ASSUME NEW p \in Procs, WriteAll(p)
       PROVE  CleanInv'
    BY <1>17, ZenonT(30) DEF WriteAll, Ready, Reserved
  <1>18. ASSUME NEW p \in Procs, NEW k \in Keys, WriteInsert(p, k)
       PROVE  CleanInv'
    <2>1. pc[p] = "write" /\ k \in todo[p] /\ plan[p][k] # "none"
      BY <1>18 DEF WriteInsert, AtRow
    <2>2. PICK v : WriteRow(p, k, v)
      BY <1>18 DEF WriteInsert
    <2>3. QED
      BY <2>1, <2>2, WriteRowClean
  <1>19. ASSUME NEW p \in Procs, NEW k \in Keys, DuplicateEntry(p, k)
       PROVE  CleanInv'
    BY <1>19 DEF DuplicateEntry, AtRow
  <1>20. ASSUME NEW p \in Procs, NEW k \in Keys, WriteSave(p, k)
       PROVE  CleanInv'
    <2>1. pc[p] = "write" /\ k \in todo[p] /\ plan[p][k] # "none"
      BY <1>20 DEF WriteSave, AtRow
    <2>2. PICK v : WriteRow(p, k, v)
      BY <1>20 DEF WriteSave
    <2>3. QED
      BY <2>1, <2>2, WriteRowClean
  <1>20a. ASSUME NEW p \in Procs, NEW k \in Keys, SaveMisses(p, k)
       PROVE  CleanInv'
    BY <1>20a DEF SaveMisses
  <1>21. ASSUME NEW p \in Procs, NEW k \in Keys, WriteUpdate(p, k)
       PROVE  CleanInv'
    <2>1. pc[p] = "write" /\ k \in todo[p] /\ plan[p][k] # "none"
      BY <1>21 DEF WriteUpdate, AtRow
    <2>2. PICK v : WriteRow(p, k, v)
      BY <1>21 DEF WriteUpdate
    <2>3. QED
      BY <2>1, <2>2, WriteRowClean
  <1>22. ASSUME NEW p \in Procs, NEW k \in Keys, WriteDelete(p, k)
       PROVE  CleanInv'
    <2>1. pc[p] = "write" /\ k \in todo[p] /\ plan[p][k] # "none"
      BY <1>22 DEF WriteDelete, AtRow
    <2>2. PICK v : WriteRow(p, k, v)
      BY <1>22 DEF WriteDelete
    <2>3. QED
      BY <2>1, <2>2, WriteRowClean
  <1>23. ASSUME NEW p \in Procs, NEW k \in Keys, PushSaved(p, k)
       PROVE  CleanInv'
    BY <1>23 DEF PushSaved, SetEntry, SavedImage
  <1>24. ASSUME NEW p \in Procs, PushExpire(p)
       PROVE  CleanInv'
    BY <1>24 DEF PushExpire, ExpireEntry
  <1>25. ASSUME NEW p \in Procs, PurgeUpdated(p)
       PROVE  CleanInv'
    BY <1>25 DEF PurgeUpdated, DelEntries
  <1>26. ASSUME NEW p \in Procs, PurgeDeleted(p)
       PROVE  CleanInv'
    BY <1>26 DEF PurgeDeleted, DelEntries, ToInvalidate
  <1>27. ASSUME NEW k \in Keys, Age(k)
       PROVE  CleanInv'
    BY <1>27 DEF Age
  <1>28. ASSUME NEW k \in Keys, Expire(k)
       PROVE  CleanInv'
    BY <1>28 DEF Expire, DelEntries
  <1>29. CASE UNCHANGED vars
    BY <1>29 DEF vars
  <1>30. QED
    BY <1>1, <1>2, <1>3, <1>4, <1>5, <1>6, <1>7, <1>8, <1>9, <1>10, <1>11,
       <1>12, <1>13, <1>14, <1>15, <1>16, <1>17, <1>18, <1>19, <1>20, <1>20a,
       <1>21, <1>22, <1>23, <1>24, <1>25, <1>26, <1>27, <1>28, <1>29 DEF Next,
       Application, Continue

\* What a transaction reads through its ModelManager was committed or is its own,
\* although Redis shows images WriteAll put there before COMMIT.
THEOREM TransactionsReadClean == Spec => []TxModelsAreCommitted
  <1>1. Init => TypeInv /\ LockInv /\ CleanInv
    BY TypeInit, LockInit, CleanInit
  <1>2. TypeInv /\ LockInv /\ CleanInv /\ [Next]_vars
            => (TypeInv /\ LockInv /\ CleanInv)'
    BY TypeStep, LockStep, CleanStep DEF TypeInv, LockInv
  <1>3. CleanInv => TxModelsAreCommitted
    BY DEF CleanInv
  <1>4. QED
    BY <1>1, <1>2, <1>3, PTL DEF Spec

-----------------------------------------------------------------------------
(* Time to live: why every entry of Redis goes some day                     *)

\* Nothing comes between the SET of an entry and its EXPIRE: no panic, no death
\* of the process, no failed command.
NoFaults == "fault" \notin Allowed

\* Every step keeps an entry without a time to live in the hands of the request
\* that is about to send its EXPIRE.
LEMMA TtlStep ==
    NoFaults /\ TypeOK /\ NoImmortalEntry /\ [Next]_vars => NoImmortalEntry'
  <1> SUFFICES ASSUME NoFaults, TypeOK, NoImmortalEntry, [Next]_vars
               PROVE  NoImmortalEntry'
    OBVIOUS
  <1> USE DEF NoFaults, TypeOK, NoImmortalEntry, Goto, dbVars, redisVars, txVars,
              storeVars, planVars, writeVars
  <1>1. ASSUME NEW p \in Procs, StartTransaction(p)
       PROVE  NoImmortalEntry'
    BY <1>1 DEF StartTransaction, FreshManager
  <1>2. ASSUME NEW p \in Procs, EndRequest(p)
       PROVE  NoImmortalEntry'
    BY <1>2 DEF EndRequest, FreshManager
  <1>3. ASSUME NEW p \in Procs, Commit(p)
       PROVE  NoImmortalEntry'
    BY <1>3 DEF Commit, EndTransaction, Latest
  <1>4. ASSUME NEW p \in Procs, WriteEnd(p)
       PROVE  NoImmortalEntry'
    BY <1>4 DEF WriteEnd, DelEntries, FreshManager
  <1>5. ASSUME NEW p \in Procs, Rollback(p)
       PROVE  NoImmortalEntry'
    BY <1>5 DEF Rollback, EndTransaction, FreshManager
  <1>6. ASSUME NEW p \in Procs, Fault(p)
       PROVE  NoImmortalEntry'
    BY <1>6 DEF Fault, EndTransaction, FreshManager
  <1>7. ASSUME NEW p \in Procs, NEW k \in Keys, Get(p, k)
       PROVE  NoImmortalEntry'
    <2>1. UNCHANGED redisVars
      BY <1>7 DEF Get
    <2>2. \A q \in Procs : pc[q] \in {"expire", "pushExpire"}
                             => pc'[q] = pc[q] /\ cur'[q] = cur[q]
      BY <1>7 DEF Get, Ready
    <2>3. SUFFICES ASSUME NEW j \in Keys, redis'[j] # Absent, ttl'[j] = "none"
                   PROVE  \E q \in Procs : /\ pc'[q] \in {"expire", "pushExpire"}
                                          /\ cur'[q] = j
      OBVIOUS
    <2>4. redis[j] # Absent /\ ttl[j] = "none"
      BY <2>1, <2>3
    <2>5. PICK q \in Procs : pc[q] \in {"expire", "pushExpire"} /\ cur[q] = j
      BY <2>4
    <2>6. QED
      BY <2>2, <2>5
  <1>8. ASSUME NEW p \in Procs, NEW k \in Keys, TxGet(p, k)
       PROVE  NoImmortalEntry'
    BY <1>8 DEF TxGet, Ready
  <1>9. ASSUME NEW p \in Procs, NEW k \in Keys, GetForUpdate(p, k)
       PROVE  NoImmortalEntry'
    BY <1>9 DEF GetForUpdate, Ready
  <1>10. ASSUME NEW p \in Procs, Select(p)
       PROVE  NoImmortalEntry'
    BY <1>10 DEF Select, Keep
  <1>11. ASSUME NEW p \in Procs, SelectForUpdate(p)
       PROVE  NoImmortalEntry'
    BY <1>11 DEF SelectForUpdate, Keep
  <1>12. ASSUME NEW p \in Procs, LockWaitEnds(p)
       PROVE  NoImmortalEntry'
    BY <1>12 DEF LockWaitEnds
  <1>13. ASSUME NEW p \in Procs, Fill(p)
       PROVE  NoImmortalEntry'
    BY <1>13 DEF Fill, SetNxEntry, SetEntry
  <1>14. ASSUME NEW p \in Procs, FillExpire(p)
       PROVE  NoImmortalEntry'
    BY <1>14 DEF FillExpire, ExpireEntry
  <1>15. ASSUME NEW p \in Procs, NEW k \in Keys, NEW kind \in Kinds,
                SetSave(p, k, kind)
       PROVE  NoImmortalEntry'
    BY <1>15 DEF SetSave, Ready
  <1>16. ASSUME NEW p \in Procs, NEW k \in Keys, SetForceDelete(p, k)
       PROVE  NoImmortalEntry'
    BY <1>16 DEF SetForceDelete, Ready
  <1>17. ASSUME NEW p \in Procs, WriteAll(p)
       PROVE  NoImmortalEntry'
    BY <1>17 DEF WriteAll, Ready
  <1>18. ASSUME NEW p \in Procs, NEW k \in Keys, WriteInsert(p, k)
       PROVE  NoImmortalEntry'
    BY <1>18 DEF WriteInsert, AtRow, WriteRow
  <1>19. ASSUME NEW p \in Procs, NEW k \in Keys, DuplicateEntry(p, k)
       PROVE  NoImmortalEntry'
    BY <1>19 DEF DuplicateEntry, AtRow
  <1>20. ASSUME NEW p \in Procs, NEW k \in Keys, WriteSave(p, k)
       PROVE  NoImmortalEntry'
    BY <1>20 DEF WriteSave, AtRow, WriteRow
  <1>20a. ASSUME NEW p \in Procs, NEW k \in Keys, SaveMisses(p, k)
       PROVE  NoImmortalEntry'
    BY <1>20a DEF SaveMisses
  <1>21. ASSUME NEW p \in Procs, NEW k \in Keys, WriteUpdate(p, k)
       PROVE  NoImmortalEntry'
    BY <1>21 DEF WriteUpdate, AtRow, WriteRow
  <1>22. ASSUME NEW p \in Procs, NEW k \in Keys, WriteDelete(p, k)
       PROVE  NoImmortalEntry'
    BY <1>22 DEF WriteDelete, AtRow, WriteRow
  <1>23. ASSUME NEW p \in Procs, NEW k \in Keys, PushSaved(p, k)
       PROVE  NoImmortalEntry'
    <2>1. /\ pc'[p] = "pushExpire" /\ cur'[p] = k
          /\ redis' = [redis EXCEPT ![k] = SavedImage(p, k)]
          /\ ttl' = [ttl EXCEPT ![k] = "none"]
      BY <1>23 DEF PushSaved, SetEntry
    <2>2. \A q \in Procs : pc[q] \in {"expire", "pushExpire"}
                             => pc'[q] = pc[q] /\ cur'[q] = cur[q]
      BY <1>23 DEF PushSaved
    <2>3. SUFFICES ASSUME NEW j \in Keys, redis'[j] # Absent, ttl'[j] = "none"
                   PROVE  \E q \in Procs : /\ pc'[q] \in {"expire", "pushExpire"}
                                          /\ cur'[q] = j
      OBVIOUS
    <2>4. CASE j = k
      BY <2>1, <2>4
    <2>5. CASE j # k
      <3>1. redis[j] # Absent /\ ttl[j] = "none"
        BY <2>1, <2>3, <2>5
      <3>2. PICK q \in Procs : pc[q] \in {"expire", "pushExpire"} /\ cur[q] = j
        BY <3>1
      <3>3. QED
        BY <2>2, <3>2
    <2>6. QED
      BY <2>4, <2>5
  <1>24. ASSUME NEW p \in Procs, PushExpire(p)
       PROVE  NoImmortalEntry'
    BY <1>24 DEF PushExpire, ExpireEntry
  <1>25. ASSUME NEW p \in Procs, PurgeUpdated(p)
       PROVE  NoImmortalEntry'
    BY <1>25 DEF PurgeUpdated, DelEntries
  <1>26. ASSUME NEW p \in Procs, PurgeDeleted(p)
       PROVE  NoImmortalEntry'
    BY <1>26 DEF PurgeDeleted, DelEntries, ToInvalidate
  <1>27. ASSUME NEW k \in Keys, Age(k)
       PROVE  NoImmortalEntry'
    BY <1>27 DEF Age
  <1>28. ASSUME NEW k \in Keys, Expire(k)
       PROVE  NoImmortalEntry'
    BY <1>28 DEF Expire, DelEntries
  <1>29. CASE UNCHANGED vars
    BY <1>29 DEF vars
  <1>30. QED
    BY <1>1, <1>2, <1>3, <1>4, <1>5, <1>6, <1>7, <1>8, <1>9, <1>10, <1>11,
       <1>12, <1>13, <1>14, <1>15, <1>16, <1>17, <1>18, <1>19, <1>20, <1>20a,
       <1>21, <1>22, <1>23, <1>24, <1>25, <1>26, <1>27, <1>28, <1>29 DEF Next,
       Application, Continue

\* The pairs SET/EXPIRE of readers and writers never leave an entry without a
\* time to live behind, however they interleave, as long as no request dies
\* between the two.
THEOREM EntriesExpire == NoFaults => (Spec => []NoImmortalEntry)
  <1> SUFFICES ASSUME NoFaults PROVE Spec => []NoImmortalEntry
    OBVIOUS
  <1>1. Init => TypeInv /\ NoImmortalEntry
    BY TypeInit DEF Init, NoImmortalEntry
  <1>2. TypeInv /\ NoImmortalEntry /\ [Next]_vars => (TypeInv /\ NoImmortalEntry)'
    BY TypeStep, TtlStep DEF TypeInv
  <1>3. QED
    BY <1>1, <1>2, PTL DEF Spec

-----------------------------------------------------------------------------
(* Deleted rows: why WriteEnd takes each of them out of Redis               *)

\* A row the transaction deleted is on one of the two lists of the manager, and
\* DeleteModelsFromCache empties the first only into the second.
DeletesAreListed ==
    \A p \in Procs :
        /\ pc[p] = "writeEnd" => ~tx[p]
        /\ pc[p] = "write" => image[p] # Absent
        /\ pc[p] \notin {"write", "push", "pushExpire", "purge", "failed"}
               => deleted[p] = {}
        /\ \A k \in Keys :
               own[p][k] = Absent => k \in delCache[p] \cup deleted[p]

\* Every step keeps it: a list is dropped only with the transaction.
LEMMA DeleteStep ==
    TypeOK /\ LockInv /\ DeletesAreListed /\ [Next]_vars => DeletesAreListed'
  <1> SUFFICES ASSUME TypeOK, LockInv, DeletesAreListed, [Next]_vars
               PROVE  DeletesAreListed'
    OBVIOUS
  <1>a. \A q \in Procs, j \in Keys : ~tx[q] => own[q][j] = None
    BY DEF LockInv, HoldersAreOpen, WritersAreAlone, TypeOK
  <1>b. None # Absent
    BY DEF None, Absent
  <1>c. \A j \in Keys : NoRows[j] = None
    BY DEF NoRows
  <1> USE <1>a, <1>b, <1>c DEF TypeOK, DeletesAreListed, Goto, dbVars, redisVars,
              txVars, storeVars, planVars, writeVars
  <1>1. ASSUME NEW p \in Procs, StartTransaction(p)
       PROVE  DeletesAreListed'
    BY <1>1 DEF StartTransaction, FreshManager
  <1>2. ASSUME NEW p \in Procs, EndRequest(p)
       PROVE  DeletesAreListed'
    BY <1>2 DEF EndRequest, FreshManager
  <1>3. ASSUME NEW p \in Procs, Commit(p)
       PROVE  DeletesAreListed'
    BY <1>3 DEF Commit, EndTransaction, Latest
  <1>4. ASSUME NEW p \in Procs, WriteEnd(p)
       PROVE  DeletesAreListed'
    BY <1>4 DEF WriteEnd, DelEntries, FreshManager
  <1>5. ASSUME NEW p \in Procs, Rollback(p)
       PROVE  DeletesAreListed'
    BY <1>5 DEF Rollback, EndTransaction, FreshManager
  <1>6. ASSUME NEW p \in Procs, Fault(p)
       PROVE  DeletesAreListed'
    BY <1>6 DEF Fault, EndTransaction, FreshManager
  <1>7. ASSUME NEW p \in Procs, NEW k \in Keys, Get(p, k)
       PROVE  DeletesAreListed'
    <2>1. UNCHANGED <<tx, own, image, deleted, delCache>>
      BY <1>7 DEF Get
    <2>2. /\ \A q \in Procs : q # p => pc'[q] = pc[q]
          /\ pc[p] = "app" /\ pc'[p] \in {"app", "select"}
      BY <1>7 DEF Get, Ready
    <2>3. QED
      BY <2>1, <2>2
  <1>8. ASSUME NEW p \in Procs, NEW k \in Keys, TxGet(p, k)
       PROVE  DeletesAreListed'
    BY <1>8 DEF TxGet, Ready
  <1>9. ASSUME NEW p \in Procs, NEW k \in Keys, GetForUpdate(p, k)
       PROVE  DeletesAreListed'
    BY <1>9 DEF GetForUpdate, Ready
  <1>10. ASSUME NEW p \in Procs, Select(p)
       PROVE  DeletesAreListed'
    BY <1>10 DEF Select, Keep
  <1>11. ASSUME NEW p \in Procs, SelectForUpdate(p)
       PROVE  DeletesAreListed'
    BY <1>11 DEF SelectForUpdate, Keep
  <1>12. ASSUME NEW p \in Procs, LockWaitEnds(p)
       PROVE  DeletesAreListed'
    BY <1>12 DEF LockWaitEnds
  <1>13. ASSUME NEW p \in Procs, Fill(p)
       PROVE  DeletesAreListed'
    BY <1>13 DEF Fill, SetNxEntry, SetEntry
  <1>14. ASSUME NEW p \in Procs, FillExpire(p)
       PROVE  DeletesAreListed'
    BY <1>14 DEF FillExpire, ExpireEntry
  <1>15. ASSUME NEW p \in Procs, NEW k \in Keys, NEW kind \in Kinds,
                SetSave(p, k, kind)
       PROVE  DeletesAreListed'
    BY <1>15 DEF SetSave, Ready
  <1>16. ASSUME NEW p \in Procs, NEW k \in Keys, SetForceDelete(p, k)
       PROVE  DeletesAreListed'
    BY <1>16 DEF SetForceDelete, Ready
  <1>17. ASSUME NEW p \in Procs, WriteAll(p)
       PROVE  DeletesAreListed'
    <2>1. lastVersion + 1 # Absent
      BY DEF Absent
    <2>2. QED
      BY <1>17, <2>1 DEF WriteAll, Ready
  <1>18. ASSUME NEW p \in Procs, NEW k \in Keys, WriteInsert(p, k)
       PROVE  DeletesAreListed'
    <2>1. /\ pc[p] = "write"
          /\ own' = [own EXCEPT ![p][k] = image[p]]
          /\ UNCHANGED <<tx, image, delCache>>
      BY <1>18 DEF WriteInsert, AtRow, WriteRow
    <2>2. /\ \A q \in Procs : q # p => pc'[q] = pc[q] /\ deleted'[q] = deleted[q]
          /\ pc'[p] \in {"write", "push"}
          /\ deleted[p] \subseteq deleted'[p]
      BY <1>18 DEF WriteInsert, AtRow, WriteRow
    <2>3. image[p] # Absent
      BY <2>1
    <2>4. ASSUME NEW q \in Procs, NEW j \in Keys, own'[q][j] = Absent
         PROVE  j \in delCache'[q] \cup deleted'[q]
      BY <2>1, <2>2, <2>3, <2>4
    <2>5. QED
      BY <2>1, <2>2, <2>4
  <1>19. ASSUME NEW p \in Procs, NEW k \in Keys, DuplicateEntry(p, k)
       PROVE  DeletesAreListed'
    BY <1>19 DEF DuplicateEntry, AtRow
  <1>20. ASSUME NEW p \in Procs, NEW k \in Keys, WriteSave(p, k)
       PROVE  DeletesAreListed'
    <2>1. /\ pc[p] = "write"
          /\ own' = [own EXCEPT ![p][k] = image[p]]
          /\ UNCHANGED <<tx, image, delCache>>
      BY <1>20 DEF WriteSave, AtRow, WriteRow
    <2>2. /\ \A q \in Procs : q # p => pc'[q] = pc[q] /\ deleted'[q] = deleted[q]
          /\ pc'[p] \in {"write", "push"}
          /\ deleted[p] \subseteq deleted'[p]
      BY <1>20 DEF WriteSave, AtRow, WriteRow
    <2>3. image[p] # Absent
      BY <2>1
    <2>4. ASSUME NEW q \in Procs, NEW j \in Keys, own'[q][j] = Absent
         PROVE  j \in delCache'[q] \cup deleted'[q]
      BY <2>1, <2>2, <2>3, <2>4
    <2>5. QED
      BY <2>1, <2>2, <2>4
  <1>20a. ASSUME NEW p \in Procs, NEW k \in Keys, SaveMisses(p, k)
       PROVE  DeletesAreListed'
    BY <1>20a DEF SaveMisses
  <1>21. ASSUME NEW p \in Procs, NEW k \in Keys, WriteUpdate(p, k)
       PROVE  DeletesAreListed'
    <2>1. /\ pc[p] = "write"
          /\ own' = [own EXCEPT ![p][k] =
                  IF Latest(p, k) = Absent THEN own[p][k] ELSE image[p]]
          /\ UNCHANGED <<tx, image, delCache>>
      BY <1>21 DEF WriteUpdate, AtRow, WriteRow
    <2>2. /\ \A q \in Procs : q # p => pc'[q] = pc[q] /\ deleted'[q] = deleted[q]
          /\ pc'[p] \in {"write", "push"}
          /\ deleted[p] \subseteq deleted'[p]
      BY <1>21 DEF WriteUpdate, AtRow, WriteRow
    <2>3. own'[p][k] = own[p][k] \/ own'[p][k] # Absent
      BY <2>1
    <2>4. ASSUME NEW q \in Procs, NEW j \in Keys, own'[q][j] = Absent
         PROVE  j \in delCache'[q] \cup deleted'[q]
      BY <2>1, <2>2, <2>3, <2>4
    <2>5. QED
      BY <2>1, <2>2, <2>4
  <1>22. ASSUME NEW p \in Procs, NEW k \in Keys, WriteDelete(p, k)
       PROVE  DeletesAreListed'
    <2>1. /\ pc[p] = "write"
          /\ own' = [own EXCEPT ![p][k] =
                  IF Latest(p, k) = Absent THEN own[p][k] ELSE Absent]
          /\ UNCHANGED <<tx, image, delCache>>
      BY <1>22 DEF WriteDelete, AtRow, WriteRow
    <2>2. /\ \A q \in Procs : q # p => pc'[q] = pc[q] /\ deleted'[q] = deleted[q]
          /\ pc'[p] \in {"write", "push"}
          /\ deleted[p] \subseteq deleted'[p]
      BY <1>22 DEF WriteDelete, AtRow, WriteRow
    <2>3. k \in deleted'[p]
      BY <1>22 DEF WriteDelete
    <2>4. ASSUME NEW q \in Procs, NEW j \in Keys, own'[q][j] = Absent
         PROVE  j \in delCache'[q] \cup deleted'[q]
      BY <2>1, <2>2, <2>3, <2>4
    <2>5. QED
      BY <2>1, <2>2, <2>4
  <1>23. ASSUME NEW p \in Procs, NEW k \in Keys, PushSaved(p, k)
       PROVE  DeletesAreListed'
    BY <1>23 DEF PushSaved, SetEntry
  <1>24. ASSUME NEW p \in Procs, PushExpire(p)
       PROVE  DeletesAreListed'
    BY <1>24 DEF PushExpire, ExpireEntry
  <1>25. ASSUME NEW p \in Procs, PurgeUpdated(p)
       PROVE  DeletesAreListed'
    BY <1>25 DEF PurgeUpdated, DelEntries
  <1>26. ASSUME NEW p \in Procs, PurgeDeleted(p)
       PROVE  DeletesAreListed'
    BY <1>26 DEF PurgeDeleted, DelEntries, ToInvalidate
  <1>27. ASSUME NEW k \in Keys, Age(k)
       PROVE  DeletesAreListed'
    BY <1>27 DEF Age
  <1>28. ASSUME NEW k \in Keys, Expire(k)
       PROVE  DeletesAreListed'
    BY <1>28 DEF Expire, DelEntries
  <1>29. CASE UNCHANGED vars
    BY <1>29 DEF vars
  <1>30. QED
    BY <1>1, <1>2, <1>3, <1>4, <1>5, <1>6, <1>7, <1>8, <1>9, <1>10, <1>11,
       <1>12, <1>13, <1>14, <1>15, <1>16, <1>17, <1>18, <1>19, <1>20, <1>20a,
       <1>21, <1>22, <1>23, <1>24, <1>25, <1>26, <1>27, <1>28, <1>29 DEF Next,
       Application, Continue

\* However often WriteAll ran, at COMMIT the rows a transaction deleted are on
\* delCacheModels, so that WriteEnd removes what readers put back in between.
THEOREM DeletesReachWriteEnd == Spec => []DeletedRowsAreInvalidated
  <1>1. Init => TypeInv /\ LockInv /\ DeletesAreListed
    <2>1. Init => DeletesAreListed
      BY RowFacts DEF Init, DeletesAreListed, NoRows
    <2>2. QED
      BY TypeInit, LockInit, <2>1
  <1>2. TypeInv /\ LockInv /\ DeletesAreListed /\ [Next]_vars
            => (TypeInv /\ LockInv /\ DeletesAreListed)'
    BY TypeStep, LockStep, DeleteStep DEF TypeInv
  <1>3. DeletesAreListed => DeletedRowsAreInvalidated
    BY DEF DeletesAreListed, DeletedRowsAreInvalidated
  <1>4. QED
    BY <1>1, <1>2, <1>3, PTL DEF Spec

-----------------------------------------------------------------------------
(* Lock waits: why sorted writes do not wait in a cycle for rows    *)

\* Min of a nonempty set of keys is its least element.
LEMMA LeastKey ==
    ASSUME NEW S \in SUBSET Keys, S # {}
    PROVE  Min(S) \in S /\ \A k \in S : Min(S) <= k
  <1> DEFINE R == OpToRel(<, Nat)
  <1>1. S \in SUBSET Nat
    BY ConstantsAssumption
  <1>2. IsWellFoundedOn(R, Nat)
    BY NatLessThanWellFounded
  <1>3. PICK x \in S : \A y \in S : <<y, x>> \notin R
    <2> HIDE DEF R
    <2>1. QED
      BY <1>1, <1>2, WFMin
  <1>4. ASSUME NEW y \in S PROVE x <= y
    <2>1. x \in Nat /\ y \in Nat
      BY <1>1
    <2>2. y < x => <<y, x>> \in R
      BY <2>1, Zenon DEF OpToRel
    <2>3. ~(y < x)
      BY <1>3, <2>2
    <2> HIDE DEF R
    <2>4. QED
      BY <2>1, <2>3
  <1>5. QED
    BY <1>4 DEF Min

\* Among finitely many, one has the greatest rank: without one, the sets in which
\* everybody is outranked would have no least member.
LEMMA GreatestRank ==
    ASSUME NEW S, IsFiniteSet(S), S # {}, NEW f \in [S -> Nat]
    PROVE  \E x \in S : \A y \in S : f[y] <= f[x]
  <1> DEFINE Good == {T \in SUBSET S : /\ T # {}
                                      /\ \A x \in T : \E y \in T : f[x] < f[y]}
  <1>1. SUFFICES ASSUME \A x \in S : \E y \in S : f[x] < f[y]
                 PROVE  FALSE
    OBVIOUS
  <1>2. S \in Good
    BY <1>1
  <1>3. IsWellFoundedOn(StrictSubsetOrdering(S), SUBSET S)
    BY FS_StrictSubsetOrderingWellFounded, FS_FiniteSubsetsOfFinite
  <1>4. PICK T \in Good : \A U \in Good : <<U, T>> \notin StrictSubsetOrdering(S)
    <2>1. Good \subseteq SUBSET S /\ Good # {}
      BY <1>2
    <2> HIDE DEF Good
    <2>2. QED
      BY <1>3, <2>1, WFMin
  <1>5. PICK x \in T : TRUE
    OBVIOUS
  <1> DEFINE U == {y \in T : f[x] < f[y]}
  <1>6. U \in Good
    <2>1. \A y \in U : \E z \in T : f[y] < f[z]
      OBVIOUS
    <2>2. QED
      BY <1>5, <2>1
  <1>7. U \subseteq T /\ U # T
    BY <1>5
  <1>8. QED
    BY <1>4, <1>6, <1>7 DEF StrictSubsetOrdering

\* Transactions that take row locks with WriteAll only, each running it once.  A
\* GetForUpdate before it, or a second WriteAll, may lock keys out of order.
WritersOnly == Allowed \cap {"forUpdate", "rewrite"} = {}

\* The rows a transaction holds when WriteAll waits are smaller than what it waits
\* for, and than everything it will wait for.  Its gap locks need not be.
LocksPrecedeWaits ==
    \A p \in Procs :
        /\ pc[p] # "lock"
        /\ pc[p] = "writeEnd" => ~tx[p]
        /\ pc[p] = "write" => /\ image[p] # Absent /\ todo[p] # {}
                              /\ \A j \in todo[p] : own[p][j] = None
        /\ image[p] = Absent => \A k \in Keys : p \notin locks[k]
        /\ pc[p] = "write" => \A k \in Keys, j \in todo[p] :
                                 p \in locks[k] /\ ~Missing(k) => k < j

\* A statement of WriteAll is at the least key that was left.
LEMMA AtLeastKey ==
    ASSUME TypeOK, NEW p \in Procs, NEW k \in Keys, AtRow(p, k)
    PROVE  /\ pc[p] = "write" /\ k \in todo[p] /\ CanWrite(p, k)
           /\ \A j \in todo[p] : j # k => k < j
  <1>1. pc[p] = "write" /\ k = Min(todo[p]) /\ k \in todo[p] /\ CanWrite(p, k)
    BY DEF AtRow
  <1>2. todo[p] \in SUBSET Keys /\ todo[p] # {}
    BY <1>1 DEF TypeOK
  <1>3. \A j \in todo[p] : k <= j
    BY <1>1, <1>2, LeastKey
  <1>4. ASSUME NEW j \in todo[p], j # k PROVE k < j
    <2>1. j \in Nat /\ k \in Nat
      BY <1>2, ConstantsAssumption
    <2>2. QED
      BY <1>3, <1>4, <2>1
  <1>5. QED
    BY <1>1, <1>4

\* It locks the least key that was left, and gaps.
LEMMA WriteRowOrder ==
    ASSUME TypeOK, LocksPrecedeWaits, NEW p \in Procs, NEW k \in Keys, NEW v,
           AtRow(p, k), WriteRow(p, k, v), Takes(p, k),
           v # None => Exclusive(p, k)
    PROVE  LocksPrecedeWaits'
  <1> USE DEF TypeOK
  <1>1. /\ pc[p] = "write" /\ k \in todo[p]
        /\ \A j \in todo[p] : j # k => k < j
    BY AtLeastKey
  <1>2. /\ own' = [own EXCEPT ![p][k] = v]
        /\ todo' = [todo EXCEPT ![p] = @ \ {k}]
        /\ UNCHANGED <<committed, image, tx>>
    BY DEF WriteRow
  <1>3. /\ \A q \in Procs : q # p => pc'[q] = pc[q]
        /\ todo[p] = {k} => pc'[p] = "push"
        /\ todo[p] # {k} => pc'[p] = "write"
    BY <1>1 DEF WriteRow, Goto
  <1>4. \A j \in Keys : j # k => Missing(j)' = Missing(j)
    BY <1>2 DEF Missing
  <1>5. \A q \in Procs \ {p}, j \in Keys : q \in locks'[j] => q \in locks[j]
    BY DEF Takes
  <1>6. \A q \in Procs \ {p} : q \in locks[k] => Missing(k)' = Missing(k)
    <2>1. CASE v = None
      BY <1>1, <1>2, <2>1 DEF Missing, LocksPrecedeWaits
    <2>2. CASE v # None
      BY <2>2 DEF Exclusive
    <2>3. QED
      BY <2>1, <2>2
  <1>7. \A j \in Keys : j # k /\ p \in locks'[j] /\ ~Missing(j)' => p \in locks[j]
    BY <1>4 DEF Takes
  <1>8. SUFFICES ASSUME NEW q \in Procs
                 PROVE  /\ pc'[q] # "lock"
                        /\ pc'[q] = "writeEnd" => ~tx'[q]
                        /\ pc'[q] = "write" =>
                               /\ image'[q] # Absent /\ todo'[q] # {}
                               /\ \A j \in todo'[q] : own'[q][j] = None
                        /\ image'[q] = Absent => \A i \in Keys : q \notin locks'[i]
                        /\ pc'[q] = "write" => \A i \in Keys, j \in todo'[q] :
                               q \in locks'[i] /\ ~Missing(i)' => i < j
    BY DEF LocksPrecedeWaits
  <1>9. CASE q = p
    BY <1>1, <1>2, <1>3, <1>4, <1>7, <1>9 DEF LocksPrecedeWaits
  <1>10. CASE q # p
    BY <1>2, <1>3, <1>4, <1>5, <1>6, <1>10 DEF LocksPrecedeWaits
  <1>11. QED
    BY <1>9, <1>10

\* The UPDATE of a Save that finds no row locks nothing but gaps.
LEMMA SaveMissesOrder ==
    ASSUME TypeOK, LockInv, LocksPrecedeWaits, NEW p \in Procs, NEW k \in Keys,
           SaveMisses(p, k)
    PROVE  LocksPrecedeWaits'
  <1> USE DEF TypeOK
  <1>1. /\ pc[p] = "write" /\ k \in todo[p] /\ Lockable(p, k) /\ Takes(p, k)
        /\ Latest(p, k) = Absent
    BY AtLeastKey, WritesAreLocked, WriteTakes DEF SaveMisses, LockInv
  <1>2. UNCHANGED <<committed, own, todo, image, tx, pc>>
    BY DEF SaveMisses, txVars, writeVars
  <1>3. own[p][k] = None /\ committed[k] = Absent
    BY <1>1 DEF LocksPrecedeWaits, Latest
  <1>4. Missing(k)
    <2>1. \A q \in Procs : own[q][k] # None => q \in locks[k]
      BY DEF LockInv, WritersAreAlone
    <2>2. CASE locks[k] \subseteq {p}
      BY <1>3, <2>1, <2>2 DEF Missing
    <2>3. CASE \A q \in Procs \ {p} : own[q][k] = None
      BY <1>3, <2>3 DEF Missing
    <2>4. QED
      BY <1>1, <2>2, <2>3 DEF Lockable, Exclusive
  <1>5. \A j \in Keys : Missing(j)' = Missing(j)
    BY <1>2 DEF Missing
  <1>6. \A q \in Procs, j \in Keys :
            q \in locks'[j] /\ ~Missing(j)' => q \in locks[j]
    BY <1>1, <1>4, <1>5 DEF Takes
  <1>7. \A q \in Procs, j \in Keys : q \in locks'[j] /\ q # p => q \in locks[j]
    BY <1>1 DEF Takes
  <1>8. QED
    BY <1>1, <1>2, <1>5, <1>6, <1>7 DEF LocksPrecedeWaits

\* Every step keeps the order of the locks.
LEMMA OrderStep ==
    WritersOnly /\ TypeOK /\ LockInv /\ LocksPrecedeWaits /\ [Next]_vars
        => LocksPrecedeWaits'
  <1> SUFFICES ASSUME WritersOnly, TypeOK, LockInv, LocksPrecedeWaits, [Next]_vars
               PROVE  LocksPrecedeWaits'
    OBVIOUS
  <1>a. \A q \in Procs, j \in Keys : q \in locks[j] => tx[q]
    BY DEF LockInv, HoldersAreOpen
  <1>b. \A j \in Keys : UNCHANGED <<committed, own>> => Missing(j)' = Missing(j)
    BY DEF Missing
  <1> USE <1>a, <1>b DEF TypeOK, LocksPrecedeWaits, Goto, dbVars, redisVars,
              txVars, storeVars, planVars, writeVars
  <1>1. ASSUME NEW p \in Procs, StartTransaction(p)
       PROVE  LocksPrecedeWaits'
    BY <1>1 DEF StartTransaction, FreshManager
  <1>2. ASSUME NEW p \in Procs, EndRequest(p)
       PROVE  LocksPrecedeWaits'
    BY <1>2 DEF EndRequest, FreshManager
  <1>3. ASSUME NEW p \in Procs, Commit(p)
       PROVE  LocksPrecedeWaits'
    <2>1. \A j \in Keys : Missing(j) => Missing(j)'
      BY <1>3 DEF Commit, EndTransaction, Latest, Missing, NoRows
    <2>2. /\ UNCHANGED <<todo, image>> /\ tx' = [tx EXCEPT ![p] = FALSE]
          /\ pc' = [pc EXCEPT ![p] = "writeEnd"]
          /\ locks' = [k \in Keys |-> locks[k] \ {p}]
          /\ \A q \in Procs : q # p => own'[q] = own[q]
      BY <1>3 DEF Commit, EndTransaction
    <2>3. QED
      BY <2>1, <2>2
  <1>4. ASSUME NEW p \in Procs, WriteEnd(p)
       PROVE  LocksPrecedeWaits'
    BY <1>4 DEF WriteEnd, DelEntries, FreshManager
  <1>5. ASSUME NEW p \in Procs, Rollback(p)
       PROVE  LocksPrecedeWaits'
    <2>1. \A j \in Keys : Missing(j) => Missing(j)'
      BY <1>5 DEF Rollback, EndTransaction, Missing, NoRows
    <2>2. /\ todo' = [todo EXCEPT ![p] = {}] /\ image' = [image EXCEPT ![p] = Absent]
          /\ tx' = [tx EXCEPT ![p] = FALSE] /\ pc' = [pc EXCEPT ![p] = "app"]
          /\ locks' = [k \in Keys |-> locks[k] \ {p}]
          /\ \A q \in Procs : q # p => own'[q] = own[q]
      BY <1>5 DEF Rollback, EndTransaction, FreshManager
    <2>3. QED
      BY <2>1, <2>2
  <1>6. ASSUME NEW p \in Procs, Fault(p)
       PROVE  LocksPrecedeWaits'
    <2>1. \A j \in Keys : Missing(j) => Missing(j)'
      BY <1>6 DEF Fault, EndTransaction, Missing, NoRows
    <2>2. /\ todo' = [todo EXCEPT ![p] = {}] /\ image' = [image EXCEPT ![p] = Absent]
          /\ tx' = [tx EXCEPT ![p] = FALSE] /\ pc' = [pc EXCEPT ![p] = "app"]
          /\ locks' = [k \in Keys |-> locks[k] \ {p}]
          /\ \A q \in Procs : q # p => own'[q] = own[q]
      BY <1>6 DEF Fault, EndTransaction, FreshManager
    <2>3. QED
      BY <2>1, <2>2
  <1>7. ASSUME NEW p \in Procs, NEW k \in Keys, Get(p, k)
       PROVE  LocksPrecedeWaits'
    <2>1. UNCHANGED <<committed, own, locks, tx, image, todo>>
      BY <1>7 DEF Get
    <2>2. /\ \A q \in Procs : q # p => pc'[q] = pc[q]
          /\ pc[p] = "app" /\ pc'[p] \in {"app", "select"}
      BY <1>7 DEF Get, Ready
    <2>3. QED
      BY <2>1, <2>2
  <1>8. ASSUME NEW p \in Procs, NEW k \in Keys, TxGet(p, k)
       PROVE  LocksPrecedeWaits'
    BY <1>8 DEF TxGet, Ready
  <1>9. ASSUME NEW p \in Procs, NEW k \in Keys, GetForUpdate(p, k)
       PROVE  LocksPrecedeWaits'
    BY <1>9 DEF GetForUpdate, WritersOnly
  <1>10. ASSUME NEW p \in Procs, Select(p)
       PROVE  LocksPrecedeWaits'
    BY <1>10 DEF Select, Keep
  <1>11. ASSUME NEW p \in Procs, SelectForUpdate(p)
       PROVE  LocksPrecedeWaits'
    BY <1>11 DEF SelectForUpdate, Keep
  <1>12. ASSUME NEW p \in Procs, LockWaitEnds(p)
       PROVE  LocksPrecedeWaits'
    BY <1>12 DEF LockWaitEnds
  <1>13. ASSUME NEW p \in Procs, Fill(p)
       PROVE  LocksPrecedeWaits'
    BY <1>13 DEF Fill, SetNxEntry, SetEntry
  <1>14. ASSUME NEW p \in Procs, FillExpire(p)
       PROVE  LocksPrecedeWaits'
    BY <1>14 DEF FillExpire, ExpireEntry
  <1>15. ASSUME NEW p \in Procs, NEW k \in Keys, NEW kind \in Kinds,
                SetSave(p, k, kind)
       PROVE  LocksPrecedeWaits'
    BY <1>15 DEF SetSave, Ready
  <1>16. ASSUME NEW p \in Procs, NEW k \in Keys, SetForceDelete(p, k)
       PROVE  LocksPrecedeWaits'
    BY <1>16 DEF SetForceDelete, Ready
  <1>17. ASSUME NEW p \in Procs, WriteAll(p)
       PROVE  LocksPrecedeWaits'
    <2>1. lastVersion + 1 # Absent
      BY DEF Absent
    <2>2. image[p] = Absent
      BY <1>17 DEF WriteAll, Ready, WritersOnly
    <2>3. \A j \in Keys : p \notin locks[j] /\ own[p][j] = None
      BY <2>2 DEF LockInv, WritersAreAlone
    <2>4. QED
      BY <1>17, <2>1, <2>3 DEF WriteAll, Reserved
  <1>c. WritersAreAlone
    BY DEF LockInv
  <1>d. \A p \in Procs, k \in Keys : AtRow(p, k) => own[p][k] = None
    BY AtLeastKey
  <1>18. ASSUME NEW p \in Procs, NEW k \in Keys, WriteInsert(p, k)
       PROVE  LocksPrecedeWaits'
    <2>1. PICK v : AtRow(p, k) /\ WriteRow(p, k, v)
      BY <1>18 DEF WriteInsert
    <2>2. Takes(p, k) /\ Exclusive(p, k)
      BY <1>18, <1>c, WriteTakes, WritesAreLocked
    <2>3. QED
      BY <2>1, <2>2, WriteRowOrder
  <1>19. ASSUME NEW p \in Procs, NEW k \in Keys, DuplicateEntry(p, k)
       PROVE  LocksPrecedeWaits'
    BY <1>19 DEF DuplicateEntry, AtRow
  <1>20. ASSUME NEW p \in Procs, NEW k \in Keys, WriteSave(p, k)
       PROVE  LocksPrecedeWaits'
    <2>1. PICK v : AtRow(p, k) /\ WriteRow(p, k, v)
      BY <1>20 DEF WriteSave
    <2>2. Takes(p, k) /\ Exclusive(p, k)
      BY <1>20, <1>c, WriteTakes, WritesAreLocked
    <2>3. QED
      BY <2>1, <2>2, WriteRowOrder
  <1>20a. ASSUME NEW p \in Procs, NEW k \in Keys, SaveMisses(p, k)
       PROVE  LocksPrecedeWaits'
    BY <1>20a, SaveMissesOrder
  <1>21. ASSUME NEW p \in Procs, NEW k \in Keys, WriteUpdate(p, k)
       PROVE  LocksPrecedeWaits'
    <2>1. PICK v : /\ AtRow(p, k) /\ WriteRow(p, k, v)
                   /\ v # own[p][k] => Latest(p, k) # Absent
      BY <1>21 DEF WriteUpdate
    <2>2. Takes(p, k) /\ (v # None => Exclusive(p, k))
      BY <1>21, <1>c, <1>d, <2>1, WriteTakes, WritesAreLocked
    <2>3. QED
      BY <2>1, <2>2, WriteRowOrder
  <1>22. ASSUME NEW p \in Procs, NEW k \in Keys, WriteDelete(p, k)
       PROVE  LocksPrecedeWaits'
    <2>1. PICK v : /\ AtRow(p, k) /\ WriteRow(p, k, v)
                   /\ v # own[p][k] => Latest(p, k) # Absent
      BY <1>22 DEF WriteDelete
    <2>2. Takes(p, k) /\ (v # None => Exclusive(p, k))
      BY <1>22, <1>c, <1>d, <2>1, WriteTakes, WritesAreLocked
    <2>3. QED
      BY <2>1, <2>2, WriteRowOrder
  <1>23. ASSUME NEW p \in Procs, NEW k \in Keys, PushSaved(p, k)
       PROVE  LocksPrecedeWaits'
    BY <1>23 DEF PushSaved, SetEntry
  <1>24. ASSUME NEW p \in Procs, PushExpire(p)
       PROVE  LocksPrecedeWaits'
    BY <1>24 DEF PushExpire, ExpireEntry
  <1>25. ASSUME NEW p \in Procs, PurgeUpdated(p)
       PROVE  LocksPrecedeWaits'
    BY <1>25 DEF PurgeUpdated, DelEntries
  <1>26. ASSUME NEW p \in Procs, PurgeDeleted(p)
       PROVE  LocksPrecedeWaits'
    BY <1>26 DEF PurgeDeleted, DelEntries, ToInvalidate
  <1>27. ASSUME NEW k \in Keys, Age(k)
       PROVE  LocksPrecedeWaits'
    BY <1>27 DEF Age
  <1>28. ASSUME NEW k \in Keys, Expire(k)
       PROVE  LocksPrecedeWaits'
    BY <1>28 DEF Expire, DelEntries
  <1>29. CASE UNCHANGED vars
    BY <1>29 DEF vars
  <1>30. QED
    BY <1>1, <1>2, <1>3, <1>4, <1>5, <1>6, <1>7, <1>8, <1>9, <1>10, <1>11,
       <1>12, <1>13, <1>14, <1>15, <1>16, <1>17, <1>18, <1>19, <1>20, <1>20a,
       <1>21, <1>22, <1>23, <1>24, <1>25, <1>26, <1>27, <1>28, <1>29 DEF Next,
       Application, Continue

\* In no set of transactions that wait for rows does each wait for another of the
\* set: the one that waits for the greatest key waits for nobody in it.
LEMMA OrderPreventsCycles ==
    IsFiniteSet(Procs) /\ TypeOK /\ LocksPrecedeWaits => NoWriteCycle
  <1> SUFFICES ASSUME IsFiniteSet(Procs), TypeOK, LocksPrecedeWaits,
                      NEW S \in SUBSET Procs, S # {},
                      \A p \in S : ~(WaitsForRow(p) =>
                                        locks[Min(todo[p])] \cap S \subseteq {p})
               PROVE  FALSE
    BY DEF NoWriteCycle
  <1>0. \A p \in S : /\ WaitsForRow(p)
                     /\ \E q \in S : q # p /\ q \in locks[Min(todo[p])]
    OBVIOUS
  <1>1. ASSUME NEW p \in S
        PROVE  /\ pc[p] = "write" /\ todo[p] \in SUBSET Keys
               /\ Min(todo[p]) \in todo[p] /\ Min(todo[p]) \in Nat
               /\ Min(todo[p]) \in Keys /\ ~Missing(Min(todo[p]))
    <2>1. pc[p] = "write" /\ todo[p] \in SUBSET Keys /\ todo[p] # {}
      BY <1>0 DEF LocksPrecedeWaits, WaitsForRow, Blocked, TypeOK
    <2>2. ~Missing(Min(todo[p]))
      BY <1>0 DEF WaitsForRow
    <2>3. QED
      BY <2>1, <2>2, LeastKey, ConstantsAssumption
  <1> DEFINE rank == [p \in S |-> Min(todo[p])]
  <1>2. PICK p \in S : \A q \in S : rank[q] <= rank[p]
    <2>1. IsFiniteSet(S) /\ rank \in [S -> Nat]
      BY <1>1, FS_Subset
    <2> HIDE DEF rank
    <2>2. QED
      BY <2>1, GreatestRank
  <1>3. PICK q \in S : q \in locks[Min(todo[p])]
    BY <1>0
  <1>4. Min(todo[p]) < Min(todo[q])
    BY <1>1, <1>3 DEF LocksPrecedeWaits
  <1>5. QED
    BY <1>1, <1>2, <1>4

\* WriteAll's sorted keys keep any number of writing transactions from waiting for
\* each other's rows in a cycle, whatever else the requests read, roll back or lose.
\* What is left are the cycles through a gap: one of the transactions is at the
\* INSERT of a missing row whose gap another one has locked.
THEOREM SortedWritesWaitForRowsInOrder ==
    WritersOnly /\ IsFiniteSet(Procs) => (Spec => []NoWriteCycle)
  <1> SUFFICES ASSUME WritersOnly, IsFiniteSet(Procs) PROVE Spec => []NoWriteCycle
    OBVIOUS
  <1>1. Init => TypeInv /\ LockInv /\ LocksPrecedeWaits
    <2>1. Init => LocksPrecedeWaits
      BY DEF Init, LocksPrecedeWaits
    <2>2. QED
      BY TypeInit, LockInit, <2>1
  <1>2. TypeInv /\ LockInv /\ LocksPrecedeWaits /\ [Next]_vars
            => (TypeInv /\ LockInv /\ LocksPrecedeWaits)'
    BY TypeStep, LockStep, OrderStep DEF TypeInv
  <1>3. TypeInv /\ LocksPrecedeWaits => NoWriteCycle
    BY OrderPreventsCycles DEF TypeInv
  <1>4. QED
    BY <1>1, <1>2, <1>3, PTL DEF Spec

-----------------------------------------------------------------------------
(* Coherence: why the cache shows the committed row once its lock is gone   *)

\* Requests that lock rows in transactions only, call WriteAll once, right before
\* the end of the transaction, and neither die nor roll back on purpose after it.
\* All that WriteAll has put into Redis is then committed.
PlainRequests == Allowed \cap {"bareForUpdate", "rewrite", "rollback", "fault"} = {}

\* One discipline: models are saved as a whole, and entries last longer than a
\* transaction.  The row of an update or a deletion is only taken out of Redis, where
\* a reader may put the old one back before COMMIT; so it is when the entry expires.
WholeSavesOnly ==
    PlainRequests /\ Allowed \cap {"update", "delete", "expiry"} = {}

\* One request: a transaction first reads and reserves, then writes once.
Phases ==
    \A p \in Procs :
        /\ pc[p] = "writeEnd" => ~tx[p]
        /\ pc[p] = "lock" => tx[p]
        /\ pc[p] = "fill" => /\ store[p][cur[p]] # Absent
                             /\ cur[p] \in locked[p] => tx[p]
        /\ pc[p] \in {"select", "lock", "fill", "expire"} => image[p] = Absent
        /\ pc[p] = "write" => image[p] # Absent
        /\ image[p] = Absent => \A k \in Keys : own[p][k] = None
        /\ pc[p] = "write" => \A k \in todo[p] : own[p][k] = None

\* A statement of WriteAll writes a row it has not written yet.
LEMMA WriteRowPhase ==
    ASSUME TypeOK, Phases, NEW p \in Procs, NEW k \in Keys, NEW v,
           AtRow(p, k), WriteRow(p, k, v)
    PROVE  Phases'
  <1>1. pc[p] = "write" /\ k \in todo[p] /\ image[p] # Absent
    BY DEF AtRow, Phases
  <1>2. /\ own' = [own EXCEPT ![p][k] = v]
        /\ todo' = [todo EXCEPT ![p] = @ \ {k}]
        /\ UNCHANGED <<image, tx, cur>>
    BY DEF WriteRow
  <1>3. /\ \A q \in Procs : q # p => /\ pc'[q] = pc[q] /\ store'[q] = store[q]
                                    /\ locked'[q] = locked[q]
        /\ pc'[p] \in {"push", "write"}
    BY <1>1 DEF WriteRow, Goto, TypeOK, storeVars
  <1>4. QED
    BY <1>1, <1>2, <1>3 DEF Phases, TypeOK

\* Every step keeps the phases.
LEMMA PhaseStep ==
    PlainRequests /\ TypeOK /\ LockInv /\ Phases /\ [Next]_vars => Phases'
  <1> SUFFICES ASSUME PlainRequests, TypeOK, LockInv, Phases, [Next]_vars
               PROVE  Phases'
    OBVIOUS
  <1>a. \A q \in Procs, j \in Keys : ~tx[q] => own[q][j] = None
    BY DEF LockInv, HoldersAreOpen, WritersAreAlone, TypeOK
  <1>b. \A q \in Procs : pc[q] = "select" => cur[q] \notin locked[q]
    BY DEF LockInv, StoreSteps
  <1> USE <1>a DEF TypeOK, Phases, Goto, dbVars, redisVars, NoRows,
              txVars, storeVars, planVars, writeVars
  <1>1. ASSUME NEW p \in Procs, StartTransaction(p)
       PROVE  Phases'
    BY <1>1 DEF StartTransaction, FreshManager
  <1>2. ASSUME NEW p \in Procs, EndRequest(p)
       PROVE  Phases'
    BY <1>2 DEF EndRequest, FreshManager
  <1>3. ASSUME NEW p \in Procs, Commit(p)
       PROVE  Phases'
    BY <1>3 DEF Commit, EndTransaction, Latest
  <1>4. ASSUME NEW p \in Procs, WriteEnd(p)
       PROVE  Phases'
    BY <1>4 DEF WriteEnd, DelEntries, FreshManager
  <1>5. ASSUME NEW p \in Procs, Rollback(p)
       PROVE  Phases'
    BY <1>5 DEF Rollback, EndTransaction, FreshManager
  <1>6. ASSUME NEW p \in Procs, Fault(p)
       PROVE  Phases'
    BY <1>6 DEF Fault, PlainRequests
  <1>7. ASSUME NEW p \in Procs, NEW k \in Keys, Get(p, k)
       PROVE  Phases'
    <2>1. UNCHANGED <<tx, own, locked, image, todo>>
      BY <1>7 DEF Get
    <2>2. \A q \in Procs : q # p => /\ pc'[q] = pc[q] /\ cur'[q] = cur[q]
                                    /\ store'[q] = store[q]
      BY <1>7 DEF Get, Keep
    <2>3. pc'[p] \in {"app", "select"} /\ image[p] = Absent
      BY <1>7 DEF Get, Ready, PlainRequests
    <2>4. QED
      BY <2>1, <2>2, <2>3
  <1>8. ASSUME NEW p \in Procs, NEW k \in Keys, TxGet(p, k)
       PROVE  Phases'
    BY <1>8 DEF TxGet, Ready, PlainRequests
  <1>9. ASSUME NEW p \in Procs, NEW k \in Keys, GetForUpdate(p, k)
       PROVE  Phases'
    BY <1>9 DEF GetForUpdate, Ready, PlainRequests
  <1>10. ASSUME NEW p \in Procs, Select(p)
       PROVE  Phases'
    <2>1. /\ UNCHANGED <<tx, own, locked, image, todo, cur>>
          /\ pc[p] = "select" /\ cur[p] \notin locked[p]
      BY <1>10, <1>b DEF Select
    <2>2. \A q \in Procs : q # p => pc'[q] = pc[q] /\ store'[q] = store[q]
      BY <1>10 DEF Select, Keep
    <2>3. pc'[p] = "app" \/ (pc'[p] = "fill" /\ store'[p][cur[p]] # Absent)
      BY <1>10 DEF Select, Keep
    <2>4. QED
      BY <2>1, <2>2, <2>3
  <1>11. ASSUME NEW p \in Procs, SelectForUpdate(p)
       PROVE  Phases'
    BY <1>11 DEF SelectForUpdate, Keep
  <1>12. ASSUME NEW p \in Procs, LockWaitEnds(p)
       PROVE  Phases'
    BY <1>12 DEF LockWaitEnds
  <1>13. ASSUME NEW p \in Procs, Fill(p)
       PROVE  Phases'
    BY <1>13 DEF Fill, SetNxEntry, SetEntry
  <1>14. ASSUME NEW p \in Procs, FillExpire(p)
       PROVE  Phases'
    BY <1>14 DEF FillExpire, ExpireEntry
  <1>15. ASSUME NEW p \in Procs, NEW k \in Keys, NEW kind \in Kinds,
                SetSave(p, k, kind)
       PROVE  Phases'
    BY <1>15 DEF SetSave, Ready
  <1>16. ASSUME NEW p \in Procs, NEW k \in Keys, SetForceDelete(p, k)
       PROVE  Phases'
    BY <1>16 DEF SetForceDelete, Ready
  <1>17. ASSUME NEW p \in Procs, WriteAll(p)
       PROVE  Phases'
    <2>1. lastVersion + 1 # Absent
      BY DEF Absent
    <2>2. image[p] = Absent
      BY <1>17 DEF WriteAll, Ready, PlainRequests
    <2>3. QED
      BY <1>17, <2>1, <2>2 DEF WriteAll, Reserved
  <1>18. ASSUME NEW p \in Procs, NEW k \in Keys, WriteInsert(p, k)
       PROVE  Phases'
    <2>1. PICK v : AtRow(p, k) /\ WriteRow(p, k, v)
      BY <1>18 DEF WriteInsert
    <2>2. QED
      BY <2>1, WriteRowPhase
  <1>19. ASSUME NEW p \in Procs, NEW k \in Keys, DuplicateEntry(p, k)
       PROVE  Phases'
    BY <1>19 DEF DuplicateEntry, AtRow
  <1>20. ASSUME NEW p \in Procs, NEW k \in Keys, WriteSave(p, k)
       PROVE  Phases'
    <2>1. PICK v : AtRow(p, k) /\ WriteRow(p, k, v)
      BY <1>20 DEF WriteSave
    <2>2. QED
      BY <2>1, WriteRowPhase
  <1>20a. ASSUME NEW p \in Procs, NEW k \in Keys, SaveMisses(p, k)
       PROVE  Phases'
    BY <1>20a DEF SaveMisses
  <1>21. ASSUME NEW p \in Procs, NEW k \in Keys, WriteUpdate(p, k)
       PROVE  Phases'
    <2>1. PICK v : AtRow(p, k) /\ WriteRow(p, k, v)
      BY <1>21 DEF WriteUpdate
    <2>2. QED
      BY <2>1, WriteRowPhase
  <1>22. ASSUME NEW p \in Procs, NEW k \in Keys, WriteDelete(p, k)
       PROVE  Phases'
    <2>1. PICK v : AtRow(p, k) /\ WriteRow(p, k, v)
      BY <1>22 DEF WriteDelete
    <2>2. QED
      BY <2>1, WriteRowPhase
  <1>23. ASSUME NEW p \in Procs, NEW k \in Keys, PushSaved(p, k)
       PROVE  Phases'
    BY <1>23 DEF PushSaved, SetEntry
  <1>24. ASSUME NEW p \in Procs, PushExpire(p)
       PROVE  Phases'
    BY <1>24 DEF PushExpire, ExpireEntry
  <1>25. ASSUME NEW p \in Procs, PurgeUpdated(p)
       PROVE  Phases'
    BY <1>25 DEF PurgeUpdated, DelEntries
  <1>26. ASSUME NEW p \in Procs, PurgeDeleted(p)
       PROVE  Phases'
    BY <1>26 DEF PurgeDeleted, DelEntries, ToInvalidate
  <1>27. ASSUME NEW k \in Keys, Age(k)
       PROVE  Phases'
    BY <1>27 DEF Age
  <1>28. ASSUME NEW k \in Keys, Expire(k)
       PROVE  Phases'
    BY <1>28 DEF Expire, DelEntries
  <1>29. CASE UNCHANGED vars
    BY <1>29 DEF vars
  <1>30. QED
    BY <1>1, <1>2, <1>3, <1>4, <1>5, <1>6, <1>7, <1>8, <1>9, <1>10, <1>11,
       <1>12, <1>13, <1>14, <1>15, <1>16, <1>17, <1>18, <1>19, <1>20, <1>20a,
       <1>21, <1>22, <1>23, <1>24, <1>25, <1>26, <1>27, <1>28, <1>29 DEF Next,
       Application, Continue

\* Nothing is reserved but saves and inserts, so nothing is taken out of Redis.
NothingPurged ==
    \A p \in Procs :
        /\ updated[p] = {} /\ deleted[p] = {} /\ delCache[p] = {}
        /\ \A k \in Keys : plan[p][k] \in {"none", "save", "insert"}

\* Every step keeps it.
LEMMA PlanStep ==
    WholeSavesOnly /\ TypeOK /\ NothingPurged /\ [Next]_vars => NothingPurged'
  <1> SUFFICES ASSUME WholeSavesOnly, TypeOK, NothingPurged, [Next]_vars
               PROVE  NothingPurged'
    OBVIOUS
  <1> USE DEF TypeOK, NothingPurged, NoPlan, planVars, writeVars
  <1>1. ASSUME NEW p \in Procs, StartTransaction(p)
       PROVE  NothingPurged'
    BY <1>1 DEF StartTransaction, FreshManager
  <1>2. ASSUME NEW p \in Procs, EndRequest(p)
       PROVE  NothingPurged'
    BY <1>2 DEF EndRequest, FreshManager
  <1>3. ASSUME NEW p \in Procs, Commit(p)
       PROVE  NothingPurged'
    BY <1>3 DEF Commit, EndTransaction, Latest
  <1>4. ASSUME NEW p \in Procs, WriteEnd(p)
       PROVE  NothingPurged'
    BY <1>4 DEF WriteEnd, DelEntries, FreshManager
  <1>5. ASSUME NEW p \in Procs, Rollback(p)
       PROVE  NothingPurged'
    BY <1>5 DEF Rollback, EndTransaction, FreshManager
  <1>6. ASSUME NEW p \in Procs, Fault(p)
       PROVE  NothingPurged'
    BY <1>6 DEF Fault, WholeSavesOnly, PlainRequests
  <1>7. ASSUME NEW p \in Procs, NEW k \in Keys, Get(p, k)
       PROVE  NothingPurged'
    BY <1>7 DEF Get, Keep, Ready
  <1>8. ASSUME NEW p \in Procs, NEW k \in Keys, TxGet(p, k)
       PROVE  NothingPurged'
    BY <1>8 DEF TxGet, Ready
  <1>9. ASSUME NEW p \in Procs, NEW k \in Keys, GetForUpdate(p, k)
       PROVE  NothingPurged'
    BY <1>9 DEF GetForUpdate, Ready
  <1>10. ASSUME NEW p \in Procs, Select(p)
       PROVE  NothingPurged'
    BY <1>10 DEF Select, Keep
  <1>11. ASSUME NEW p \in Procs, SelectForUpdate(p)
       PROVE  NothingPurged'
    BY <1>11 DEF SelectForUpdate, Keep
  <1>12. ASSUME NEW p \in Procs, LockWaitEnds(p)
       PROVE  NothingPurged'
    BY <1>12 DEF LockWaitEnds
  <1>13. ASSUME NEW p \in Procs, Fill(p)
       PROVE  NothingPurged'
    BY <1>13 DEF Fill, SetNxEntry, SetEntry
  <1>14. ASSUME NEW p \in Procs, FillExpire(p)
       PROVE  NothingPurged'
    BY <1>14 DEF FillExpire, ExpireEntry
  <1>15. ASSUME NEW p \in Procs, NEW k \in Keys, NEW kind \in Kinds,
                SetSave(p, k, kind)
       PROVE  NothingPurged'
    <2>1. kind \in {"save", "insert"} /\ plan[p][k] \in {"none", "save", "insert"}
      BY <1>15 DEF SetSave, WholeSavesOnly, Kinds
    <2>2. Merged(plan[p][k], kind) \in {"none", "save", "insert"}
      BY <2>1 DEF Merged
    <2>3. QED
      BY <1>15, <2>2 DEF SetSave
  <1>16. ASSUME NEW p \in Procs, NEW k \in Keys, SetForceDelete(p, k)
       PROVE  NothingPurged'
    BY <1>16 DEF SetForceDelete, WholeSavesOnly, PlainRequests
  <1>17. ASSUME NEW p \in Procs, WriteAll(p)
       PROVE  NothingPurged'
    BY <1>17 DEF WriteAll, Ready
  <1>18. ASSUME NEW p \in Procs, NEW k \in Keys, WriteInsert(p, k)
       PROVE  NothingPurged'
    <2>1. UNCHANGED <<updated, deleted, delCache>>
      BY <1>18 DEF WriteInsert, WriteRow
    <2>2. UNCHANGED plan \/ plan' = [plan EXCEPT ![p] = NoPlan]
      BY <1>18 DEF WriteInsert, WriteRow
    <2>3. CASE UNCHANGED plan
      BY <2>1, <2>3
    <2>4. CASE plan' = [plan EXCEPT ![p] = NoPlan]
      BY <2>1, <2>4
    <2>5. QED
      BY <2>2, <2>3, <2>4
  <1>19. ASSUME NEW p \in Procs, NEW k \in Keys, DuplicateEntry(p, k)
       PROVE  NothingPurged'
    BY <1>19 DEF DuplicateEntry, AtRow
  <1>20. ASSUME NEW p \in Procs, NEW k \in Keys, WriteSave(p, k)
       PROVE  NothingPurged'
    <2>1. UNCHANGED <<updated, deleted, delCache>>
      BY <1>20 DEF WriteSave, WriteRow
    <2>2. UNCHANGED plan \/ plan' = [plan EXCEPT ![p] = NoPlan]
      BY <1>20 DEF WriteSave, WriteRow
    <2>3. CASE UNCHANGED plan
      BY <2>1, <2>3
    <2>4. CASE plan' = [plan EXCEPT ![p] = NoPlan]
      BY <2>1, <2>4
    <2>5. QED
      BY <2>2, <2>3, <2>4
  <1>20a. ASSUME NEW p \in Procs, NEW k \in Keys, SaveMisses(p, k)
       PROVE  NothingPurged'
    BY <1>20a DEF SaveMisses
  <1>21. ASSUME NEW p \in Procs, NEW k \in Keys, WriteUpdate(p, k)
       PROVE  NothingPurged'
    BY <1>21 DEF WriteUpdate
  <1>22. ASSUME NEW p \in Procs, NEW k \in Keys, WriteDelete(p, k)
       PROVE  NothingPurged'
    BY <1>22 DEF WriteDelete
  <1>23. ASSUME NEW p \in Procs, NEW k \in Keys, PushSaved(p, k)
       PROVE  NothingPurged'
    BY <1>23 DEF PushSaved, SetEntry
  <1>24. ASSUME NEW p \in Procs, PushExpire(p)
       PROVE  NothingPurged'
    BY <1>24 DEF PushExpire, ExpireEntry
  <1>25. ASSUME NEW p \in Procs, PurgeUpdated(p)
       PROVE  NothingPurged'
    BY <1>25 DEF PurgeUpdated, DelEntries
  <1>26. ASSUME NEW p \in Procs, PurgeDeleted(p)
       PROVE  NothingPurged'
    BY <1>26 DEF PurgeDeleted, DelEntries, ToInvalidate
  <1>27. ASSUME NEW k \in Keys, Age(k)
       PROVE  NothingPurged'
    BY <1>27 DEF Age, WholeSavesOnly, PlainRequests
  <1>28. ASSUME NEW k \in Keys, Expire(k)
       PROVE  NothingPurged'
    BY <1>28 DEF Expire, WholeSavesOnly, PlainRequests
  <1>29. CASE UNCHANGED vars
    BY <1>29 DEF vars
  <1>30. QED
    BY <1>1, <1>2, <1>3, <1>4, <1>5, <1>6, <1>7, <1>8, <1>9, <1>10, <1>11,
       <1>12, <1>13, <1>14, <1>15, <1>16, <1>17, <1>18, <1>19, <1>20, <1>20a,
       <1>21, <1>22, <1>23, <1>24, <1>25, <1>26, <1>27, <1>28, <1>29 DEF Next,
       Application, Continue

\* What was read without a lock and may still reach Redis by SETNX is the row as
\* committed, unless the key has an entry that the SETNX leaves alone.
ReadsAreCurrent ==
    \A p \in Procs, k \in Keys :
        redis[k] = Absent =>
            /\ pc[p] = "fill" /\ cur[p] = k => store[p][k] = committed[k]
            /\ snap[p][k] \in {None, Absent, committed[k]}

\* A cached row that nobody is writing is cached as committed.
EntriesAreCommitted ==
    \A k \in Keys :
        redis[k] # Absent /\ (\A p \in Procs : own[p][k] = None)
            => redis[k] = committed[k]

\* WriteAll's loop is over and nothing failed.
Pushing(p) == pc[p] \in {"push", "pushExpire", "purge", "app"}

\* A row written but not committed is cached as written, or is about to be, or is
\* a new row that nobody can read yet.
WritesArePushed ==
    \A p \in Procs :
        /\ pc[p] = "pushExpire" => redis[cur[p]] = own[p][cur[p]]
        /\ \A k \in Keys : own[p][k] # None =>
               /\ own[p][k] # Absent
               /\ \/ Pushing(p) /\ redis[k] = own[p][k]
                  \/ k \in saved[p] /\ redis[k] \in {Absent, committed[k]}
                  \/ redis[k] = Absent /\ committed[k] = Absent

Coherent == ReadsAreCurrent /\ EntriesAreCommitted /\ WritesArePushed

\* The other requests do not move.
OthersStay(p) ==
    \A q \in Procs \ {p} :
        /\ pc'[q] = pc[q] /\ cur'[q] = cur[q] /\ store'[q] = store[q]
        /\ snap'[q] = snap[q] /\ own'[q] = own[q] /\ saved'[q] = saved[q]

\* A step of p that changes neither Redis nor a row may read what is committed, and
\* may take a model off savedModels once it is in Redis.
LEMMA QuietCoherent ==
    ASSUME TypeOK, Coherent, NEW p \in Procs,
           UNCHANGED <<redis, committed, own>>, OthersStay(p),
           pc'[p] # "pushExpire",
           pc'[p] = "fill" => \/ redis[cur'[p]] # Absent
                              \/ store'[p][cur'[p]] = committed[cur'[p]],
           \A k \in Keys : snap'[p][k] \in {None, snap[p][k], committed[k]},
           \/ \A k \in Keys : own[p][k] = None
           \/ /\ Pushing(p) => Pushing(p)'
              /\ \A k \in saved[p] \ saved'[p] :
                     Pushing(p)' /\ redis[k] = own[p][k]
    PROVE  Coherent'
  <1> USE DEF TypeOK
  <1>1. ReadsAreCurrent'
    <2>1. SUFFICES ASSUME NEW q \in Procs, NEW k \in Keys, redis[k] = Absent
          PROVE  /\ pc'[q] = "fill" /\ cur'[q] = k => store'[q][k] = committed[k]
                 /\ snap'[q][k] \in {None, Absent, committed[k]}
      BY DEF ReadsAreCurrent
    <2>2. /\ pc[q] = "fill" /\ cur[q] = k => store[q][k] = committed[k]
          /\ snap[q][k] \in {None, Absent, committed[k]}
      BY <2>1 DEF Coherent, ReadsAreCurrent
    <2>3. CASE q = p
      BY <2>1, <2>2, <2>3
    <2>4. CASE q # p
      BY <2>2, <2>4 DEF OthersStay
    <2>5. QED
      BY <2>3, <2>4
  <1>2. EntriesAreCommitted'
    BY DEF Coherent, EntriesAreCommitted
  <1>3. WritesArePushed'
    <2>1. SUFFICES ASSUME NEW q \in Procs
          PROVE  /\ pc'[q] = "pushExpire" => redis[cur'[q]] = own[q][cur'[q]]
                 /\ \A k \in Keys : own[q][k] # None =>
                      /\ own[q][k] # Absent
                      /\ \/ Pushing(q)' /\ redis[k] = own[q][k]
                         \/ k \in saved'[q] /\ redis[k] \in {Absent, committed[k]}
                         \/ redis[k] = Absent /\ committed[k] = Absent
      BY DEF WritesArePushed
    <2>2. CASE q = p
      BY <2>2 DEF Coherent, WritesArePushed
    <2>3. CASE q # p
      BY <2>3 DEF Coherent, WritesArePushed, OthersStay, Pushing
    <2>4. QED
      BY <2>2, <2>3
  <1>4. QED
    BY <1>1, <1>2, <1>3 DEF Coherent

\* COMMIT installs what Redis shows already, or a new row nobody has read.
LEMMA CommitCoherent ==
    ASSUME TypeInv, LockInv, Phases, Coherent, NEW p \in Procs, Commit(p)
    PROVE  Coherent'
  <1> USE DEF TypeOK
  <1>1. TypeOK /\ saved[p] = {}
    BY DEF TypeInv, Pending, Commit
  <1>2. /\ UNCHANGED <<redis, saved>> /\ OthersStay(p) /\ pc'[p] = "writeEnd"
        /\ \A k \in Keys : own'[p][k] = None /\ snap'[p][k] = None
        /\ \A k \in Keys : committed'[k] = Latest(p, k)
    BY <1>1 DEF Commit, EndTransaction, NoRows, Goto, OthersStay, redisVars,
        storeVars, writeVars
  <1>3. ASSUME NEW k \in Keys, own[p][k] = None
        PROVE  committed'[k] = committed[k]
    BY <1>2, <1>3 DEF Latest
  <1>4. ASSUME NEW k \in Keys, own[p][k] # None
        PROVE  /\ \/ redis[k] # Absent /\ redis[k] = committed'[k]
                  \/ redis[k] = Absent /\ committed[k] = Absent
               /\ \A q \in Procs \ {p} : own[q][k] = None
    <2>1. committed'[k] = own[p][k]
      BY <1>2, <1>4 DEF Latest
    <2>2. own[p][k] # Absent /\ (\/ redis[k] = own[p][k]
                                 \/ redis[k] = Absent /\ committed[k] = Absent)
      BY <1>1, <1>4 DEF Coherent, WritesArePushed
    <2>3. \A q \in Procs \ {p} : own[q][k] = None
      BY <1>4 DEF LockInv, WritersAreAlone
    <2>4. QED
      BY <2>1, <2>2, <2>3
  <1>5. ReadsAreCurrent'
    <2>1. SUFFICES ASSUME NEW q \in Procs, NEW k \in Keys, redis[k] = Absent
          PROVE  /\ pc'[q] = "fill" /\ cur'[q] = k => store'[q][k] = committed'[k]
                 /\ snap'[q][k] \in {None, Absent, committed'[k]}
      BY <1>2 DEF ReadsAreCurrent
    <2>2. CASE q = p
      BY <1>2, <2>2
    <2>3. CASE q # p
      <3>1. /\ pc[q] = "fill" /\ cur[q] = k
                 => store[q][k] = committed[k] /\ store[q][k] # Absent
            /\ snap[q][k] \in {None, Absent, committed[k]}
        BY <2>1 DEF Coherent, ReadsAreCurrent, Phases
      <3>2. committed[k] # Absent => committed'[k] = committed[k]
        BY <1>3, <1>4, <2>1
      <3>3. pc'[q] = pc[q] /\ cur'[q] = cur[q] /\ store'[q] = store[q]
            /\ snap'[q] = snap[q]
        BY <1>2, <2>3 DEF OthersStay
      <3>4. QED
        BY <3>1, <3>2, <3>3
    <2>4. QED
      BY <2>2, <2>3
  <1>6. EntriesAreCommitted'
    <2>1. SUFFICES ASSUME NEW k \in Keys, redis[k] # Absent,
                          \A q \in Procs : own'[q][k] = None
                   PROVE  redis[k] = committed'[k]
      BY <1>2 DEF EntriesAreCommitted
    <2>2. CASE own[p][k] = None
      <3>1. \A q \in Procs : own[q][k] = None
        BY <1>2, <2>1, <2>2 DEF OthersStay
      <3>2. QED
        BY <1>3, <2>1, <2>2, <3>1 DEF Coherent, EntriesAreCommitted
    <2>3. CASE own[p][k] # None
      BY <1>4, <2>1, <2>3
    <2>4. QED
      BY <2>2, <2>3
  <1>7. WritesArePushed'
    <2>1. SUFFICES ASSUME NEW q \in Procs
          PROVE  /\ pc'[q] = "pushExpire" => redis[cur'[q]] = own'[q][cur'[q]]
                 /\ \A k \in Keys : own'[q][k] # None =>
                      /\ own'[q][k] # Absent
                      /\ \/ Pushing(q)' /\ redis[k] = own'[q][k]
                         \/ k \in saved[q] /\ redis[k] \in {Absent, committed'[k]}
                         \/ redis[k] = Absent /\ committed'[k] = Absent
      BY <1>2 DEF WritesArePushed
    <2>2. CASE q = p
      BY <1>2, <2>2
    <2>3. CASE q # p
      <3>1. pc'[q] = pc[q] /\ cur'[q] = cur[q] /\ own'[q] = own[q]
        BY <1>2, <2>3 DEF OthersStay
      <3>2. \A k \in Keys : own[q][k] # None => committed'[k] = committed[k]
        BY <1>3, <1>4, <2>3
      <3>3. QED
        BY <3>1, <3>2 DEF Coherent, WritesArePushed, Pushing
    <2>4. QED
      BY <2>2, <2>3
  <1>8. QED
    BY <1>5, <1>6, <1>7 DEF Coherent

\* A failed operation has not reached Redis yet, so ROLLBACK leaves nothing behind.
LEMMA RollbackCoherent ==
    ASSUME PlainRequests, TypeOK, Coherent, NEW p \in Procs, Rollback(p)
    PROVE  Coherent'
  <1> USE DEF TypeOK
  <1>1. /\ pc[p] = "failed" /\ pc'[p] = "app"
        /\ UNCHANGED <<redis, committed>> /\ OthersStay(p)
        /\ \A k \in Keys : own'[p][k] = None /\ snap'[p][k] = None
    BY DEF Rollback, EndTransaction, FreshManager, NoRows, Goto, OthersStay,
        redisVars, PlainRequests
  <1>2. \A k \in Keys : own[p][k] # None => redis[k] \in {Absent, committed[k]}
    BY <1>1 DEF Coherent, WritesArePushed, Pushing
  <1>3. ReadsAreCurrent'
    <2>1. SUFFICES ASSUME NEW q \in Procs, NEW k \in Keys, redis[k] = Absent
          PROVE  /\ pc'[q] = "fill" /\ cur'[q] = k => store'[q][k] = committed[k]
                 /\ snap'[q][k] \in {None, Absent, committed[k]}
      BY <1>1 DEF ReadsAreCurrent
    <2>2. /\ pc[q] = "fill" /\ cur[q] = k => store[q][k] = committed[k]
          /\ snap[q][k] \in {None, Absent, committed[k]}
      BY <2>1 DEF Coherent, ReadsAreCurrent
    <2>3. CASE q = p
      BY <1>1, <2>3
    <2>4. CASE q # p
      BY <1>1, <2>2, <2>4 DEF OthersStay
    <2>5. QED
      BY <2>3, <2>4
  <1>4. EntriesAreCommitted'
    <2>1. SUFFICES ASSUME NEW k \in Keys, redis[k] # Absent,
                          \A q \in Procs : own'[q][k] = None
                   PROVE  redis[k] = committed[k]
      BY <1>1 DEF EntriesAreCommitted
    <2>2. CASE own[p][k] = None
      <3>1. \A q \in Procs : own[q][k] = None
        BY <1>1, <2>1, <2>2 DEF OthersStay
      <3>2. QED
        BY <2>1, <3>1 DEF Coherent, EntriesAreCommitted
    <2>3. CASE own[p][k] # None
      BY <1>2, <2>1, <2>3
    <2>4. QED
      BY <2>2, <2>3
  <1>5. WritesArePushed'
    <2>1. SUFFICES ASSUME NEW q \in Procs
          PROVE  /\ pc'[q] = "pushExpire" => redis[cur'[q]] = own'[q][cur'[q]]
                 /\ \A k \in Keys : own'[q][k] # None =>
                      /\ own'[q][k] # Absent
                      /\ \/ Pushing(q)' /\ redis[k] = own'[q][k]
                         \/ k \in saved'[q] /\ redis[k] \in {Absent, committed[k]}
                         \/ redis[k] = Absent /\ committed[k] = Absent
      BY <1>1 DEF WritesArePushed
    <2>2. CASE q = p
      BY <1>1, <2>2
    <2>3. CASE q # p
      <3>1. /\ pc'[q] = pc[q] /\ cur'[q] = cur[q] /\ own'[q] = own[q]
            /\ saved'[q] = saved[q]
        BY <1>1, <2>3 DEF OthersStay
      <3>2. QED
        BY <3>1 DEF Coherent, WritesArePushed, Pushing
    <2>4. QED
      BY <2>2, <2>3
  <1>6. QED
    BY <1>3, <1>4, <1>5 DEF Coherent

\* What a fill is about to put into Redis is the committed row, if it will be put
\* there at all: by SETNX into an empty entry, or by SET under the row's lock.
LEMMA FillIsCurrent ==
    ASSUME TypeOK, LockInv, Phases, Coherent, NEW p \in Procs, pc[p] = "fill",
           redis[cur[p]] = Absent \/ cur[p] \in locked[p]
    PROVE  /\ store[p][cur[p]] = committed[cur[p]] /\ committed[cur[p]] # Absent
           /\ redis[cur[p]] = Absent \/ \A q \in Procs : own[q][cur[p]] = None
  <1> DEFINE k == cur[p]
  <1>1. k \in Keys /\ store[p][k] # Absent /\ own[p][k] = None /\ todo[p] = {}
    BY DEF TypeOK, Phases, LockInv, StoreSteps
  <1>2. CASE redis[k] = Absent
    BY <1>1, <1>2 DEF Coherent, ReadsAreCurrent
  <1>3. CASE k \in locked[p]
    <2>1. tx[p] /\ Unwritten(p, k)
      BY <1>1, <1>3 DEF Phases, Unwritten
    <2>2. p \in locks[k] /\ store[p][k] = committed[k]
      BY <1>1, <1>3, <2>1 DEF LockInv, LockedModelsAreCurrent, Latest
    <2>3. \A q \in Procs : own[q][k] = None
      BY <1>1, <2>2 DEF LockInv, WritersAreAlone
    <2>4. QED
      BY <1>1, <2>2, <2>3
  <1>4. QED
    BY <1>2, <1>3

\* SaveModelsToCache after a read puts the committed row into Redis or nothing.
LEMMA FillCoherent ==
    ASSUME TypeOK, LockInv, Phases, Coherent, NEW p \in Procs, Fill(p)
    PROVE  Coherent'
  <1> USE DEF TypeOK
  <1> DEFINE k == cur[p]
  <1>1. /\ k \in Keys /\ pc[p] = "fill" /\ pc'[p] = "expire"
        /\ UNCHANGED <<committed, own, saved, snap, store, cur>>
        /\ \A q \in Procs \ {p} : pc'[q] = pc[q]
    BY DEF Fill, Goto, dbVars, txVars, storeVars, writeVars
  <1>2. \A j \in Keys : own[p][j] = None
    BY <1>1 DEF Phases
  <1>3. OthersStay(p)
    BY <1>1 DEF OthersStay
  <1>4. CASE UNCHANGED redis
    BY <1>1, <1>2, <1>3, <1>4, QuietCoherent
  <1>5. CASE /\ redis' = [redis EXCEPT ![k] = store[p][k]]
             /\ redis[k] = Absent \/ k \in locked[p]
    <2>1. /\ store[p][k] = committed[k] /\ committed[k] # Absent
          /\ redis[k] = Absent \/ \A q \in Procs : own[q][k] = None
      BY <1>1, <1>5, FillIsCurrent
    <2>2. redis'[k] = committed[k] /\ \A j \in Keys \ {k} : redis'[j] = redis[j]
      BY <1>1, <1>5, <2>1
    <2>3. ReadsAreCurrent'
      BY <1>1, <2>1, <2>2 DEF Coherent, ReadsAreCurrent
    <2>4. EntriesAreCommitted'
      BY <1>1, <2>1, <2>2 DEF Coherent, EntriesAreCommitted
    <2>5. WritesArePushed'
      <3>1. SUFFICES ASSUME NEW q \in Procs
            PROVE  /\ pc'[q] = "pushExpire" => redis'[cur[q]] = own[q][cur[q]]
                   /\ \A j \in Keys : own[q][j] # None =>
                        /\ own[q][j] # Absent
                        /\ \/ Pushing(q)' /\ redis'[j] = own[q][j]
                           \/ j \in saved[q] /\ redis'[j] \in {Absent, committed[j]}
                           \/ redis'[j] = Absent /\ committed[j] = Absent
        BY <1>1 DEF WritesArePushed
      <3>2. CASE q = p
        BY <1>1, <1>2, <3>2
      <3>3. CASE q # p
        <4>1. /\ pc[q] = "pushExpire" => redis[cur[q]] = own[q][cur[q]]
              /\ \A j \in Keys : own[q][j] # None =>
                   /\ own[q][j] # Absent
                   /\ \/ Pushing(q) /\ redis[j] = own[q][j]
                      \/ j \in saved[q] /\ redis[j] \in {Absent, committed[j]}
                      \/ redis[j] = Absent /\ committed[j] = Absent
          BY DEF Coherent, WritesArePushed
        <4>2. pc'[q] = pc[q] /\ (Pushing(q)' <=> Pushing(q))
          BY <1>1, <3>3 DEF Pushing
        <4>3. pc[q] = "pushExpire" => cur[q] # k
          <5>1. redis[k] \in Row /\ own[q][k] # Absent
            BY <1>1, <4>1, RowFacts
          <5>2. QED
            BY <2>1, <4>1, <5>1, RowFacts
        <4>4. ASSUME NEW j \in Keys, own[q][j] # None
              PROVE  \/ Pushing(q)' /\ redis'[j] = own[q][j]
                     \/ j \in saved[q] /\ redis'[j] \in {Absent, committed[j]}
                     \/ redis'[j] = Absent /\ committed[j] = Absent
          <5>1. CASE j = k
            BY <2>1, <2>2, <4>1, <4>4, <5>1
          <5>2. CASE j # k
            BY <2>2, <4>1, <4>2, <4>4, <5>2
          <5>3. QED
            BY <5>1, <5>2
        <4>5. QED
          BY <2>2, <4>1, <4>2, <4>3, <4>4
      <3>4. QED
        BY <3>2, <3>3
    <2>6. QED
      BY <2>3, <2>4, <2>5 DEF Coherent
  <1>6. QED
    BY <1>4, <1>5 DEF Fill, Overwrites, SetEntry, SetNxEntry, redisVars

\* A row that WriteAll may write is written by nobody else.
LEMMA WriterIsAlone ==
    ASSUME TypeOK, LockInv, Phases, NEW p \in Procs, NEW k \in Keys, AtRow(p, k)
    PROVE  /\ \A q \in Procs : own[q][k] = None
           /\ pc[p] = "write" /\ image[p] # Absent /\ image[p] # None
  <1>1. pc[p] = "write" /\ k \in todo[p] /\ CanWrite(p, k)
    BY DEF AtRow
  <1>2. locks[k] \subseteq {p} \/ \A q \in Procs \ {p} : own[q][k] = None
    BY <1>1 DEF CanWrite, Lockable, Exclusive
  <1>3. own[p][k] = None /\ image[p] # Absent
    BY <1>1 DEF Phases
  <1>4. ASSUME NEW q \in Procs, q # p
        PROVE  own[q][k] = None
    BY <1>2, <1>4 DEF LockInv, WritersAreAlone
  <1>5. image[p] # None
    BY RowFacts DEF TypeOK
  <1>6. QED
    BY <1>1, <1>3, <1>4, <1>5

\* A row that was written and is to be pushed, or that is new, is coherent.
LEMMA WriteRowCoherent ==
    ASSUME TypeOK, LockInv, Phases, Coherent,
           NEW p \in Procs, NEW k \in Keys, AtRow(p, k),
           WriteRow(p, k, image[p]), saved' \in [Procs -> SUBSET Keys],
           \A q \in Procs \ {p} : saved'[q] = saved[q],
           saved[p] \subseteq saved'[p],
           k \in saved'[p] \/ committed[k] = Absent
    PROVE  Coherent'
  <1> USE DEF TypeOK
  <1>1. /\ \A q \in Procs : own[q][k] = None
        /\ pc[p] = "write" /\ image[p] # Absent /\ image[p] # None
    BY WriterIsAlone
  <1>2. /\ UNCHANGED <<redis, committed, snap, cur>>
        /\ own' = [own EXCEPT ![p][k] = image[p]]
        /\ \A q \in Procs \ {p} : pc'[q] = pc[q] /\ store'[q] = store[q]
        /\ pc'[p] \in {"write", "push"}
    BY <1>1 DEF WriteRow, Goto, redisVars, storeVars
  <1>3. redis[k] \in {Absent, committed[k]}
    BY <1>1 DEF Coherent, EntriesAreCommitted
  <1>4. /\ own'[p][k] = image[p]
        /\ \A q \in Procs, j \in Keys : q # p \/ j # k => own'[q][j] = own[q][j]
    BY <1>2
  <1>5. ReadsAreCurrent'
    <2>1. SUFFICES ASSUME NEW q \in Procs, NEW j \in Keys, redis[j] = Absent
          PROVE  /\ pc'[q] = "fill" /\ cur[q] = j => store'[q][j] = committed[j]
                 /\ snap[q][j] \in {None, Absent, committed[j]}
      BY <1>2 DEF ReadsAreCurrent
    <2>2. /\ pc[q] = "fill" /\ cur[q] = j => store[q][j] = committed[j]
          /\ snap[q][j] \in {None, Absent, committed[j]}
      BY <2>1 DEF Coherent, ReadsAreCurrent
    <2>3. pc'[q] = "fill" => pc[q] = "fill" /\ store'[q] = store[q]
      BY <1>2
    <2>4. QED
      BY <2>2, <2>3
  <1>6. EntriesAreCommitted'
    <2>1. SUFFICES ASSUME NEW j \in Keys, redis[j] # Absent,
                          \A q \in Procs : own'[q][j] = None
                   PROVE  redis[j] = committed[j]
      BY <1>2 DEF EntriesAreCommitted
    <2>2. j # k
      BY <1>1, <1>4, <2>1
    <2>3. \A q \in Procs : own[q][j] = None
      BY <1>4, <2>1, <2>2
    <2>4. QED
      BY <2>1, <2>3 DEF Coherent, EntriesAreCommitted
  <1>7. WritesArePushed'
    <2>1. SUFFICES ASSUME NEW q \in Procs
          PROVE  /\ pc'[q] = "pushExpire" => redis[cur[q]] = own'[q][cur[q]]
                 /\ \A j \in Keys : own'[q][j] # None =>
                      /\ own'[q][j] # Absent
                      /\ \/ Pushing(q)' /\ redis[j] = own'[q][j]
                         \/ j \in saved'[q] /\ redis[j] \in {Absent, committed[j]}
                         \/ redis[j] = Absent /\ committed[j] = Absent
      BY <1>2 DEF WritesArePushed
    <2>2. /\ pc[q] = "pushExpire" => redis[cur[q]] = own[q][cur[q]]
          /\ \A j \in Keys : own[q][j] # None =>
               /\ own[q][j] # Absent
               /\ \/ Pushing(q) /\ redis[j] = own[q][j]
                  \/ j \in saved[q] /\ redis[j] \in {Absent, committed[j]}
                  \/ redis[j] = Absent /\ committed[j] = Absent
      BY DEF Coherent, WritesArePushed
    <2>3. CASE q = p
      <3>1. ~Pushing(p) /\ pc'[p] # "pushExpire"
        BY <1>1, <1>2 DEF Pushing
      <3>2. ASSUME NEW j \in Keys, own'[p][j] # None
            PROVE  /\ own'[p][j] # Absent
                   /\ \/ j \in saved'[p] /\ redis[j] \in {Absent, committed[j]}
                      \/ redis[j] = Absent /\ committed[j] = Absent
        <4>1. CASE j = k
          BY <1>1, <1>3, <1>4, <4>1
        <4>2. CASE j # k
          BY <1>4, <2>2, <2>3, <3>1, <3>2, <4>2
        <4>3. QED
          BY <4>1, <4>2
      <3>3. QED
        BY <2>3, <3>1, <3>2
    <2>4. CASE q # p
      <3>1. /\ pc'[q] = pc[q] /\ saved'[q] = saved[q]
            /\ \A j \in Keys : own'[q][j] = own[q][j]
        BY <1>2, <1>4, <2>4
      <3>2. Pushing(q)' <=> Pushing(q)
        BY <3>1 DEF Pushing
      <3>3. QED
        BY <2>2, <3>1, <3>2
    <2>5. QED
      BY <2>3, <2>4
  <1>8. QED
    BY <1>5, <1>6, <1>7 DEF Coherent

\* SaveModelsToCache after WriteAll's loop: the entry is the row of the transaction
\* that holds its lock.
LEMMA PushSavedCoherent ==
    ASSUME TypeInv, LockInv, Phases, Coherent,
           NEW p \in Procs, NEW k \in Keys, PushSaved(p, k)
    PROVE  Coherent'
  <1> USE DEF TypeOK
  <1>a. TypeOK
    BY DEF TypeInv
  <1>1. own[p][k] # None /\ own[p][k] # Absent
    BY <1>a DEF TypeInv, Pending, PushSaved, Coherent, WritesArePushed
  <1>2. ASSUME NEW q \in Procs \ {p}
        PROVE  own[q][k] = None
    <2>1. locks[k] = {p}
      BY <1>1 DEF LockInv, WritersAreAlone
    <2>2. own[q][k] # None => locks[k] = {q}
      BY DEF LockInv, WritersAreAlone
    <2>3. QED
      BY <2>1, <2>2
  <1>3. /\ UNCHANGED <<committed, snap, store, own, saved>>
        /\ \A q \in Procs \ {p} : pc'[q] = pc[q] /\ cur'[q] = cur[q]
        /\ pc[p] = "push" /\ pc'[p] = "pushExpire" /\ cur'[p] = k
    BY <1>a DEF PushSaved, Goto, dbVars, txVars, storeVars, writeVars
  <1>4. redis'[k] = own[p][k] /\ \A j \in Keys \ {k} : redis'[j] = redis[j]
    BY <1>a DEF PushSaved, SetEntry, SavedImage
  <1>5. ReadsAreCurrent'
    <2>1. SUFFICES ASSUME NEW q \in Procs, NEW j \in Keys, redis'[j] = Absent
          PROVE  /\ pc'[q] = "fill" /\ cur'[q] = j => store[q][j] = committed[j]
                 /\ snap[q][j] \in {None, Absent, committed[j]}
      BY <1>3 DEF ReadsAreCurrent
    <2>2. redis[j] = Absent
      BY <1>1, <1>4, <2>1
    <2>3. /\ pc[q] = "fill" /\ cur[q] = j => store[q][j] = committed[j]
          /\ snap[q][j] \in {None, Absent, committed[j]}
      BY <2>2 DEF Coherent, ReadsAreCurrent
    <2>4. pc'[q] = "fill" => pc[q] = "fill" /\ cur'[q] = cur[q]
      BY <1>3
    <2>5. QED
      BY <2>3, <2>4
  <1>6. EntriesAreCommitted'
    <2>1. SUFFICES ASSUME NEW j \in Keys, redis'[j] # Absent,
                          \A q \in Procs : own[q][j] = None
                   PROVE  redis'[j] = committed[j]
      BY <1>3 DEF EntriesAreCommitted
    <2>2. j # k
      BY <1>1, <2>1
    <2>3. QED
      BY <1>4, <2>1, <2>2 DEF Coherent, EntriesAreCommitted
  <1>7. WritesArePushed'
    <2>1. SUFFICES ASSUME NEW q \in Procs
          PROVE  /\ pc'[q] = "pushExpire" => redis'[cur'[q]] = own[q][cur'[q]]
                 /\ \A j \in Keys : own[q][j] # None =>
                      /\ own[q][j] # Absent
                      /\ \/ Pushing(q)' /\ redis'[j] = own[q][j]
                         \/ j \in saved[q] /\ redis'[j] \in {Absent, committed[j]}
                         \/ redis'[j] = Absent /\ committed[j] = Absent
      BY <1>3 DEF WritesArePushed
    <2>2. /\ pc[q] = "pushExpire" => redis[cur[q]] = own[q][cur[q]]
          /\ \A j \in Keys : own[q][j] # None =>
               /\ own[q][j] # Absent
               /\ \/ Pushing(q) /\ redis[j] = own[q][j]
                  \/ j \in saved[q] /\ redis[j] \in {Absent, committed[j]}
                  \/ redis[j] = Absent /\ committed[j] = Absent
      BY DEF Coherent, WritesArePushed
    <2>3. CASE q = p
      <3>1. Pushing(p)'
        BY <1>3 DEF Pushing
      <3>2. ASSUME NEW j \in Keys, own[p][j] # None
            PROVE  /\ own[p][j] # Absent
                   /\ \/ Pushing(p)' /\ redis'[j] = own[p][j]
                      \/ j \in saved[p] /\ redis'[j] \in {Absent, committed[j]}
                      \/ redis'[j] = Absent /\ committed[j] = Absent
        <4>1. CASE j = k
          BY <1>1, <1>4, <3>1, <4>1
        <4>2. CASE j # k
          BY <1>4, <2>2, <2>3, <3>1, <3>2, <4>2
        <4>3. QED
          BY <4>1, <4>2
      <3>3. QED
        BY <1>3, <1>4, <2>3, <3>2
    <2>4. CASE q # p
      <3>1. /\ pc'[q] = pc[q] /\ cur'[q] = cur[q] /\ own[q][k] = None
            /\ (Pushing(q)' <=> Pushing(q))
        BY <1>2, <1>3, <2>4 DEF Pushing
      <3>2. pc[q] = "pushExpire" => cur[q] # k
        <4>1. redis[k] # None
          BY <1>a, RowFacts
        <4>2. QED
          BY <2>2, <3>1, <4>1
      <3>3. pc'[q] = "pushExpire" => redis'[cur'[q]] = own[q][cur'[q]]
        BY <1>a, <1>4, <2>2, <3>1, <3>2
      <3>4. ASSUME NEW j \in Keys, own[q][j] # None
            PROVE  redis'[j] = redis[j]
        BY <1>4, <3>1, <3>4
      <3>5. QED
        BY <2>2, <3>1, <3>3, <3>4
    <2>5. QED
      BY <2>3, <2>4
  <1>8. QED
    BY <1>5, <1>6, <1>7 DEF Coherent

\* The same of a request that has not written yet and reads nothing.
LEMMA IdleCoherent ==
    ASSUME TypeOK, Coherent, NEW p \in Procs,
           UNCHANGED <<redis, committed, own, snap>>, OthersStay(p),
           pc'[p] \notin {"fill", "pushExpire"},
           \A k \in Keys : own[p][k] = None
    PROVE  Coherent'
  <1>1. \A k \in Keys : snap'[p][k] \in {None, snap[p][k], committed[k]}
    OBVIOUS
  <1>2. QED
    BY <1>1, QuietCoherent

\* Every step keeps the cache coherent.
LEMMA CoherentStep ==
    WholeSavesOnly /\ TypeInv /\ LockInv /\ Phases /\ NothingPurged /\ Coherent
        /\ [Next]_vars => Coherent'
  <1> SUFFICES ASSUME WholeSavesOnly, TypeInv, LockInv, Phases, NothingPurged,
                      Coherent, [Next]_vars
               PROVE  Coherent'
    OBVIOUS
  <1>a. TypeOK
    BY DEF TypeInv
  <1>b. \A q \in Procs, j \in Keys : ~tx[q] => own[q][j] = None
    BY <1>a DEF LockInv, HoldersAreOpen, WritersAreAlone, TypeOK
  <1>c. \A q \in Procs, j \in Keys : Ready(q) => own[q][j] = None
    BY DEF Ready, WholeSavesOnly, PlainRequests, Phases
  <1>d. \A q \in Procs, j \in Keys :
            pc[q] \in {"select", "lock", "fill", "expire"} => own[q][j] = None
    BY DEF Phases
  <1> USE <1>a DEF TypeOK, OthersStay, Goto, dbVars, redisVars,
              txVars, storeVars, planVars, writeVars
  <1>1. ASSUME NEW p \in Procs, StartTransaction(p)
       PROVE  Coherent'
    <2>1. \A j \in Keys : own[p][j] = None
      BY <1>1, <1>b DEF StartTransaction
    <2>2. /\ UNCHANGED <<redis, committed, own, snap>> /\ OthersStay(p)
          /\ pc'[p] \notin {"fill", "pushExpire"}
      BY <1>1 DEF StartTransaction, FreshManager
    <2>3. QED
      BY <2>1, <2>2, IdleCoherent
  <1>2. ASSUME NEW p \in Procs, EndRequest(p)
       PROVE  Coherent'
    <2>1. \A j \in Keys : own[p][j] = None
      BY <1>2, <1>b DEF EndRequest
    <2>2. /\ UNCHANGED <<redis, committed, own, snap>> /\ OthersStay(p)
          /\ pc'[p] \notin {"fill", "pushExpire"}
      BY <1>2 DEF EndRequest, FreshManager
    <2>3. QED
      BY <2>1, <2>2, IdleCoherent
  <1>3. ASSUME NEW p \in Procs, Commit(p)
       PROVE  Coherent'
    BY <1>3, CommitCoherent
  <1>4. ASSUME NEW p \in Procs, WriteEnd(p)
       PROVE  Coherent'
    <2>1. \A j \in Keys : own[p][j] = None
      BY <1>4, <1>b DEF WriteEnd, Phases
    <2>2. /\ UNCHANGED <<redis, committed, own, snap>> /\ OthersStay(p)
          /\ pc'[p] \notin {"fill", "pushExpire"}
      BY <1>4 DEF WriteEnd, FreshManager, DelEntries, NothingPurged
    <2>3. QED
      BY <2>1, <2>2, IdleCoherent
  <1>5. ASSUME NEW p \in Procs, Rollback(p)
       PROVE  Coherent'
    BY <1>5, RollbackCoherent DEF WholeSavesOnly
  <1>6. ASSUME NEW p \in Procs, Fault(p)
       PROVE  Coherent'
    BY <1>6 DEF Fault, WholeSavesOnly, PlainRequests
  <1>7. ASSUME NEW p \in Procs, NEW k \in Keys, Get(p, k)
       PROVE  Coherent'
    <2>1. \A j \in Keys : own[p][j] = None
      BY <1>7, <1>b DEF Get, ReadsRedis
    <2>2. /\ UNCHANGED <<redis, committed, own, snap, saved>>
          /\ pc[p] = "app" /\ pc'[p] \in {"app", "select"}
      BY <1>7 DEF Get, Ready
    <2>3. OthersStay(p)
      BY <1>7, <2>2 DEF Get, Keep
    <2>4. QED
      BY <2>1, <2>2, <2>3, IdleCoherent
  <1>8. ASSUME NEW p \in Procs, NEW k \in Keys, TxGet(p, k)
       PROVE  Coherent'
    <2>1. \A j \in Keys : own[p][j] = None
      BY <1>8, <1>c DEF TxGet
    <2>2. /\ UNCHANGED <<redis, committed, own, snap>> /\ OthersStay(p)
          /\ pc'[p] \notin {"fill", "pushExpire"}
      BY <1>8 DEF TxGet, Ready
    <2>3. QED
      BY <2>1, <2>2, IdleCoherent
  <1>9. ASSUME NEW p \in Procs, NEW k \in Keys, GetForUpdate(p, k)
       PROVE  Coherent'
    <2>1. \A j \in Keys : own[p][j] = None
      BY <1>9, <1>c DEF GetForUpdate
    <2>2. /\ UNCHANGED <<redis, committed, own, snap>> /\ OthersStay(p)
          /\ pc'[p] \notin {"fill", "pushExpire"}
      BY <1>9 DEF GetForUpdate, Ready
    <2>3. QED
      BY <2>1, <2>2, IdleCoherent
  <1>10. ASSUME NEW p \in Procs, Select(p)
       PROVE  Coherent'
    <2> DEFINE k == cur[p]
    <2>1. /\ UNCHANGED <<redis, committed, own, saved, cur>> /\ OthersStay(p)
          /\ k \in Keys /\ \A j \in Keys : own[p][j] = None
      BY <1>10, <1>d DEF Select, Keep
    <2>2. \A j \in Keys : snap'[p][j] \in {snap[p][j], committed[j]}
      BY <1>10 DEF Select
    <2>3. pc'[p] = "app" \/ (/\ pc'[p] = "fill" /\ Visible(p, k) # Absent
                             /\ store'[p][k] = Visible(p, k))
      BY <1>10 DEF Select, Keep
    <2>4. redis[k] = Absent => Visible(p, k) \in {Absent, committed[k]}
      BY <2>1 DEF Visible, Coherent, ReadsAreCurrent
    <2>5. QED
      BY <2>1, <2>2, <2>3, <2>4, QuietCoherent
  <1>11. ASSUME NEW p \in Procs, SelectForUpdate(p)
       PROVE  Coherent'
    <2> DEFINE k == cur[p]
    <2>1. /\ UNCHANGED <<redis, committed, own, snap, saved, cur>> /\ OthersStay(p)
          /\ k \in Keys /\ \A j \in Keys : own[p][j] = None
      BY <1>11, <1>d DEF SelectForUpdate, Keep
    <2>2. pc'[p] = "app" \/ (pc'[p] = "fill" /\ store'[p][k] = Latest(p, k))
      BY <1>11 DEF SelectForUpdate, Keep
    <2>3. Latest(p, k) = committed[k]
      BY <2>1 DEF Latest
    <2>4. QED
      BY <2>1, <2>2, <2>3, QuietCoherent
  <1>12. ASSUME NEW p \in Procs, LockWaitEnds(p)
       PROVE  Coherent'
    <2>1. /\ UNCHANGED <<redis, committed, own, snap, saved>> /\ OthersStay(p)
          /\ pc[p] \in {"lock", "write"} /\ pc'[p] = "failed"
      BY <1>12 DEF LockWaitEnds
    <2>2. ~Pushing(p)
      BY <2>1 DEF Pushing
    <2>3. QED
      BY <2>1, <2>2, QuietCoherent
  <1>13. ASSUME NEW p \in Procs, Fill(p)
       PROVE  Coherent'
    BY <1>13, FillCoherent
  <1>14. ASSUME NEW p \in Procs, FillExpire(p)
       PROVE  Coherent'
    <2>1. \A j \in Keys : own[p][j] = None
      BY <1>14, <1>d DEF FillExpire
    <2>2. /\ UNCHANGED <<redis, committed, own, snap>> /\ OthersStay(p)
          /\ pc'[p] \notin {"fill", "pushExpire"}
      BY <1>14 DEF FillExpire, ExpireEntry
    <2>3. QED
      BY <2>1, <2>2, IdleCoherent
  <1>15. ASSUME NEW p \in Procs, NEW k \in Keys, NEW kind \in Kinds,
                SetSave(p, k, kind)
       PROVE  Coherent'
    <2>1. \A j \in Keys : own[p][j] = None
      BY <1>15, <1>c DEF SetSave
    <2>2. /\ UNCHANGED <<redis, committed, own, snap>> /\ OthersStay(p)
          /\ pc'[p] \notin {"fill", "pushExpire"}
      BY <1>15 DEF SetSave, Ready
    <2>3. QED
      BY <2>1, <2>2, IdleCoherent
  <1>16. ASSUME NEW p \in Procs, NEW k \in Keys, SetForceDelete(p, k)
       PROVE  Coherent'
    BY <1>16 DEF SetForceDelete, WholeSavesOnly, PlainRequests
  <1>17. ASSUME NEW p \in Procs, WriteAll(p)
       PROVE  Coherent'
    <2>1. \A j \in Keys : own[p][j] = None
      BY <1>17, <1>c DEF WriteAll
    <2>2. /\ UNCHANGED <<redis, committed, own, snap>> /\ OthersStay(p)
          /\ pc'[p] \notin {"fill", "pushExpire"}
      BY <1>17 DEF WriteAll, Ready
    <2>3. QED
      BY <2>1, <2>2, IdleCoherent
  <1>18. ASSUME NEW p \in Procs, NEW k \in Keys, WriteInsert(p, k)
       PROVE  Coherent'
    <2>1. /\ AtRow(p, k) /\ WriteRow(p, k, image[p])
          /\ UNCHANGED saved /\ Latest(p, k) = Absent
      BY <1>18 DEF WriteInsert
    <2>2. committed[k] = Absent
      BY <2>1, WriterIsAlone DEF Latest
    <2>3. QED
      BY <2>1, <2>2, WriteRowCoherent
  <1>19. ASSUME NEW p \in Procs, NEW k \in Keys, DuplicateEntry(p, k)
       PROVE  Coherent'
    <2>1. /\ UNCHANGED <<redis, committed, own, snap, saved>> /\ OthersStay(p)
          /\ pc[p] \in {"lock", "write"} /\ pc'[p] = "failed"
      BY <1>19 DEF DuplicateEntry, AtRow
    <2>2. ~Pushing(p)
      BY <2>1 DEF Pushing
    <2>3. QED
      BY <2>1, <2>2, QuietCoherent
  <1>20. ASSUME NEW p \in Procs, NEW k \in Keys, WriteSave(p, k)
       PROVE  Coherent'
    <2>1. /\ AtRow(p, k) /\ WriteRow(p, k, image[p])
          /\ saved' = [saved EXCEPT ![p] = @ \cup {k}]
      BY <1>20 DEF WriteSave
    <2>2. QED
      BY <2>1, WriteRowCoherent
  <1>20a. ASSUME NEW p \in Procs, NEW k \in Keys, SaveMisses(p, k)
       PROVE  Coherent'
    <2>1. /\ UNCHANGED <<redis, committed, own, snap, saved, pc>> /\ OthersStay(p)
          /\ pc[p] = "write"
      BY <1>20a DEF SaveMisses, AtRow
    <2>2. QED
      BY <2>1, QuietCoherent DEF Pushing
  <1>21. ASSUME NEW p \in Procs, NEW k \in Keys, WriteUpdate(p, k)
       PROVE  Coherent'
    BY <1>21 DEF WriteUpdate, AtRow, NothingPurged
  <1>22. ASSUME NEW p \in Procs, NEW k \in Keys, WriteDelete(p, k)
       PROVE  Coherent'
    BY <1>22 DEF WriteDelete, AtRow, NothingPurged
  <1>23. ASSUME NEW p \in Procs, NEW k \in Keys, PushSaved(p, k)
       PROVE  Coherent'
    BY <1>23, PushSavedCoherent
  <1>24. ASSUME NEW p \in Procs, PushExpire(p)
       PROVE  Coherent'
    <2>1. /\ UNCHANGED <<redis, committed, own, snap>> /\ OthersStay(p)
          /\ pc'[p] \in {"push", "purge", "app"}
      BY <1>24 DEF PushExpire, ExpireEntry
    <2>2. Pushing(p)'
      BY <2>1 DEF Pushing
    <2>3. \A j \in saved[p] \ saved'[p] : redis[j] = own[p][j]
      BY <1>24 DEF PushExpire, Coherent, WritesArePushed
    <2>4. QED
      BY <2>1, <2>2, <2>3, QuietCoherent
  <1>25. ASSUME NEW p \in Procs, PurgeUpdated(p)
       PROVE  Coherent'
    <2>1. /\ UNCHANGED <<redis, committed, own, snap>> /\ OthersStay(p)
          /\ pc'[p] \in {"push", "purge", "app"}
      BY <1>25 DEF PurgeUpdated, DelEntries, NothingPurged
    <2>2. Pushing(p)'
      BY <2>1 DEF Pushing
    <2>3. \A j \in saved[p] \ saved'[p] : redis[j] = own[p][j]
      BY <1>25 DEF PurgeUpdated
    <2>4. QED
      BY <2>1, <2>2, <2>3, QuietCoherent
  <1>26. ASSUME NEW p \in Procs, PurgeDeleted(p)
       PROVE  Coherent'
    <2>1. /\ UNCHANGED <<redis, committed, own, snap>> /\ OthersStay(p)
          /\ pc'[p] \in {"push", "purge", "app"}
      BY <1>26 DEF PurgeDeleted, DelEntries, NothingPurged
    <2>2. Pushing(p)'
      BY <2>1 DEF Pushing
    <2>3. \A j \in saved[p] \ saved'[p] : redis[j] = own[p][j]
      BY <1>26 DEF PurgeDeleted
    <2>4. QED
      BY <2>1, <2>2, <2>3, QuietCoherent
  <1>27. ASSUME NEW k \in Keys, Age(k)
       PROVE  Coherent'
    BY <1>27 DEF Age, WholeSavesOnly, PlainRequests
  <1>28. ASSUME NEW k \in Keys, Expire(k)
       PROVE  Coherent'
    BY <1>28 DEF Expire, WholeSavesOnly, PlainRequests
  <1>29. CASE UNCHANGED vars
    BY <1>29 DEF vars, Coherent, ReadsAreCurrent, EntriesAreCommitted,
       WritesArePushed, Pushing
  <1>30. QED
    BY <1>1, <1>2, <1>3, <1>4, <1>5, <1>6, <1>7, <1>8, <1>9, <1>10, <1>11,
       <1>12, <1>13, <1>14, <1>15, <1>16, <1>17, <1>18, <1>19, <1>20, <1>20a,
       <1>21, <1>22, <1>23, <1>24, <1>25, <1>26, <1>27, <1>28, <1>29 DEF Next,
       Application, Continue

\* The inductive invariant of WholeSavesOnly.
WholeSavesInv == TypeInv /\ LockInv /\ Phases /\ NothingPurged /\ Coherent

\* It holds of the first state and no step breaks it.
LEMMA WholeSavesInvariant == WholeSavesOnly => (Spec => []WholeSavesInv)
  <1> SUFFICES ASSUME WholeSavesOnly PROVE Spec => []WholeSavesInv
    OBVIOUS
  <1>1. Init => WholeSavesInv
    <2>1. Init => Phases
      BY DEF Init, Phases, NoRows
    <2>2. Init => NothingPurged
      BY DEF Init, NothingPurged, NoPlan
    <2>3. Init => Coherent
      BY DEF Init, Coherent, ReadsAreCurrent, EntriesAreCommitted, WritesArePushed,
         NoRows
    <2>4. QED
      BY TypeInit, LockInit, <2>1, <2>2, <2>3 DEF WholeSavesInv
  <1>2. WholeSavesInv /\ [Next]_vars => WholeSavesInv'
    BY TypeStep, LockStep, PhaseStep, PlanStep, CoherentStep
    DEF WholeSavesInv, TypeInv, WholeSavesOnly
  <1>3. QED
    BY <1>1, <1>2, PTL DEF Spec

\* With nothing but saves of whole models, Redis shows the committed row of every
\* key that nobody has locked, or nothing: SET under the row lock beats every SETNX
\* of what was read before.
THEOREM SavesKeepCacheCoherent ==
    WholeSavesOnly => (Spec => []CoherentWhenUnlocked)
  <1> SUFFICES ASSUME WholeSavesOnly PROVE Spec => []CoherentWhenUnlocked
    OBVIOUS
  <1>1. WholeSavesInv => CoherentWhenUnlocked
    <2> SUFFICES ASSUME WholeSavesInv, NEW k \in Keys, locks[k] = {}, redis[k] # Absent
                 PROVE  redis[k] = committed[k]
      BY DEF CoherentWhenUnlocked
    <2>1. \A p \in Procs : own[p][k] = None
      BY DEF WholeSavesInv, LockInv, WritersAreAlone
    <2>2. QED
      BY <2>1 DEF WholeSavesInv, Coherent, EntriesAreCommitted
  <1>2. QED
    BY <1>1, WholeSavesInvariant, PTL

\* The other discipline: models are only read with their lock.  Then rows may be
\* updated and deleted too, and entries may expire at any time.
LockedReadsOnly == PlainRequests /\ Allowed \cap {"get", "txGet"} = {}

\* One request: what is filled is locked, and WriteAll's lists are empty outside it.
LockedPhases ==
    \A p \in Procs :
        /\ pc[p] # "select"
        /\ pc[p] = "fill" => cur[p] \in locked[p]
        /\ pc[p] \notin {"write", "push", "pushExpire", "purge", "failed"}
               => updated[p] = {} /\ deleted[p] = {}

\* Every step keeps it.
LEMMA LockedPhaseStep ==
    LockedReadsOnly /\ TypeOK /\ LockedPhases /\ [Next]_vars => LockedPhases'
  <1> SUFFICES ASSUME LockedReadsOnly, TypeOK, LockedPhases, [Next]_vars
               PROVE  LockedPhases'
    OBVIOUS
  <1> USE DEF TypeOK, LockedPhases, Goto, dbVars, redisVars, txVars,
              storeVars, planVars, writeVars
  <1>1. ASSUME NEW p \in Procs, StartTransaction(p)
       PROVE  LockedPhases'
    BY <1>1 DEF StartTransaction, FreshManager
  <1>2. ASSUME NEW p \in Procs, EndRequest(p)
       PROVE  LockedPhases'
    BY <1>2 DEF EndRequest, FreshManager
  <1>3. ASSUME NEW p \in Procs, Commit(p)
       PROVE  LockedPhases'
    BY <1>3 DEF Commit, EndTransaction, Latest
  <1>4. ASSUME NEW p \in Procs, WriteEnd(p)
       PROVE  LockedPhases'
    BY <1>4 DEF WriteEnd, DelEntries, FreshManager
  <1>5. ASSUME NEW p \in Procs, Rollback(p)
       PROVE  LockedPhases'
    BY <1>5 DEF Rollback, FreshManager
  <1>6. ASSUME NEW p \in Procs, Fault(p)
       PROVE  LockedPhases'
    BY <1>6 DEF Fault, LockedReadsOnly, PlainRequests
  <1>7. ASSUME NEW p \in Procs, NEW k \in Keys, Get(p, k)
       PROVE  LockedPhases'
    BY <1>7 DEF Get, LockedReadsOnly
  <1>8. ASSUME NEW p \in Procs, NEW k \in Keys, TxGet(p, k)
       PROVE  LockedPhases'
    BY <1>8 DEF TxGet, LockedReadsOnly
  <1>9. ASSUME NEW p \in Procs, NEW k \in Keys, GetForUpdate(p, k)
       PROVE  LockedPhases'
    BY <1>9 DEF GetForUpdate, Ready
  <1>10. ASSUME NEW p \in Procs, Select(p)
       PROVE  LockedPhases'
    BY <1>10 DEF Select, Keep
  <1>11. ASSUME NEW p \in Procs, SelectForUpdate(p)
       PROVE  LockedPhases'
    BY <1>11 DEF SelectForUpdate, Keep
  <1>12. ASSUME NEW p \in Procs, LockWaitEnds(p)
       PROVE  LockedPhases'
    BY <1>12 DEF LockWaitEnds
  <1>13. ASSUME NEW p \in Procs, Fill(p)
       PROVE  LockedPhases'
    BY <1>13 DEF Fill, SetNxEntry, SetEntry
  <1>14. ASSUME NEW p \in Procs, FillExpire(p)
       PROVE  LockedPhases'
    BY <1>14 DEF FillExpire, ExpireEntry
  <1>15. ASSUME NEW p \in Procs, NEW k \in Keys, NEW kind \in Kinds,
                SetSave(p, k, kind)
       PROVE  LockedPhases'
    BY <1>15 DEF SetSave, Ready
  <1>16. ASSUME NEW p \in Procs, NEW k \in Keys, SetForceDelete(p, k)
       PROVE  LockedPhases'
    BY <1>16 DEF SetForceDelete, Ready
  <1>17. ASSUME NEW p \in Procs, WriteAll(p)
       PROVE  LockedPhases'
    BY <1>17 DEF WriteAll, Ready
  <1>18. ASSUME NEW p \in Procs, NEW k \in Keys, WriteInsert(p, k)
       PROVE  LockedPhases'
    <2>1. PICK v : AtRow(p, k) /\ WriteRow(p, k, v)
      BY <1>18 DEF WriteInsert
    <2>2. /\ \A q \in Procs \ {p} : /\ pc'[q] = pc[q] /\ cur'[q] = cur[q]
                                    /\ locked'[q] = locked[q]
          /\ pc'[p] \in {"write", "push"}
      BY <2>1 DEF WriteRow, AtRow
    <2>3. \A q \in Procs \ {p} : updated'[q] = updated[q] /\ deleted'[q] = deleted[q]
      BY <1>18 DEF WriteInsert
    <2>4. QED
      BY <2>2, <2>3
  <1>19. ASSUME NEW p \in Procs, NEW k \in Keys, DuplicateEntry(p, k)
       PROVE  LockedPhases'
    BY <1>19 DEF DuplicateEntry, AtRow
  <1>20. ASSUME NEW p \in Procs, NEW k \in Keys, WriteSave(p, k)
       PROVE  LockedPhases'
    <2>1. PICK v : AtRow(p, k) /\ WriteRow(p, k, v)
      BY <1>20 DEF WriteSave
    <2>2. /\ \A q \in Procs \ {p} : /\ pc'[q] = pc[q] /\ cur'[q] = cur[q]
                                    /\ locked'[q] = locked[q]
          /\ pc'[p] \in {"write", "push"}
      BY <2>1 DEF WriteRow, AtRow
    <2>3. \A q \in Procs \ {p} : updated'[q] = updated[q] /\ deleted'[q] = deleted[q]
      BY <1>20 DEF WriteSave
    <2>4. QED
      BY <2>2, <2>3
  <1>20a. ASSUME NEW p \in Procs, NEW k \in Keys, SaveMisses(p, k)
       PROVE  LockedPhases'
    BY <1>20a DEF SaveMisses
  <1>21. ASSUME NEW p \in Procs, NEW k \in Keys, WriteUpdate(p, k)
       PROVE  LockedPhases'
    <2>1. PICK v : AtRow(p, k) /\ WriteRow(p, k, v)
      BY <1>21 DEF WriteUpdate
    <2>2. /\ \A q \in Procs \ {p} : /\ pc'[q] = pc[q] /\ cur'[q] = cur[q]
                                    /\ locked'[q] = locked[q]
          /\ pc'[p] \in {"write", "push"}
      BY <2>1 DEF WriteRow, AtRow
    <2>3. \A q \in Procs \ {p} : updated'[q] = updated[q] /\ deleted'[q] = deleted[q]
      BY <1>21 DEF WriteUpdate
    <2>4. QED
      BY <2>2, <2>3
  <1>22. ASSUME NEW p \in Procs, NEW k \in Keys, WriteDelete(p, k)
       PROVE  LockedPhases'
    <2>1. PICK v : AtRow(p, k) /\ WriteRow(p, k, v)
      BY <1>22 DEF WriteDelete
    <2>2. /\ \A q \in Procs \ {p} : /\ pc'[q] = pc[q] /\ cur'[q] = cur[q]
                                    /\ locked'[q] = locked[q]
          /\ pc'[p] \in {"write", "push"}
      BY <2>1 DEF WriteRow, AtRow
    <2>3. \A q \in Procs \ {p} : updated'[q] = updated[q] /\ deleted'[q] = deleted[q]
      BY <1>22 DEF WriteDelete
    <2>4. QED
      BY <2>2, <2>3
  <1>23. ASSUME NEW p \in Procs, NEW k \in Keys, PushSaved(p, k)
       PROVE  LockedPhases'
    BY <1>23 DEF PushSaved, SetEntry
  <1>24. ASSUME NEW p \in Procs, PushExpire(p)
       PROVE  LockedPhases'
    BY <1>24 DEF PushExpire, ExpireEntry
  <1>25. ASSUME NEW p \in Procs, PurgeUpdated(p)
       PROVE  LockedPhases'
    BY <1>25 DEF PurgeUpdated, DelEntries
  <1>26. ASSUME NEW p \in Procs, PurgeDeleted(p)
       PROVE  LockedPhases'
    BY <1>26 DEF PurgeDeleted, DelEntries, ToInvalidate
  <1>27. ASSUME NEW k \in Keys, Age(k)
       PROVE  LockedPhases'
    BY <1>27 DEF Age
  <1>28. ASSUME NEW k \in Keys, Expire(k)
       PROVE  LockedPhases'
    BY <1>28 DEF Expire, DelEntries
  <1>29. CASE UNCHANGED vars
    BY <1>29 DEF vars
  <1>30. QED
    BY <1>1, <1>2, <1>3, <1>4, <1>5, <1>6, <1>7, <1>8, <1>9, <1>10, <1>11,
       <1>12, <1>13, <1>14, <1>15, <1>16, <1>17, <1>18, <1>19, <1>20, <1>20a,
       <1>21, <1>22, <1>23, <1>24, <1>25, <1>26, <1>27, <1>28, <1>29 DEF Next,
       Application, Continue

\* The entry of a row that p wrote may still show the row as it was.
Due(p, k) == \/ k \in saved[p] \cup deleted[p]
             \/ k \in updated[p] /\ pc[p] # "purge"

\* A row written but not committed is not cached, or cached as written, or WriteAll
\* will still see to it.
WritesReachRedis ==
    \A p \in Procs :
        /\ pc[p] = "pushExpire" => /\ own[p][cur[p]] # None
                                   /\ redis[cur[p]] \in {Absent, own[p][cur[p]]}
        /\ \A k \in Keys : own[p][k] # None =>
               \/ redis[k] = Absent
               \/ Pushing(p) /\ redis[k] = own[p][k]
               \/ Due(p, k) /\ redis[k] = committed[k]

Settled == EntriesAreCommitted /\ WritesReachRedis

\* q does not move.
Stays(q) == /\ pc'[q] = pc[q] /\ cur'[q] = cur[q] /\ saved'[q] = saved[q]
            /\ updated'[q] = updated[q] /\ deleted'[q] = deleted[q]

\* A step that changes no row and at most takes entries out of Redis may take a model
\* off WriteAll's lists once that is done for it.
LEMMA QuietSettled ==
    ASSUME TypeOK, Settled, UNCHANGED <<committed, own>>,
           \A k \in Keys : redis'[k] \in {Absent, redis[k]},
           \A q \in Procs :
               \/ Stays(q)
               \/ pc'[q] # "pushExpire" /\ \A k \in Keys : own[q][k] = None
               \/ /\ pc'[q] # "pushExpire"
                  /\ Pushing(q) => Pushing(q)'
                  /\ \A k \in Keys :
                        \/ Due(q, k) => Due(q, k)'
                        \/ redis'[k] = Absent
                        \/ Pushing(q)' /\ redis[k] = own[q][k]
    PROVE  Settled'
  <1> USE DEF TypeOK
  <1>1. EntriesAreCommitted'
    BY DEF Settled, EntriesAreCommitted
  <1>2. WritesReachRedis'
    <2>1. SUFFICES ASSUME NEW q \in Procs
          PROVE  /\ pc'[q] = "pushExpire" =>
                        /\ own[q][cur'[q]] # None
                        /\ redis'[cur'[q]] \in {Absent, own[q][cur'[q]]}
                 /\ \A k \in Keys : own[q][k] # None =>
                        \/ redis'[k] = Absent
                        \/ Pushing(q)' /\ redis'[k] = own[q][k]
                        \/ Due(q, k)' /\ redis'[k] = committed[k]
      BY DEF WritesReachRedis
    <2>2. /\ pc[q] = "pushExpire" => /\ own[q][cur[q]] # None
                                     /\ redis[cur[q]] \in {Absent, own[q][cur[q]]}
          /\ \A k \in Keys : own[q][k] # None =>
                 \/ redis[k] = Absent
                 \/ Pushing(q) /\ redis[k] = own[q][k]
                 \/ Due(q, k) /\ redis[k] = committed[k]
      BY DEF Settled, WritesReachRedis
    <2>3. CASE Stays(q)
      <3>1. (Pushing(q)' <=> Pushing(q)) /\ \A k \in Keys : Due(q, k)' <=> Due(q, k)
        BY <2>3 DEF Stays, Pushing, Due
      <3>2. QED
        BY <2>2, <2>3, <3>1 DEF Stays
    <2>4. CASE pc'[q] # "pushExpire" /\ \A k \in Keys : own[q][k] = None
      BY <2>4
    <2>5. CASE /\ pc'[q] # "pushExpire"
               /\ Pushing(q) => Pushing(q)'
               /\ \A k \in Keys :
                     \/ Due(q, k) => Due(q, k)'
                     \/ redis'[k] = Absent
                     \/ Pushing(q)' /\ redis[k] = own[q][k]
      <3> SUFFICES ASSUME NEW k \in Keys, own[q][k] # None
                   PROVE  \/ redis'[k] = Absent
                          \/ Pushing(q)' /\ redis'[k] = own[q][k]
                          \/ Due(q, k)' /\ redis'[k] = committed[k]
        BY <2>5
      <3>1. QED
        BY <2>2, <2>5
    <2>6. QED
      BY <2>3, <2>4, <2>5
  <1>3. QED
    BY <1>1, <1>2 DEF Settled

\* COMMIT installs what Redis shows already, or nothing is cached.
LEMMA CommitSettled ==
    ASSUME TypeInv, LockInv, LockedPhases, Settled, NEW p \in Procs, Commit(p)
    PROVE  Settled'
  <1> USE DEF TypeOK
  <1>1. TypeOK /\ saved[p] = {} /\ updated[p] = {} /\ deleted[p] = {}
    BY DEF TypeInv, Pending, Commit, LockedPhases
  <1>2. /\ UNCHANGED redis /\ pc'[p] = "writeEnd"
        /\ \A k \in Keys : own'[p][k] = None
        /\ \A k \in Keys : committed'[k] = Latest(p, k)
        /\ \A q \in Procs \ {p} : Stays(q) /\ own'[q] = own[q]
    BY <1>1 DEF Commit, EndTransaction, NoRows, Goto, Stays, redisVars, writeVars
  <1>3. ASSUME NEW k \in Keys, own[p][k] = None
        PROVE  committed'[k] = committed[k]
    BY <1>2, <1>3 DEF Latest
  <1>4. ASSUME NEW k \in Keys, own[p][k] # None
        PROVE  /\ redis[k] \in {Absent, committed'[k]}
               /\ \A q \in Procs \ {p} : own[q][k] = None
    <2>1. committed'[k] = own[p][k]
      BY <1>2, <1>4 DEF Latest
    <2>2. redis[k] \in {Absent, own[p][k]}
      BY <1>1, <1>4 DEF Settled, WritesReachRedis, Due
    <2>3. \A q \in Procs \ {p} : own[q][k] = None
      BY <1>4 DEF LockInv, WritersAreAlone
    <2>4. QED
      BY <2>1, <2>2, <2>3
  <1>5. EntriesAreCommitted'
    <2>1. SUFFICES ASSUME NEW k \in Keys, redis[k] # Absent,
                          \A q \in Procs : own'[q][k] = None
                   PROVE  redis[k] = committed'[k]
      BY <1>2 DEF EntriesAreCommitted
    <2>2. CASE own[p][k] = None
      <3>1. \A q \in Procs : own[q][k] = None
        BY <1>2, <2>1, <2>2
      <3>2. QED
        BY <1>3, <2>1, <2>2, <3>1 DEF Settled, EntriesAreCommitted
    <2>3. CASE own[p][k] # None
      BY <1>4, <2>1, <2>3
    <2>4. QED
      BY <2>2, <2>3
  <1>6. WritesReachRedis'
    <2>1. SUFFICES ASSUME NEW q \in Procs
          PROVE  /\ pc'[q] = "pushExpire" =>
                        /\ own'[q][cur'[q]] # None
                        /\ redis[cur'[q]] \in {Absent, own'[q][cur'[q]]}
                 /\ \A k \in Keys : own'[q][k] # None =>
                        \/ redis[k] = Absent
                        \/ Pushing(q)' /\ redis[k] = own'[q][k]
                        \/ Due(q, k)' /\ redis[k] = committed'[k]
      BY <1>2 DEF WritesReachRedis
    <2>2. CASE q = p
      BY <1>2, <2>2
    <2>3. CASE q # p
      <3>1. /\ own'[q] = own[q] /\ pc'[q] = pc[q] /\ cur'[q] = cur[q]
            /\ (Pushing(q)' <=> Pushing(q)) /\ \A k \in Keys : Due(q, k)' <=> Due(q, k)
        BY <1>2, <2>3 DEF Stays, Pushing, Due
      <3>2. \A k \in Keys : own[q][k] # None => committed'[k] = committed[k]
        BY <1>3, <1>4, <2>3
      <3>3. QED
        BY <3>1, <3>2 DEF Settled, WritesReachRedis
    <2>4. QED
      BY <2>2, <2>3
  <1>7. QED
    BY <1>5, <1>6 DEF Settled

\* A failed operation has put nothing into Redis, so ROLLBACK leaves nothing behind.
LEMMA RollbackSettled ==
    ASSUME PlainRequests, TypeOK, Settled, NEW p \in Procs, Rollback(p)
    PROVE  Settled'
  <1> USE DEF TypeOK
  <1>1. /\ pc[p] = "failed" /\ pc'[p] = "app" /\ UNCHANGED <<redis, committed>>
        /\ \A k \in Keys : own'[p][k] = None
        /\ \A q \in Procs \ {p} : Stays(q) /\ own'[q] = own[q]
    BY DEF Rollback, EndTransaction, FreshManager, NoRows, Goto, Stays, redisVars,
       PlainRequests
  <1>2. \A k \in Keys : own[p][k] # None => redis[k] \in {Absent, committed[k]}
    BY <1>1 DEF Settled, WritesReachRedis, Pushing
  <1>3. EntriesAreCommitted'
    <2>1. SUFFICES ASSUME NEW k \in Keys, redis[k] # Absent,
                          \A q \in Procs : own'[q][k] = None
                   PROVE  redis[k] = committed[k]
      BY <1>1 DEF EntriesAreCommitted
    <2>2. CASE own[p][k] = None
      <3>1. \A q \in Procs : own[q][k] = None
        BY <1>1, <2>1, <2>2
      <3>2. QED
        BY <2>1, <3>1 DEF Settled, EntriesAreCommitted
    <2>3. CASE own[p][k] # None
      BY <1>2, <2>1, <2>3
    <2>4. QED
      BY <2>2, <2>3
  <1>4. WritesReachRedis'
    <2>1. SUFFICES ASSUME NEW q \in Procs
          PROVE  /\ pc'[q] = "pushExpire" =>
                        /\ own'[q][cur'[q]] # None
                        /\ redis[cur'[q]] \in {Absent, own'[q][cur'[q]]}
                 /\ \A k \in Keys : own'[q][k] # None =>
                        \/ redis[k] = Absent
                        \/ Pushing(q)' /\ redis[k] = own'[q][k]
                        \/ Due(q, k)' /\ redis[k] = committed[k]
      BY <1>1 DEF WritesReachRedis
    <2>2. CASE q = p
      BY <1>1, <2>2
    <2>3. CASE q # p
      <3>1. /\ own'[q] = own[q] /\ pc'[q] = pc[q] /\ cur'[q] = cur[q]
            /\ (Pushing(q)' <=> Pushing(q)) /\ \A k \in Keys : Due(q, k)' <=> Due(q, k)
        BY <1>1, <2>3 DEF Stays, Pushing, Due
      <3>2. QED
        BY <3>1 DEF Settled, WritesReachRedis
    <2>4. QED
      BY <2>2, <2>3
  <1>5. QED
    BY <1>3, <1>4 DEF Settled

\* A statement of WriteAll leaves what is cached to the steps that follow it; an
\* insert needs none.
LEMMA WriteRowSettled ==
    ASSUME TypeOK, LockInv, Phases, Settled,
           NEW p \in Procs, NEW k \in Keys, NEW v, AtRow(p, k), WriteRow(p, k, v),
           \A q \in Procs \ {p} : Stays(q),
           /\ saved[p] \subseteq saved'[p]
           /\ updated[p] \subseteq updated'[p]
           /\ deleted[p] \subseteq deleted'[p],
           k \in saved'[p] \cup updated'[p] \cup deleted'[p] \/ committed[k] = Absent
    PROVE  Settled'
  <1> USE DEF TypeOK
  <1>1. pc[p] = "write" /\ \A q \in Procs : own[q][k] = None
    BY WriterIsAlone
  <1>2. /\ UNCHANGED <<redis, committed>> /\ pc'[p] \in {"write", "push"}
        /\ own' = [own EXCEPT ![p][k] = v]
    BY <1>1 DEF WriteRow, Goto, redisVars
  <1>3. \A q \in Procs, j \in Keys : q # p \/ j # k => own'[q][j] = own[q][j]
    BY <1>2
  <1>4. EntriesAreCommitted'
    <2>1. SUFFICES ASSUME NEW j \in Keys, redis[j] # Absent,
                          \A q \in Procs : own'[q][j] = None
                   PROVE  redis[j] = committed[j]
      BY <1>2 DEF EntriesAreCommitted
    <2>2. \A q \in Procs : own[q][j] = None
      BY <1>1, <1>3, <2>1
    <2>3. QED
      BY <2>1, <2>2 DEF Settled, EntriesAreCommitted
  <1>5. WritesReachRedis'
    <2>1. SUFFICES ASSUME NEW q \in Procs
          PROVE  /\ pc'[q] = "pushExpire" =>
                        /\ own'[q][cur'[q]] # None
                        /\ redis[cur'[q]] \in {Absent, own'[q][cur'[q]]}
                 /\ \A j \in Keys : own'[q][j] # None =>
                        \/ redis[j] = Absent
                        \/ Pushing(q)' /\ redis[j] = own'[q][j]
                        \/ Due(q, j)' /\ redis[j] = committed[j]
      BY <1>2 DEF WritesReachRedis
    <2>2. /\ pc[q] = "pushExpire" => /\ own[q][cur[q]] # None
                                     /\ redis[cur[q]] \in {Absent, own[q][cur[q]]}
          /\ \A j \in Keys : own[q][j] # None =>
                 \/ redis[j] = Absent
                 \/ Pushing(q) /\ redis[j] = own[q][j]
                 \/ Due(q, j) /\ redis[j] = committed[j]
      BY DEF Settled, WritesReachRedis
    <2>3. CASE q = p
      <3>1. ~Pushing(p) /\ pc'[p] # "pushExpire" /\ pc'[p] # "purge"
        BY <1>1, <1>2 DEF Pushing
      <3>2. ASSUME NEW j \in Keys, own'[p][j] # None, redis[j] # Absent
            PROVE  Due(p, j)' /\ redis[j] = committed[j]
        <4>1. CASE j = k
          <5>1. redis[k] = committed[k]
            BY <1>1, <3>2, <4>1 DEF Settled, EntriesAreCommitted
          <5>2. QED
            BY <3>1, <3>2, <4>1, <5>1 DEF Due
        <4>2. CASE j # k
          <5>1. Due(p, j) /\ redis[j] = committed[j]
            BY <1>3, <2>2, <2>3, <3>1, <3>2, <4>2
          <5>2. QED
            BY <3>1, <5>1 DEF Due
        <4>3. QED
          BY <4>1, <4>2
      <3>3. QED
        BY <2>3, <3>1, <3>2
    <2>4. CASE q # p
      <3>1. /\ pc'[q] = pc[q] /\ cur'[q] = cur[q] /\ cur[q] \in Keys
            /\ (Pushing(q)' <=> Pushing(q)) /\ \A j \in Keys : Due(q, j)' <=> Due(q, j)
        BY <2>4 DEF Stays, Pushing, Due
      <3>2. \A j \in Keys : own'[q][j] = own[q][j]
        BY <1>3, <2>4
      <3>3. QED
        BY <2>2, <3>1, <3>2
    <2>5. QED
      BY <2>3, <2>4
  <1>6. QED
    BY <1>4, <1>5 DEF Settled

\* The SET of a saved model shows the row of the transaction that holds its lock.
LEMMA PushSavedSettled ==
    ASSUME TypeInv, LockInv, Settled, NEW p \in Procs, NEW k \in Keys, PushSaved(p, k)
    PROVE  Settled'
  <1> USE DEF TypeOK
  <1>a. TypeOK
    BY DEF TypeInv
  <1>1. own[p][k] # None /\ \A q \in Procs \ {p} : own[q][k] = None
    <2>1. own[p][k] # None
      BY DEF TypeInv, Pending, PushSaved
    <2>2. \A q \in Procs \ {p} : own[q][k] = None
      BY <2>1 DEF LockInv, WritersAreAlone
    <2>3. QED
      BY <2>1, <2>2
  <1>2. /\ UNCHANGED <<committed, own, saved, updated, deleted>>
        /\ \A q \in Procs \ {p} : Stays(q)
        /\ pc[p] = "push" /\ pc'[p] = "pushExpire" /\ cur'[p] = k
    BY <1>a DEF PushSaved, Goto, dbVars, txVars, writeVars, Stays
  <1>3. redis'[k] = own[p][k] /\ \A j \in Keys \ {k} : redis'[j] = redis[j]
    BY <1>a DEF PushSaved, SetEntry, SavedImage
  <1>4. EntriesAreCommitted'
    BY <1>1, <1>2, <1>3 DEF Settled, EntriesAreCommitted
  <1>5. WritesReachRedis'
    <2>1. SUFFICES ASSUME NEW q \in Procs
          PROVE  /\ pc'[q] = "pushExpire" =>
                        /\ own[q][cur'[q]] # None
                        /\ redis'[cur'[q]] \in {Absent, own[q][cur'[q]]}
                 /\ \A j \in Keys : own[q][j] # None =>
                        \/ redis'[j] = Absent
                        \/ Pushing(q)' /\ redis'[j] = own[q][j]
                        \/ Due(q, j)' /\ redis'[j] = committed[j]
      BY <1>2 DEF WritesReachRedis
    <2>2. /\ pc[q] = "pushExpire" => /\ own[q][cur[q]] # None
                                     /\ redis[cur[q]] \in {Absent, own[q][cur[q]]}
          /\ \A j \in Keys : own[q][j] # None =>
                 \/ redis[j] = Absent
                 \/ Pushing(q) /\ redis[j] = own[q][j]
                 \/ Due(q, j) /\ redis[j] = committed[j]
      BY DEF Settled, WritesReachRedis
    <2>3. CASE q = p
      <3>1. Pushing(p)' /\ \A j \in Keys : Due(p, j) => Due(p, j)'
        BY <1>2 DEF Pushing, Due
      <3>2. ASSUME NEW j \in Keys, own[p][j] # None
            PROVE  \/ redis'[j] = Absent
                   \/ Pushing(p)' /\ redis'[j] = own[p][j]
                   \/ Due(p, j)' /\ redis'[j] = committed[j]
        <4>1. CASE j = k
          BY <1>3, <3>1, <4>1
        <4>2. CASE j # k
          BY <1>3, <2>2, <2>3, <3>1, <3>2, <4>2
        <4>3. QED
          BY <4>1, <4>2
      <3>3. QED
        BY <1>1, <1>2, <1>3, <2>3, <3>2
    <2>4. CASE q # p
      <3>1. /\ pc'[q] = pc[q] /\ cur'[q] = cur[q] /\ cur[q] \in Keys /\ own[q][k] = None
            /\ (Pushing(q)' <=> Pushing(q)) /\ \A j \in Keys : Due(q, j)' <=> Due(q, j)
        BY <1>a, <1>1, <1>2, <2>4 DEF Stays, Pushing, Due
      <3>2. \A j \in Keys : own[q][j] # None => redis'[j] = redis[j]
        BY <1>3, <3>1
      <3>3. QED
        BY <2>2, <3>1, <3>2
    <2>5. QED
      BY <2>3, <2>4
  <1>6. QED
    BY <1>4, <1>5 DEF Settled

\* A model that was read with its lock is the committed row, and nobody is writing it.
LEMMA LockedFillIsCurrent ==
    ASSUME TypeOK, LockInv, Phases, LockedPhases, NEW p \in Procs, pc[p] = "fill"
    PROVE  /\ cur[p] \in locked[p] /\ store[p][cur[p]] = committed[cur[p]]
           /\ \A q \in Procs : own[q][cur[p]] = None
  <1> DEFINE k == cur[p]
  <1>1. /\ k \in Keys /\ k \in locked[p] /\ todo[p] = {} /\ tx[p]
        /\ own[p][k] = None
    BY DEF TypeOK, LockedPhases, Phases, LockInv, StoreSteps
  <1>2. p \in locks[k] /\ store[p][k] = committed[k]
    BY <1>1 DEF LockInv, LockedModelsAreCurrent, Latest, Unwritten
  <1>3. \A q \in Procs : own[q][k] = None
    BY <1>1, <1>2 DEF LockInv, WritersAreAlone
  <1>4. QED
    BY <1>1, <1>2, <1>3

\* The SET of a model read with its lock shows the committed row, which nobody else
\* can be writing.
LEMMA FillSettled ==
    ASSUME TypeInv, LockInv, Phases, LockedPhases, Settled, NEW p \in Procs, Fill(p)
    PROVE  Settled'
  <1> USE DEF TypeOK
  <1> DEFINE k == cur[p]
  <1>a. TypeOK
    BY DEF TypeInv
  <1>1. /\ k \in Keys /\ pc[p] = "fill" /\ pc'[p] = "expire"
        /\ UNCHANGED <<committed, own>> /\ \A j \in Keys : own[p][j] = None
    BY <1>a DEF Fill, Goto, dbVars, txVars, Phases
  <1>2. \A q \in Procs \ {p} : Stays(q)
    BY <1>a DEF Fill, Goto, writeVars, Stays
  <1>3. k \in locked[p] /\ store[p][k] = committed[k]
    BY <1>a, <1>1, LockedFillIsCurrent
  <1>4. \A q \in Procs : own[q][k] = None
    BY <1>a, <1>1, LockedFillIsCurrent
  <1>5. redis'[k] = committed[k] /\ \A j \in Keys \ {k} : redis'[j] = redis[j]
    BY <1>a, <1>1, <1>3 DEF Fill, Overwrites, SetEntry
  <1>6. EntriesAreCommitted'
    BY <1>1, <1>5 DEF Settled, EntriesAreCommitted
  <1>7. WritesReachRedis'
    <2>1. SUFFICES ASSUME NEW q \in Procs
          PROVE  /\ pc'[q] = "pushExpire" =>
                        /\ own[q][cur'[q]] # None
                        /\ redis'[cur'[q]] \in {Absent, own[q][cur'[q]]}
                 /\ \A j \in Keys : own[q][j] # None =>
                        \/ redis'[j] = Absent
                        \/ Pushing(q)' /\ redis'[j] = own[q][j]
                        \/ Due(q, j)' /\ redis'[j] = committed[j]
      BY <1>1 DEF WritesReachRedis
    <2>2. /\ pc[q] = "pushExpire" => /\ own[q][cur[q]] # None
                                     /\ redis[cur[q]] \in {Absent, own[q][cur[q]]}
          /\ \A j \in Keys : own[q][j] # None =>
                 \/ redis[j] = Absent
                 \/ Pushing(q) /\ redis[j] = own[q][j]
                 \/ Due(q, j) /\ redis[j] = committed[j]
      BY DEF Settled, WritesReachRedis
    <2>3. CASE q = p
      BY <1>1, <2>3
    <2>4. CASE q # p
      <3>1. /\ pc'[q] = pc[q] /\ cur'[q] = cur[q] /\ cur[q] \in Keys
            /\ (Pushing(q)' <=> Pushing(q)) /\ \A j \in Keys : Due(q, j)' <=> Due(q, j)
        BY <1>a, <1>2, <2>4 DEF Stays, Pushing, Due
      <3>2. \A j \in Keys : own[q][j] # None => redis'[j] = redis[j]
        BY <1>4, <1>5
      <3>3. QED
        BY <2>2, <3>1, <3>2
    <2>5. QED
      BY <2>3, <2>4
  <1>8. QED
    BY <1>6, <1>7 DEF Settled

\* The same of a step of a request that has written nothing.
LEMMA IdleSettled ==
    ASSUME TypeOK, Settled, NEW p \in Procs, UNCHANGED <<committed, own>>,
           \A k \in Keys : redis'[k] \in {Absent, redis[k]},
           \A q \in Procs \ {p} : Stays(q),
           pc'[p] # "pushExpire", \A k \in Keys : own[p][k] = None
    PROVE  Settled'
  <1>1. \A q \in Procs :
            \/ Stays(q)
            \/ pc'[q] # "pushExpire" /\ \A k \in Keys : own[q][k] = None
    OBVIOUS
  <1>2. QED
    BY <1>1, QuietSettled

\* The same of a request that is writing, or about to give up.
LEMMA BusySettled ==
    ASSUME TypeOK, Settled, NEW p \in Procs, UNCHANGED <<committed, own>>,
           \A k \in Keys : redis'[k] \in {Absent, redis[k]},
           \A q \in Procs \ {p} : Stays(q),
           pc'[p] # "pushExpire", Pushing(p) => Pushing(p)',
           \A k \in Keys : \/ Due(p, k) => Due(p, k)'
                           \/ redis'[k] = Absent
                           \/ Pushing(p)' /\ redis[k] = own[p][k]
    PROVE  Settled'
  <1>1. \A q \in Procs :
            \/ Stays(q)
            \/ /\ pc'[q] # "pushExpire"
               /\ Pushing(q) => Pushing(q)'
               /\ \A k \in Keys :
                     \/ Due(q, k) => Due(q, k)'
                     \/ redis'[k] = Absent
                     \/ Pushing(q)' /\ redis[k] = own[q][k]
    OBVIOUS
  <1>2. QED
    BY <1>1, QuietSettled

\* Every step keeps the cache settled.
LEMMA SettledStep ==
    LockedReadsOnly /\ TypeInv /\ LockInv /\ Phases /\ LockedPhases /\ Settled
        /\ [Next]_vars => Settled'
  <1> SUFFICES ASSUME LockedReadsOnly, TypeInv, LockInv, Phases, LockedPhases,
                      Settled, [Next]_vars
               PROVE  Settled'
    OBVIOUS
  <1>a. TypeOK
    BY DEF TypeInv
  <1>b. \A q \in Procs, j \in Keys : ~tx[q] => own[q][j] = None
    BY <1>a DEF LockInv, HoldersAreOpen, WritersAreAlone, TypeOK
  <1>c. \A q \in Procs, j \in Keys : Ready(q) => own[q][j] = None
    BY DEF Ready, LockedReadsOnly, PlainRequests, Phases
  <1>d. \A q \in Procs, j \in Keys :
            pc[q] \in {"select", "lock", "fill", "expire"} => own[q][j] = None
    BY DEF Phases
  <1> USE <1>a DEF TypeOK, Stays, Goto, dbVars, redisVars,
              txVars, storeVars, planVars, writeVars
  <1>1. ASSUME NEW p \in Procs, StartTransaction(p)
       PROVE  Settled'
    <2>1. \A j \in Keys : own[p][j] = None
      BY <1>1, <1>b DEF StartTransaction
    <2>2. /\ UNCHANGED <<redis, committed, own>> /\ pc'[p] # "pushExpire"
          /\ \A q \in Procs \ {p} : Stays(q)
      BY <1>1 DEF StartTransaction, FreshManager
    <2>3. QED
      BY <2>1, <2>2, IdleSettled
  <1>2. ASSUME NEW p \in Procs, EndRequest(p)
       PROVE  Settled'
    <2>1. \A j \in Keys : own[p][j] = None
      BY <1>2, <1>b DEF EndRequest
    <2>2. /\ UNCHANGED <<redis, committed, own>> /\ pc'[p] # "pushExpire"
          /\ \A q \in Procs \ {p} : Stays(q)
      BY <1>2 DEF EndRequest, FreshManager
    <2>3. QED
      BY <2>1, <2>2, IdleSettled
  <1>3. ASSUME NEW p \in Procs, Commit(p)
       PROVE  Settled'
    BY <1>3, CommitSettled
  <1>4. ASSUME NEW p \in Procs, WriteEnd(p)
       PROVE  Settled'
    <2>1. \A j \in Keys : own[p][j] = None
      BY <1>4, <1>b DEF WriteEnd, Phases
    <2>2. /\ UNCHANGED <<committed, own>> /\ pc'[p] # "pushExpire"
          /\ \A q \in Procs \ {p} : Stays(q)
      BY <1>4 DEF WriteEnd, FreshManager
    <2>3. \A k \in Keys : redis'[k] \in {Absent, redis[k]}
      BY <1>4 DEF WriteEnd, DelEntries
    <2>4. QED
      BY <2>1, <2>2, <2>3, IdleSettled
  <1>5. ASSUME NEW p \in Procs, Rollback(p)
       PROVE  Settled'
    BY <1>5, RollbackSettled DEF LockedReadsOnly
  <1>6. ASSUME NEW p \in Procs, Fault(p)
       PROVE  Settled'
    BY <1>6 DEF Fault, LockedReadsOnly, PlainRequests
  <1>7. ASSUME NEW p \in Procs, NEW k \in Keys, Get(p, k)
       PROVE  Settled'
    BY <1>7 DEF Get, LockedReadsOnly
  <1>8. ASSUME NEW p \in Procs, NEW k \in Keys, TxGet(p, k)
       PROVE  Settled'
    BY <1>8 DEF TxGet, LockedReadsOnly
  <1>9. ASSUME NEW p \in Procs, NEW k \in Keys, GetForUpdate(p, k)
       PROVE  Settled'
    <2>1. \A j \in Keys : own[p][j] = None
      BY <1>9, <1>c DEF GetForUpdate
    <2>2. /\ UNCHANGED <<redis, committed, own>> /\ pc'[p] # "pushExpire"
          /\ \A q \in Procs \ {p} : Stays(q)
      BY <1>9 DEF GetForUpdate
    <2>3. QED
      BY <2>1, <2>2, IdleSettled
  <1>10. ASSUME NEW p \in Procs, Select(p)
       PROVE  Settled'
    BY <1>10 DEF Select, LockedPhases
  <1>11. ASSUME NEW p \in Procs, SelectForUpdate(p)
       PROVE  Settled'
    <2>1. \A j \in Keys : own[p][j] = None
      BY <1>11, <1>d DEF SelectForUpdate
    <2>2. /\ UNCHANGED <<redis, committed, own>> /\ pc'[p] # "pushExpire"
          /\ \A q \in Procs \ {p} : Stays(q)
      BY <1>11 DEF SelectForUpdate
    <2>3. QED
      BY <2>1, <2>2, IdleSettled
  <1>12. ASSUME NEW p \in Procs, LockWaitEnds(p)
       PROVE  Settled'
    <2>1. /\ UNCHANGED <<redis, committed, own, saved, updated, deleted>>
          /\ \A q \in Procs \ {p} : Stays(q)
          /\ pc[p] \in {"lock", "write"} /\ pc'[p] = "failed"
      BY <1>12 DEF LockWaitEnds
    <2>2. ~Pushing(p) /\ \A k \in Keys : Due(p, k) => Due(p, k)'
      BY <2>1 DEF Pushing, Due
    <2>3. QED
      BY <2>1, <2>2, BusySettled
  <1>13. ASSUME NEW p \in Procs, Fill(p)
       PROVE  Settled'
    BY <1>13, FillSettled
  <1>14. ASSUME NEW p \in Procs, FillExpire(p)
       PROVE  Settled'
    <2>1. \A j \in Keys : own[p][j] = None
      BY <1>14, <1>d DEF FillExpire
    <2>2. /\ UNCHANGED <<redis, committed, own>> /\ pc'[p] # "pushExpire"
          /\ \A q \in Procs \ {p} : Stays(q)
      BY <1>14 DEF FillExpire, ExpireEntry
    <2>3. QED
      BY <2>1, <2>2, IdleSettled
  <1>15. ASSUME NEW p \in Procs, NEW k \in Keys, NEW kind \in Kinds,
                SetSave(p, k, kind)
       PROVE  Settled'
    <2>1. \A j \in Keys : own[p][j] = None
      BY <1>15, <1>c DEF SetSave
    <2>2. /\ UNCHANGED <<redis, committed, own>> /\ pc'[p] # "pushExpire"
          /\ \A q \in Procs \ {p} : Stays(q)
      BY <1>15 DEF SetSave, Ready
    <2>3. QED
      BY <2>1, <2>2, IdleSettled
  <1>16. ASSUME NEW p \in Procs, NEW k \in Keys, SetForceDelete(p, k)
       PROVE  Settled'
    <2>1. \A j \in Keys : own[p][j] = None
      BY <1>16, <1>c DEF SetForceDelete
    <2>2. /\ UNCHANGED <<redis, committed, own>> /\ pc'[p] # "pushExpire"
          /\ \A q \in Procs \ {p} : Stays(q)
      BY <1>16 DEF SetForceDelete, Ready
    <2>3. QED
      BY <2>1, <2>2, IdleSettled
  <1>17. ASSUME NEW p \in Procs, WriteAll(p)
       PROVE  Settled'
    <2>1. \A j \in Keys : own[p][j] = None
      BY <1>17, <1>c DEF WriteAll
    <2>2. /\ UNCHANGED <<redis, committed, own>> /\ pc'[p] # "pushExpire"
          /\ \A q \in Procs \ {p} : Stays(q)
      BY <1>17 DEF WriteAll
    <2>3. QED
      BY <2>1, <2>2, IdleSettled
  <1>18. ASSUME NEW p \in Procs, NEW k \in Keys, WriteInsert(p, k)
       PROVE  Settled'
    <2>0. Latest(p, k) = Absent /\ committed[k] = Absent
      <3>1. AtRow(p, k) /\ Latest(p, k) = Absent
        BY <1>18 DEF WriteInsert
      <3>2. QED
        BY <3>1, WriterIsAlone DEF Latest
    <2>1. PICK v : AtRow(p, k) /\ WriteRow(p, k, v)
      BY <1>18 DEF WriteInsert
    <2>2. UNCHANGED <<saved, updated, deleted>>
      BY <1>18 DEF WriteInsert
    <2>3. \A q \in Procs \ {p} : Stays(q)
      BY <2>1, <2>2 DEF WriteRow
    <2>4. QED
      BY <2>0, <2>1, <2>2, <2>3, WriteRowSettled
  <1>19. ASSUME NEW p \in Procs, NEW k \in Keys, DuplicateEntry(p, k)
       PROVE  Settled'
    <2>1. /\ UNCHANGED <<redis, committed, own, saved, updated, deleted>>
          /\ \A q \in Procs \ {p} : Stays(q)
          /\ pc[p] \in {"lock", "write"} /\ pc'[p] = "failed"
      BY <1>19 DEF DuplicateEntry, AtRow
    <2>2. ~Pushing(p) /\ \A j \in Keys : Due(p, j) => Due(p, j)'
      BY <2>1 DEF Pushing, Due
    <2>3. QED
      BY <2>1, <2>2, BusySettled
  <1>20. ASSUME NEW p \in Procs, NEW k \in Keys, WriteSave(p, k)
       PROVE  Settled'
    <2>1. PICK v : AtRow(p, k) /\ WriteRow(p, k, v)
      BY <1>20 DEF WriteSave
    <2>2. saved' = [saved EXCEPT ![p] = @ \cup {k}] /\ UNCHANGED <<updated, deleted>>
      BY <1>20 DEF WriteSave
    <2>3. \A q \in Procs \ {p} : Stays(q)
      BY <2>1, <2>2 DEF WriteRow
    <2>4. QED
      BY <2>1, <2>2, <2>3, WriteRowSettled
  <1>20a. ASSUME NEW p \in Procs, NEW k \in Keys, SaveMisses(p, k)
       PROVE  Settled'
    <2>1. UNCHANGED <<redis, committed, own>> /\ \A q \in Procs : Stays(q)
      BY <1>20a DEF SaveMisses
    <2>2. QED
      BY <2>1, QuietSettled
  <1>21. ASSUME NEW p \in Procs, NEW k \in Keys, WriteUpdate(p, k)
       PROVE  Settled'
    <2>1. PICK v : AtRow(p, k) /\ WriteRow(p, k, v)
      BY <1>21 DEF WriteUpdate
    <2>2. updated' = [updated EXCEPT ![p] = @ \cup {k}] /\ UNCHANGED <<saved, deleted>>
      BY <1>21 DEF WriteUpdate
    <2>3. \A q \in Procs \ {p} : Stays(q)
      BY <2>1, <2>2 DEF WriteRow
    <2>4. QED
      BY <2>1, <2>2, <2>3, WriteRowSettled
  <1>22. ASSUME NEW p \in Procs, NEW k \in Keys, WriteDelete(p, k)
       PROVE  Settled'
    <2>1. PICK v : AtRow(p, k) /\ WriteRow(p, k, v)
      BY <1>22 DEF WriteDelete
    <2>2. deleted' = [deleted EXCEPT ![p] = @ \cup {k}] /\ UNCHANGED <<saved, updated>>
      BY <1>22 DEF WriteDelete
    <2>3. \A q \in Procs \ {p} : Stays(q)
      BY <2>1, <2>2 DEF WriteRow
    <2>4. QED
      BY <2>1, <2>2, <2>3, WriteRowSettled
  <1>23. ASSUME NEW p \in Procs, NEW k \in Keys, PushSaved(p, k)
       PROVE  Settled'
    BY <1>23, PushSavedSettled
  <1>24. ASSUME NEW p \in Procs, PushExpire(p)
       PROVE  Settled'
    <2>1. /\ UNCHANGED <<redis, committed, own, updated, deleted>>
          /\ pc[p] = "pushExpire" /\ pc'[p] = "push"
          /\ saved' = [saved EXCEPT ![p] = @ \ {cur[p]}]
          /\ \A q \in Procs \ {p} : Stays(q)
      BY <1>24 DEF PushExpire, ExpireEntry
    <2>2. redis[cur[p]] \in {Absent, own[p][cur[p]]}
      BY <2>1 DEF Settled, WritesReachRedis
    <2>3. Pushing(p)' /\ \A k \in Keys \ {cur[p]} : Due(p, k) => Due(p, k)'
      BY <2>1 DEF Pushing, Due
    <2>4. QED
      BY <2>1, <2>2, <2>3, BusySettled
  <1>25. ASSUME NEW p \in Procs, PurgeUpdated(p)
       PROVE  Settled'
    <2>1. /\ UNCHANGED <<committed, own, saved, updated, deleted>>
          /\ pc[p] = "push" /\ pc'[p] = "purge" /\ saved[p] = {}
          /\ \A q \in Procs \ {p} : Stays(q)
      BY <1>25 DEF PurgeUpdated
    <2>2. /\ \A k \in updated[p] : redis'[k] = Absent
          /\ \A k \in Keys : redis'[k] \in {Absent, redis[k]}
      BY <1>25 DEF PurgeUpdated, DelEntries
    <2>3. Pushing(p)' /\ \A k \in Keys \ updated[p] : Due(p, k) => Due(p, k)'
      BY <2>1 DEF Pushing, Due
    <2>4. QED
      BY <2>1, <2>2, <2>3, BusySettled
  <1>26. ASSUME NEW p \in Procs, PurgeDeleted(p)
       PROVE  Settled'
    <2>1. /\ UNCHANGED <<committed, own, saved>> /\ pc[p] = "purge" /\ pc'[p] = "app"
          /\ \A q \in Procs \ {p} : Stays(q)
      BY <1>26 DEF PurgeDeleted
    <2>2. /\ \A k \in deleted[p] : redis'[k] = Absent
          /\ \A k \in Keys : redis'[k] \in {Absent, redis[k]}
      BY <1>26 DEF PurgeDeleted, DelEntries
    <2>3. Pushing(p)' /\ \A k \in Keys \ deleted[p] : Due(p, k) => Due(p, k)'
      BY <2>1 DEF Pushing, Due
    <2>4. QED
      BY <2>1, <2>2, <2>3, BusySettled
  <1>27. ASSUME NEW k \in Keys, Age(k)
       PROVE  Settled'
    <2>1. UNCHANGED <<redis, committed, own>> /\ \A q \in Procs : Stays(q)
      BY <1>27 DEF Age
    <2>2. QED
      BY <2>1, QuietSettled
  <1>28. ASSUME NEW k \in Keys, Expire(k)
       PROVE  Settled'
    <2>1. UNCHANGED <<committed, own>> /\ \A q \in Procs : Stays(q)
      BY <1>28 DEF Expire
    <2>2. \A j \in Keys : redis'[j] \in {Absent, redis[j]}
      BY <1>28 DEF Expire, DelEntries
    <2>3. QED
      BY <2>1, <2>2, QuietSettled
  <1>29. CASE UNCHANGED vars
    <2>1. UNCHANGED <<redis, committed, own>> /\ \A q \in Procs : Stays(q)
      BY <1>29 DEF vars
    <2>2. QED
      BY <2>1, QuietSettled
  <1>30. QED
    BY <1>1, <1>2, <1>3, <1>4, <1>5, <1>6, <1>7, <1>8, <1>9, <1>10, <1>11,
       <1>12, <1>13, <1>14, <1>15, <1>16, <1>17, <1>18, <1>19, <1>20, <1>20a,
       <1>21, <1>22, <1>23, <1>24, <1>25, <1>26, <1>27, <1>28, <1>29 DEF Next,
       Application, Continue

\* The inductive invariant of LockedReadsOnly.
LockedReadsInv == TypeInv /\ LockInv /\ Phases /\ LockedPhases /\ Settled

\* It holds of the first state and no step breaks it.
LEMMA LockedReadsInvariant == LockedReadsOnly => (Spec => []LockedReadsInv)
  <1> SUFFICES ASSUME LockedReadsOnly PROVE Spec => []LockedReadsInv
    OBVIOUS
  <1>1. Init => LockedReadsInv
    <2>1. Init => Phases
      BY DEF Init, Phases, NoRows
    <2>2. Init => LockedPhases
      BY DEF Init, LockedPhases
    <2>3. Init => Settled
      BY DEF Init, Settled, EntriesAreCommitted, WritesReachRedis, NoRows
    <2>4. QED
      BY TypeInit, LockInit, <2>1, <2>2, <2>3 DEF LockedReadsInv
  <1>2. LockedReadsInv /\ [Next]_vars => LockedReadsInv'
    BY TypeStep, LockStep, PhaseStep, LockedPhaseStep, SettledStep
    DEF LockedReadsInv, TypeInv, LockedReadsOnly
  <1>3. QED
    BY <1>1, <1>2, PTL DEF Spec

\* With nothing but locked reads, a row nobody holds locked is cached as committed or
\* not at all, also when rows are updated and deleted and entries expire: every SET is
\* sent under the row's lock, and all else that reaches Redis only takes entries out.
THEOREM LockedReadsKeepCacheCoherent ==
    LockedReadsOnly => (Spec => []CoherentWhenUnlocked)
  <1> SUFFICES ASSUME LockedReadsOnly PROVE Spec => []CoherentWhenUnlocked
    OBVIOUS
  <1>1. LockedReadsInv => CoherentWhenUnlocked
    <2> SUFFICES ASSUME LockedReadsInv, NEW k \in Keys, locks[k] = {}, redis[k] # Absent
                 PROVE  redis[k] = committed[k]
      BY DEF CoherentWhenUnlocked
    <2>1. \A p \in Procs : own[p][k] = None
      BY DEF LockedReadsInv, LockInv, WritersAreAlone
    <2>2. QED
      BY <2>1 DEF LockedReadsInv, Settled, EntriesAreCommitted
  <1>2. QED
    BY <1>1, LockedReadsInvariant, PTL

-----------------------------------------------------------------------------
(* Refinement: both disciplines implement CachedTable                       *)

\* The image of the row that all requests but p leave alone.
LEMMA LoneImage ==
    ASSUME NEW f, NEW k, NEW p \in Procs, \A q \in Procs \ {p} : f[q][k] = None
    PROVE  (IF \A q \in Procs : f[q][k] = None THEN None
            ELSE f[CHOOSE q \in Procs : f[q][k] # None][k]) = f[p][k]
  <1>1. CASE f[p][k] = None
    BY <1>1
  <1>2. CASE f[p][k] # None
    <2>1. \E q \in Procs : f[q][k] # None
      BY <1>2
    <2>2. /\ (CHOOSE q \in Procs : f[q][k] # None) \in Procs
          /\ f[CHOOSE q \in Procs : f[q][k] # None][k] # None
      BY <2>1
    <2>3. (CHOOSE q \in Procs : f[q][k] # None) = p
      BY <2>2
    <2>4. QED
      BY <1>2, <2>3
  <1>3. QED
    BY <1>1, <1>2

\* The same of what is uncommitted, now and after a step.
LEMMA LoneWriter ==
    ASSUME NEW p \in Procs, NEW k \in Keys
    PROVE  /\ (\A q \in Procs \ {p} : own[q][k] = None) => Uncommitted[k] = own[p][k]
           /\ (\A q \in Procs \ {p} : own'[q][k] = None) => Uncommitted'[k] = own'[p][k]
  <1>1. ASSUME \A q \in Procs \ {p} : own[q][k] = None
        PROVE  Uncommitted[k] = own[p][k]
    <2> HIDE DEF None
    <2>1. QED
      BY <1>1, LoneImage DEF Uncommitted
  <1>2. ASSUME \A q \in Procs \ {p} : own'[q][k] = None
        PROVE  Uncommitted'[k] = own'[p][k]
    BY <1>2, LoneImage DEF Uncommitted
  <1>3. QED
    BY <1>1, <1>2

\* A row whose images stay has the same uncommitted image after the step.
LEMMA SameWriter ==
    ASSUME LockInv, NEW k \in Keys, \A q \in Procs : own'[q][k] = own[q][k]
    PROVE  Uncommitted'[k] = Uncommitted[k]
  <1>1. CASE \A q \in Procs : own[q][k] = None
    BY <1>1 DEF Uncommitted
  <1>2. CASE \E q \in Procs : own[q][k] # None
    <2>1. PICK p \in Procs : own[p][k] # None
      BY <1>2
    <2>2. \A q \in Procs \ {p} : own[q][k] = None
      BY <2>1 DEF LockInv, WritersAreAlone
    <2>3. QED
      BY <2>2, LoneWriter
  <1>3. QED
    BY <1>1, <1>2

\* Uncommitted is a function of the keys.
LEMMA UncommittedType ==
    /\ Uncommitted = [k \in Keys |-> Uncommitted[k]]
    /\ Uncommitted' = [k \in Keys |-> Uncommitted'[k]]
  BY DEF Uncommitted

\* What both disciplines have in common: a fill caches the committed row or nothing;
\* COMMIT finds no row of the transaction cached as it was, ROLLBACK none as written.
Served ==
    \A p \in Procs :
        /\ pc[p] = "fill" /\ (redis[cur[p]] = Absent \/ cur[p] \in locked[p])
               => /\ store[p][cur[p]] = committed[cur[p]]
                  /\ redis[cur[p]] = Absent \/ \A q \in Procs : own[q][cur[p]] = None
        /\ \A k \in Keys : own[p][k] # None =>
               /\ pc[p] = "app" => redis[k] \in {Absent, own[p][k]}
               /\ pc[p] = "failed" => redis[k] \in {Absent, committed[k]}

\* Saves of whole models give it.
LEMMA CoherentServes ==
    ASSUME TypeInv, LockInv, Phases, Coherent
    PROVE  Served
  <1>1. TypeOK
    BY DEF TypeInv
  <1>2. ASSUME NEW p \in Procs, pc[p] = "fill",
               redis[cur[p]] = Absent \/ cur[p] \in locked[p]
        PROVE  /\ store[p][cur[p]] = committed[cur[p]]
               /\ redis[cur[p]] = Absent \/ \A q \in Procs : own[q][cur[p]] = None
    BY <1>1, <1>2, FillIsCurrent
  <1>3. ASSUME NEW p \in Procs, NEW k \in Keys, own[p][k] # None
        PROVE  /\ pc[p] = "app" => redis[k] \in {Absent, own[p][k]}
               /\ pc[p] = "failed" => redis[k] \in {Absent, committed[k]}
    <2>1. pc[p] = "app" => saved[p] = {}
      BY DEF TypeInv, Pending
    <2>2. QED
      BY <1>3, <2>1 DEF Coherent, WritesArePushed, Pushing
  <1>4. QED
    BY <1>2, <1>3 DEF Served

\* So do locked reads.
LEMMA SettledServes ==
    ASSUME TypeInv, LockInv, Phases, LockedPhases, Settled
    PROVE  Served
  <1>1. TypeOK
    BY DEF TypeInv
  <1>2. ASSUME NEW p \in Procs, pc[p] = "fill"
        PROVE  /\ store[p][cur[p]] = committed[cur[p]]
               /\ \A q \in Procs : own[q][cur[p]] = None
    BY <1>1, <1>2, LockedFillIsCurrent
  <1>3. ASSUME NEW p \in Procs, NEW k \in Keys, own[p][k] # None
        PROVE  /\ pc[p] = "app" => redis[k] \in {Absent, own[p][k]}
               /\ pc[p] = "failed" => redis[k] \in {Absent, committed[k]}
    <2>1. pc[p] = "app" => ~Due(p, k)
      BY DEF TypeInv, Pending, LockedPhases, Due
    <2>2. QED
      BY <1>3, <2>1 DEF Settled, WritesReachRedis, Pushing
  <1>4. QED
    BY <1>2, <1>3 DEF Served

\* A step that changes neither a row nor Redis.
LEMMA QuietTable ==
    ASSUME UNCHANGED <<redis, committed, own>>
    PROVE  UNCHANGED Table!vars
  BY DEF Table!vars, Uncommitted

\* A DEL, or an entry that expires.
LEMMA EvictTable ==
    ASSUME NEW rows \in SUBSET Keys, DelEntries(rows), UNCHANGED <<committed, own>>
    PROVE  Table!Next
  <1>1. UNCHANGED Uncommitted
    BY DEF Uncommitted
  <1>2. Table!Evict(rows)
    BY <1>1 DEF Table!Evict, DelEntries
  <1>3. QED
    BY <1>2 DEF Table!Next

\* A statement of WriteAll; one on a missing row may have no effect.
LEMMA WriteRowTable ==
    ASSUME TypeOK, LockInv, Phases, NEW p \in Procs, NEW k \in Keys, NEW v \in MaybeRow,
           AtRow(p, k), WriteRow(p, k, v)
    PROVE  [Table!Next]_Table!vars
  <1> USE DEF TypeOK
  <1>1. \A q \in Procs : own[q][k] = None
    BY WriterIsAlone
  <1>2. UNCHANGED <<redis, committed>> /\ own' = [own EXCEPT ![p][k] = v]
    BY DEF WriteRow, redisVars
  <1>3. own'[p][k] = v /\ \A q \in Procs \ {p} : own'[q][k] = None
    BY <1>1, <1>2
  <1>4. Uncommitted[k] = None /\ Uncommitted'[k] = v
    BY <1>1, <1>3, LoneWriter
  <1>5. \A j \in Keys \ {k} : Uncommitted'[j] = Uncommitted[j]
    <2>1. SUFFICES ASSUME NEW j \in Keys \ {k}
                   PROVE  Uncommitted'[j] = Uncommitted[j]
      OBVIOUS
    <2>2. \A q \in Procs : own'[q][j] = own[q][j]
      BY <1>2
    <2>3. QED
      BY <2>2, SameWriter
  <1>6. Uncommitted' = [Uncommitted EXCEPT ![k] = v]
    BY <1>4, <1>5, UncommittedType
  <1>7. CASE v = None
    <2>1. Uncommitted' = Uncommitted
      BY <1>4, <1>5, <1>7, UncommittedType
    <2>2. QED
      BY <1>2, <2>1 DEF Table!vars
  <1>8. CASE v \in Row
    <2>1. Table!Write(k, v)
      BY <1>2, <1>4, <1>6 DEF Table!Write
    <2>2. QED
      BY <1>8, <2>1 DEF Table!Next
  <1>9. QED
    BY <1>7, <1>8 DEF MaybeRow

\* The SET of a saved model.
LEMMA PushSavedTable ==
    ASSUME TypeInv, LockInv, NEW p \in Procs, NEW k \in Keys, PushSaved(p, k)
    PROVE  Table!Next
  <1>1. own[p][k] # None
    BY DEF TypeInv, Pending, PushSaved
  <1>2. \A q \in Procs \ {p} : own[q][k] = None
    BY <1>1 DEF LockInv, WritersAreAlone
  <1>3. Uncommitted[k] = own[p][k]
    BY <1>2, LoneWriter
  <1>4. /\ UNCHANGED <<committed, own>>
        /\ redis' = [redis EXCEPT ![k] = own[p][k]]
    BY DEF PushSaved, SetEntry, SavedImage, dbVars, txVars
  <1>5. UNCHANGED Uncommitted
    BY <1>4 DEF Uncommitted
  <1>6. Table!Publish(k)
    BY <1>1, <1>3, <1>4, <1>5 DEF Table!Publish
  <1>7. QED
    BY <1>6 DEF Table!Next

\* The SET or SETNX of what was read.
LEMMA FillTable ==
    ASSUME TypeInv, Served, NEW p \in Procs, Fill(p)
    PROVE  [Table!Next]_Table!vars
  <1> DEFINE k == cur[p]
  <1>1. /\ k \in Keys /\ pc[p] = "fill" /\ UNCHANGED <<committed, own>>
    BY DEF TypeInv, TypeOK, Fill, dbVars, txVars
  <1>2. CASE UNCHANGED redis
    BY <1>1, <1>2, QuietTable
  <1>3. CASE /\ redis' = [redis EXCEPT ![k] = store[p][k]]
             /\ redis[k] = Absent \/ k \in locked[p]
    <2>1. /\ store[p][k] = committed[k]
          /\ redis[k] = Absent \/ \A q \in Procs : own[q][k] = None
      BY <1>1, <1>3 DEF Served
    <2>2. redis[k] = Absent \/ Uncommitted[k] = None
      BY <1>1, <2>1 DEF Uncommitted
    <2>3. UNCHANGED Uncommitted
      BY <1>1 DEF Uncommitted
    <2>4. Table!Fill(k)
      BY <1>1, <1>3, <2>1, <2>2, <2>3 DEF Table!Fill
    <2>5. QED
      BY <1>1, <2>4 DEF Table!Next
  <1>4. QED
    BY <1>2, <1>3 DEF Fill, Overwrites, SetEntry, SetNxEntry, redisVars

\* What p wrote, and what is left of it once its transaction is over.
LEMMA EndTable ==
    ASSUME TypeOK, LockInv, NEW p \in Procs, own' = [own EXCEPT ![p] = NoRows]
    PROVE  /\ Uncommitted' = [k \in Keys |-> IF own[p][k] # None THEN None
                                             ELSE Uncommitted[k]]
           /\ \A k \in Keys : own[p][k] # None => Uncommitted[k] = own[p][k]
  <1>1. /\ \A k \in Keys : own'[p][k] = None
        /\ \A q \in Procs \ {p} : own'[q] = own[q]
    BY DEF TypeOK, NoRows
  <1>2. ASSUME NEW k \in Keys, own[p][k] # None
        PROVE  Uncommitted[k] = own[p][k] /\ Uncommitted'[k] = None
    <2>1. \A q \in Procs \ {p} : own[q][k] = None
      BY <1>2 DEF LockInv, WritersAreAlone
    <2>2. \A q \in Procs \ {p} : own'[q][k] = None
      BY <1>1, <2>1
    <2>3. QED
      BY <1>1, <2>1, <2>2, LoneWriter
  <1>3. ASSUME NEW k \in Keys, own[p][k] = None
        PROVE  Uncommitted'[k] = Uncommitted[k]
    <2>1. \A q \in Procs : own'[q][k] = own[q][k]
      BY <1>1, <1>3
    <2>2. QED
      BY <2>1, SameWriter
  <1>4. QED
    BY <1>2, <1>3, UncommittedType

\* COMMIT.
LEMMA CommitTable ==
    ASSUME TypeOK, LockInv, Served, NEW p \in Procs, Commit(p)
    PROVE  Table!Next
  <1> DEFINE rows == {k \in Keys : own[p][k] # None}
  <1>1. /\ pc[p] = "app" /\ UNCHANGED redis /\ own' = [own EXCEPT ![p] = NoRows]
        /\ committed' = [k \in Keys |-> Latest(p, k)]
    BY DEF Commit, EndTransaction, redisVars
  <1>2. /\ Uncommitted' = [k \in Keys |-> IF k \in rows THEN None ELSE Uncommitted[k]]
        /\ \A k \in rows : Uncommitted[k] = own[p][k]
    BY <1>1, EndTable
  <1>3. \A k \in rows : Uncommitted[k] # None /\ redis[k] \in {Absent, Uncommitted[k]}
    BY <1>1, <1>2 DEF Served
  <1>4. committed' = [k \in Keys |-> IF k \in rows THEN Uncommitted[k] ELSE committed[k]]
    BY <1>1, <1>2 DEF Latest
  <1>5. Table!Commit(rows)
    BY <1>1, <1>2, <1>3, <1>4 DEF Table!Commit
  <1>6. QED
    BY <1>5 DEF Table!Next

\* ROLLBACK.
LEMMA RollbackTable ==
    ASSUME PlainRequests, TypeOK, LockInv, Served, NEW p \in Procs, Rollback(p)
    PROVE  Table!Next
  <1> DEFINE rows == {k \in Keys : own[p][k] # None}
  <1>1. /\ pc[p] = "failed" /\ UNCHANGED <<redis, committed>>
        /\ own' = [own EXCEPT ![p] = NoRows]
    BY DEF Rollback, EndTransaction, redisVars, PlainRequests
  <1>2. /\ Uncommitted' = [k \in Keys |-> IF k \in rows THEN None ELSE Uncommitted[k]]
        /\ \A k \in rows : Uncommitted[k] = own[p][k]
    BY <1>1, EndTable
  <1>3. \A k \in rows : Uncommitted[k] # None /\ redis[k] \in {Absent, committed[k]}
    BY <1>1, <1>2 DEF Served
  <1>4. Table!Rollback(rows)
    BY <1>1, <1>2, <1>3 DEF Table!Rollback
  <1>5. QED
    BY <1>4 DEF Table!Next

\* Every step is a step of the table, or none.
LEMMA TableStep ==
    PlainRequests /\ TypeInv /\ LockInv /\ Phases /\ Served /\ [Next]_vars
        => [Table!Next]_Table!vars
  <1> SUFFICES ASSUME PlainRequests, TypeInv, LockInv, Phases, Served, [Next]_vars
               PROVE  [Table!Next]_Table!vars
    OBVIOUS
  <1>a. TypeOK
    BY DEF TypeInv
  <1> USE DEF dbVars, redisVars, txVars, storeVars, planVars, writeVars
  <1>1. ASSUME NEW p \in Procs, StartTransaction(p)
       PROVE  [Table!Next]_Table!vars
    <2>1. UNCHANGED <<redis, committed, own>>
      BY <1>1 DEF StartTransaction
    <2>2. QED
      BY <2>1, QuietTable
  <1>2. ASSUME NEW p \in Procs, EndRequest(p)
       PROVE  [Table!Next]_Table!vars
    <2>1. UNCHANGED <<redis, committed, own>>
      BY <1>2 DEF EndRequest
    <2>2. QED
      BY <2>1, QuietTable
  <1>3. ASSUME NEW p \in Procs, Commit(p)
       PROVE  [Table!Next]_Table!vars
    BY <1>3, <1>a, CommitTable
  <1>4. ASSUME NEW p \in Procs, WriteEnd(p)
       PROVE  [Table!Next]_Table!vars
    <2>1. /\ delCache[p] \in SUBSET Keys
          /\ DelEntries(delCache[p])
          /\ UNCHANGED <<committed, own>>
      BY <1>4, <1>a DEF TypeOK, WriteEnd
    <2>2. QED
      BY <2>1, EvictTable
  <1>5. ASSUME NEW p \in Procs, Rollback(p)
       PROVE  [Table!Next]_Table!vars
    BY <1>5, <1>a, RollbackTable
  <1>6. ASSUME NEW p \in Procs, Fault(p)
       PROVE  [Table!Next]_Table!vars
    BY <1>6 DEF Fault, PlainRequests
  <1>7. ASSUME NEW p \in Procs, NEW k \in Keys, Get(p, k)
       PROVE  [Table!Next]_Table!vars
    <2>1. UNCHANGED <<redis, committed, own>>
      BY <1>7 DEF Get
    <2>2. QED
      BY <2>1, QuietTable
  <1>8. ASSUME NEW p \in Procs, NEW k \in Keys, TxGet(p, k)
       PROVE  [Table!Next]_Table!vars
    <2>1. UNCHANGED <<redis, committed, own>>
      BY <1>8 DEF TxGet
    <2>2. QED
      BY <2>1, QuietTable
  <1>9. ASSUME NEW p \in Procs, NEW k \in Keys, GetForUpdate(p, k)
       PROVE  [Table!Next]_Table!vars
    <2>1. UNCHANGED <<redis, committed, own>>
      BY <1>9 DEF GetForUpdate
    <2>2. QED
      BY <2>1, QuietTable
  <1>10. ASSUME NEW p \in Procs, Select(p)
       PROVE  [Table!Next]_Table!vars
    <2>1. UNCHANGED <<redis, committed, own>>
      BY <1>10 DEF Select
    <2>2. QED
      BY <2>1, QuietTable
  <1>11. ASSUME NEW p \in Procs, SelectForUpdate(p)
       PROVE  [Table!Next]_Table!vars
    <2>1. UNCHANGED <<redis, committed, own>>
      BY <1>11 DEF SelectForUpdate
    <2>2. QED
      BY <2>1, QuietTable
  <1>12. ASSUME NEW p \in Procs, LockWaitEnds(p)
       PROVE  [Table!Next]_Table!vars
    <2>1. UNCHANGED <<redis, committed, own>>
      BY <1>12 DEF LockWaitEnds
    <2>2. QED
      BY <2>1, QuietTable
  <1>13. ASSUME NEW p \in Procs, Fill(p)
       PROVE  [Table!Next]_Table!vars
    BY <1>13, FillTable
  <1>14. ASSUME NEW p \in Procs, FillExpire(p)
       PROVE  [Table!Next]_Table!vars
    <2>1. UNCHANGED <<redis, committed, own>>
      BY <1>14 DEF FillExpire, ExpireEntry
    <2>2. QED
      BY <2>1, QuietTable
  <1>15. ASSUME NEW p \in Procs, NEW k \in Keys, NEW kind \in Kinds,
                SetSave(p, k, kind)
       PROVE  [Table!Next]_Table!vars
    <2>1. UNCHANGED <<redis, committed, own>>
      BY <1>15 DEF SetSave
    <2>2. QED
      BY <2>1, QuietTable
  <1>16. ASSUME NEW p \in Procs, NEW k \in Keys, SetForceDelete(p, k)
       PROVE  [Table!Next]_Table!vars
    <2>1. UNCHANGED <<redis, committed, own>>
      BY <1>16 DEF SetForceDelete
    <2>2. QED
      BY <2>1, QuietTable
  <1>17. ASSUME NEW p \in Procs, WriteAll(p)
       PROVE  [Table!Next]_Table!vars
    <2>1. UNCHANGED <<redis, committed, own>>
      BY <1>17 DEF WriteAll
    <2>2. QED
      BY <2>1, QuietTable
  <1>18. ASSUME NEW p \in Procs, NEW k \in Keys, WriteInsert(p, k)
       PROVE  [Table!Next]_Table!vars
    <2>1. PICK v : v \in MaybeRow /\ AtRow(p, k) /\ WriteRow(p, k, v)
      BY <1>18, <1>a, RowFacts DEF WriteInsert, TypeOK, MaybeRow
    <2>2. QED
      BY <1>a, <2>1, WriteRowTable
  <1>19. ASSUME NEW p \in Procs, NEW k \in Keys, DuplicateEntry(p, k)
       PROVE  [Table!Next]_Table!vars
    <2>1. UNCHANGED <<redis, committed, own>>
      BY <1>19 DEF DuplicateEntry
    <2>2. QED
      BY <2>1, QuietTable
  <1>20. ASSUME NEW p \in Procs, NEW k \in Keys, WriteSave(p, k)
       PROVE  [Table!Next]_Table!vars
    <2>1. PICK v : v \in MaybeRow /\ AtRow(p, k) /\ WriteRow(p, k, v)
      BY <1>20, <1>a, RowFacts DEF WriteSave, TypeOK, MaybeRow
    <2>2. QED
      BY <1>a, <2>1, WriteRowTable
  <1>20a. ASSUME NEW p \in Procs, NEW k \in Keys, SaveMisses(p, k)
       PROVE  [Table!Next]_Table!vars
    <2>1. UNCHANGED <<redis, committed, own>>
      BY <1>20a DEF SaveMisses
    <2>2. QED
      BY <2>1, QuietTable
  <1>21. ASSUME NEW p \in Procs, NEW k \in Keys, WriteUpdate(p, k)
       PROVE  [Table!Next]_Table!vars
    <2>1. PICK v : v \in MaybeRow /\ AtRow(p, k) /\ WriteRow(p, k, v)
      BY <1>21, <1>a, RowFacts DEF WriteUpdate, TypeOK, MaybeRow
    <2>2. QED
      BY <1>a, <2>1, WriteRowTable
  <1>22. ASSUME NEW p \in Procs, NEW k \in Keys, WriteDelete(p, k)
       PROVE  [Table!Next]_Table!vars
    <2>1. PICK v : v \in MaybeRow /\ AtRow(p, k) /\ WriteRow(p, k, v)
      BY <1>22, <1>a, RowFacts DEF WriteDelete, TypeOK, MaybeRow
    <2>2. QED
      BY <1>a, <2>1, WriteRowTable
  <1>23. ASSUME NEW p \in Procs, NEW k \in Keys, PushSaved(p, k)
       PROVE  [Table!Next]_Table!vars
    BY <1>23, PushSavedTable
  <1>24. ASSUME NEW p \in Procs, PushExpire(p)
       PROVE  [Table!Next]_Table!vars
    <2>1. UNCHANGED <<redis, committed, own>>
      BY <1>24 DEF PushExpire, ExpireEntry
    <2>2. QED
      BY <2>1, QuietTable
  <1>25. ASSUME NEW p \in Procs, PurgeUpdated(p)
       PROVE  [Table!Next]_Table!vars
    <2>1. /\ updated[p] \in SUBSET Keys
          /\ DelEntries(updated[p])
          /\ UNCHANGED <<committed, own>>
      BY <1>25, <1>a DEF TypeOK, PurgeUpdated
    <2>2. QED
      BY <2>1, EvictTable
  <1>26. ASSUME NEW p \in Procs, PurgeDeleted(p)
       PROVE  [Table!Next]_Table!vars
    <2>1. /\ deleted[p] \in SUBSET Keys
          /\ DelEntries(deleted[p])
          /\ UNCHANGED <<committed, own>>
      BY <1>26, <1>a DEF TypeOK, PurgeDeleted
    <2>2. QED
      BY <2>1, EvictTable
  <1>27. ASSUME NEW k \in Keys, Age(k)
       PROVE  [Table!Next]_Table!vars
    <2>1. UNCHANGED <<redis, committed, own>>
      BY <1>27 DEF Age
    <2>2. QED
      BY <2>1, QuietTable
  <1>28. ASSUME NEW k \in Keys, Expire(k)
       PROVE  [Table!Next]_Table!vars
    <2>1. /\ {k} \in SUBSET Keys
          /\ DelEntries({k})
          /\ UNCHANGED <<committed, own>>
      BY <1>28, <1>a DEF TypeOK, Expire
    <2>2. QED
      BY <2>1, EvictTable
  <1>29. CASE UNCHANGED vars
    BY <1>29, QuietTable DEF vars
  <1>30. QED
    BY <1>1, <1>2, <1>3, <1>4, <1>5, <1>6, <1>7, <1>8, <1>9, <1>10, <1>11,
       <1>12, <1>13, <1>14, <1>15, <1>16, <1>17, <1>18, <1>19, <1>20, <1>20a,
       <1>21, <1>22, <1>23, <1>24, <1>25, <1>26, <1>27, <1>28, <1>29 DEF Next,
       Application, Continue

\* The table starts with nothing cached and nothing written.
LEMMA TableInit == Init => Table!Init
  <1> SUFFICES ASSUME Init PROVE Table!Init
    OBVIOUS
  <1>1. committed \in [Keys -> Row]
    BY TypeInit DEF TypeInv, TypeOK
  <1>2. redis = [k \in Keys |-> Absent] /\ \A p \in Procs, k \in Keys : own[p][k] = None
    BY DEF Init, NoRows
  <1>3. Uncommitted = [k \in Keys |-> None]
    BY <1>2 DEF Uncommitted
  <1>4. QED
    BY <1>1, <1>2, <1>3 DEF Table!Init

\* Under either discipline the path of models through identity maps, MySQL and Redis
\* implements the abstract table: every step is one of its steps or leaves it alone.
THEOREM DisciplinedRequestsImplementCachedTable ==
    WholeSavesOnly \/ LockedReadsOnly => (Spec => CachedTableSpec)
  <1>1. ASSUME WholeSavesOnly PROVE Spec => CachedTableSpec
    <2>1. Spec => []WholeSavesInv
      BY <1>1, WholeSavesInvariant
    <2>2. WholeSavesInv /\ [Next]_vars => [Table!Next]_Table!vars
      BY <1>1, CoherentServes, TableStep DEF WholeSavesInv, WholeSavesOnly
    <2>3. QED
      BY <2>1, <2>2, TableInit, PTL DEF Spec, CachedTableSpec, Table!Spec
  <1>2. ASSUME LockedReadsOnly PROVE Spec => CachedTableSpec
    <2>1. Spec => []LockedReadsInv
      BY <1>2, LockedReadsInvariant
    <2>2. LockedReadsInv /\ [Next]_vars => [Table!Next]_Table!vars
      BY <1>2, SettledServes, TableStep DEF LockedReadsInv, LockedReadsOnly
    <2>3. QED
      BY <2>1, <2>2, TableInit, PTL DEF Spec, CachedTableSpec, Table!Spec
  <1>3. QED
    BY <1>1, <1>2
=============================================================================
