----------------------------- MODULE Reservation -----------------------------
(***************************************************************************)
(* The unit of work of one ModelManager (lib/db/manager/manager.go): the    *)
(* reservations SetSave, SetDelete and SetForceDelete collect, and the loop *)
(* of WriteAll that carries them out, which may stop at any row and be      *)
(* called again.  Everything runs in one goroutine; what is hard here is    *)
(* the long sequence of calls, and two slices that share one array:         *)
(*                                                                         *)
(*     keys := append(mm.reservedSaveModelKeys, mm.reservedDelModelKeys...) *)
(*                                                                         *)
(* writes into the spare capacity of reservedSaveModelKeys when there is    *)
(* enough of it, and sorts there.  The array is therefore modelled with its *)
(* capacity, as Go's append grows it one element at a time (1, 2, 4, ...).  *)
(*                                                                         *)
(* A key stands for the string of makeKey, its order for the string order.  *)
(* The set of all columns is written {}, as the empty Fields list is in the *)
(* code.                                                                   *)
(*                                                                         *)
(* Work!Spec at the end is the promise this module implements.              *)
(***************************************************************************)
EXTENDS Integers, Sequences, FiniteSets

CONSTANTS
    Keys,       \* keys of the models
    Priority,   \* config.TablePriorityMap, by key
    Fields,     \* the columns besides the primary key
    Options,    \* the SaveOptions the application uses
    Failures,   \* TRUE if a row or a task may fail
    TasksSave,  \* TRUE if tasks call SetSave, and those behind the rows also
                \* SetDelete and SetForceDelete
    MaxTasks    \* bound on the write-end tasks

ASSUME ReservationAssumption ==
    /\ Keys \subseteq Nat \ {0}
    /\ Priority \in [Keys -> Nat]
    /\ Options \subseteq [fields : SUBSET Fields, ins : BOOLEAN,
                          upd : BOOLEAN, fn : BOOLEAN]
    /\ Failures \in BOOLEAN /\ TasksSave \in BOOLEAN /\ MaxTasks \in Nat

NoKey == 0
Infos == [fields : SUBSET Fields, ins : BOOLEAN, upd : BOOLEAN, fn : BOOLEAN]

VARIABLES
    saved,     \* the keys of reservedSaveInfos
    info,      \* reservedSaveInfos
    accepted,  \* history: what the accepted SetSave calls asked for together
    array,     \* the array under reservedSaveModelKeys, to its capacity
    count,     \* len(reservedSaveModelKeys)
    deleted,   \* the keys of reservedDelModels
    delKeys,   \* reservedDelModelKeys
    tasks,     \* len(writeEndTasks)
    pc,        \* "app"; in WriteAll "loop" at the loop's head, "prepare" before
               \* and "saved" after the statement of a reserved save, "end" in
               \* the write-end tasks and the caches behind them
    keys,      \* WriteAll's keys, unless they lie in array
    total,     \* len(keys), in "end" the tasks to run
    shared,    \* TRUE if keys lie in array
    pos,       \* the index of the loop, in "end" of the tasks
    row,       \* the key the loop has read there, during a reserved save
    batch,     \* history: the rows reserved when WriteAll began, in "end" those
               \* the caches will hear of
    log,       \* history: the statements of this WriteAll, in order
    smooth,    \* history: since the lists were last empty no task of the loop
               \* reserved a save and no batch failed that had deletions
               \* sorted into the array of the reserved saves
    sound,     \* history: always smooth so far, and nothing failed in "end"
    unsynced   \* history: rows written while sound that no cache heard of but
               \* may hold: a row that an INSERT could add was not there

resVars == <<saved, info, accepted>>
keyVars == <<array, count>>
delVars == <<deleted, delKeys>>
loopVars == <<pc, keys, total, shared, pos, row, batch, log>>
syncVars == <<smooth, sound, unsynced>>
vars == <<resVars, keyVars, delVars, tasks, loopVars, syncVars>>

Columns(fields) == IF fields = {} THEN Fields ELSE fields
Nothing == [columns |-> {}, ins |-> FALSE]

NoInfo == [fields |-> {}, ins |-> FALSE, upd |-> FALSE, fn |-> FALSE]

SaveKeys == SubSeq(array, 1, count)

Init ==
    /\ saved = {} /\ info = [k \in Keys |-> NoInfo]
    /\ accepted = [k \in Keys |-> Nothing]
    /\ array = <<>> /\ count = 0
    /\ deleted = {} /\ delKeys = <<>>
    /\ tasks = 0
    /\ pc = "app" /\ keys = <<>> /\ total = 0 /\ shared = FALSE /\ pos = 1
    /\ row = NoKey /\ batch = {} /\ log = <<>>
    /\ smooth = TRUE /\ sound = TRUE /\ unsynced = {}

-----------------------------------------------------------------------------
(* Go slices                                                               *)

Spare(n) == [i \in 1 .. n |-> NoKey]

\* reservedSaveModelKeys = append(reservedSaveModelKeys, k).  Without room the
\* slice moves to an array twice as long, and a loop over the old one keeps it.
AppendKey(k) ==
    /\ count' = count + 1
    /\ IF count < Len(array)
       THEN array' = [array EXCEPT ![count + 1] = k] /\ UNCHANGED <<keys, shared>>
       ELSE /\ array' = array \o <<k>> \o Spare(Len(array) - 1)
            /\ keys' = IF shared THEN array ELSE keys
            /\ shared' = FALSE

\* Mutant: the key behind the one found is removed.
RemoveNext(i) ==
    /\ count' = count - 1
    /\ array' = [j \in 1 .. Len(array) |->
                    IF i < j /\ j < count THEN array[j + 1] ELSE array[j]]

\* append(s[:i], s[i+1:]...) moves the tail down inside the array.
RemoveKey(i) ==
    /\ count' = count - 1
    /\ array' = [j \in 1 .. Len(array) |->
                    IF i <= j /\ j < count THEN array[j + 1] ELSE array[j]]

\* sort.Slice by priority, the highest first, and then by key.
Before(k, j) == \/ Priority[k] > Priority[j]
                \/ Priority[k] = Priority[j] /\ k < j

Count(s, k) == Cardinality({i \in DOMAIN s : s[i] = k})

\* Mutant: the keys are taken as they come.
Unsorted(s) == {s}

\* What sort.Slice may make of a list.
Sorted(s) ==
    LET rows == {s[i] : i \in DOMAIN s}
    IN {t \in [DOMAIN s -> rows] :
            /\ \A i, j \in DOMAIN s : i < j => ~Before(t[j], t[i])
            /\ \A k \in rows : Count(t, k) = Count(s, k)}

-----------------------------------------------------------------------------
(* History                                                                 *)

\* The rows no cache heard of change from unsynced to rows.
Settle(rows) ==
    /\ sound' = (sound /\ smooth')
    /\ unsynced' = IF sound' THEN rows ELSE {}

-----------------------------------------------------------------------------
(* SetSave, SetDelete, SetForceDelete                                      *)

\* Mutant: a later list of columns replaces the earlier one.
FieldsReplaced(old, opt) == opt

\* All columns absorb a list of columns, two lists are united.
FieldsMerged(old, opt) ==
    IF opt = {} \/ old = {} THEN {} ELSE old \cup opt

\* Mutant: SetSave does not look at the reserved deletions.
MaySaveAlways(k) == k \in Keys

\* getReservedInfo: a key reserved for deletion is refused.
MaySave(k) == k \notin deleted

\* A first SetSave for the key.  A single call cannot ask for both forces.
SetSaveNew(k, opt) ==
    /\ k \notin saved /\ MaySave(k)
    /\ saved' = saved \cup {k}
    /\ info' = [info EXCEPT ![k] = opt]
    /\ accepted' = [accepted EXCEPT
                      ![k] = [columns |-> Columns(opt.fields), ins |-> opt.ins]]
    /\ AppendKey(k)

\* Custom functions and ordinary saves exclude each other.
Compatible(k, opt) == info[k].fn = opt.fn

\* A further SetSave.  The forces accumulate before they are checked; when
\* they clash the call is refused and its columns are not taken over.
SetSaveAgain(k, opt) ==
    LET old == info[k]
        ins == old.ins \/ opt.ins
        upd == old.upd \/ opt.upd
        fields == IF ins /\ upd THEN old.fields
                  ELSE FieldsMerged(old.fields, opt.fields)
    IN /\ k \in saved /\ Compatible(k, opt)
       /\ info' = [info EXCEPT ![k] = [fields |-> fields, ins |-> ins,
                                      upd |-> upd, fn |-> old.fn]]
       /\ accepted' = IF ins /\ upd THEN accepted
                      ELSE [accepted EXCEPT
                              ![k] = [columns |-> @.columns \cup Columns(opt.fields),
                                      ins |-> @.ins \/ opt.ins]]
       /\ UNCHANGED <<saved, keyVars, keys, shared>>

\* The code that calls: the application, or a task behind the rows.
Outside == pc = "app" \/ (TasksSave /\ pc = "end")

\* SetSave, by the application or by a task that WriteAll runs.
SetSave(k, opt) ==
    /\ ~(opt.ins /\ opt.upd)
    /\ Outside \/ (TasksSave /\ pc \in {"prepare", "saved"})
    /\ SetSaveNew(k, opt) \/ SetSaveAgain(k, opt)
    /\ smooth' = (smooth /\ pc \in {"app", "end"})
    /\ Settle(unsynced)
    /\ UNCHANGED <<delVars, tasks, pc, total, pos, row, batch, log>>

\* SetSaveSupportEmptyKey counts the rows with key 0 and forces an update if
\* there is one.
SetSaveSupportEmptyKey(k) ==
    \E exists \in BOOLEAN : SetSave(k, [NoInfo EXCEPT !.upd = exists])

\* Mutant: a key is listed again each time its deletion is reserved.
SetDeleteAgain(k) ==
    /\ Outside /\ k \notin saved
    /\ deleted' = deleted \cup {k}
    /\ delKeys' = Append(delKeys, k)
    /\ UNCHANGED <<resVars, keyVars, tasks, loopVars, syncVars>>

\* A key reserved for saving is refused; a second deletion changes nothing.
SetDelete(k) ==
    /\ Outside /\ k \notin deleted /\ k \notin saved
    /\ deleted' = deleted \cup {k}
    /\ delKeys' = Append(delKeys, k)
    /\ UNCHANGED <<resVars, keyVars, tasks, loopVars, syncVars>>

\* Mutant: the reservation is cancelled but its key stays listed.
CancelInfoOnly(k) ==
    /\ saved' = saved \ {k}
    /\ info' = [info EXCEPT ![k] = NoInfo]
    /\ accepted' = [accepted EXCEPT ![k] = Nothing]
    /\ UNCHANGED keyVars

\* The first occurrence of the key leaves the list, if it is there.
CancelSave(k) ==
    /\ saved' = saved \ {k}
    /\ info' = [info EXCEPT ![k] = NoInfo]
    /\ accepted' = [accepted EXCEPT ![k] = Nothing]
    /\ \/ \E i \in 1 .. count :
            /\ array[i] = k /\ \A j \in 1 .. i - 1 : array[j] # k
            /\ RemoveKey(i)
       \/ (\A i \in 1 .. count : array[i] # k) /\ UNCHANGED keyVars

\* SetForceDelete cancels a save and reserves the deletion.
SetForceDelete(k) ==
    /\ Outside /\ k \in saved
    /\ CancelSave(k)
    /\ deleted' = deleted \cup {k}
    /\ delKeys' = IF k \in deleted THEN delKeys ELSE Append(delKeys, k)
    /\ UNCHANGED <<tasks, loopVars, syncVars>>

\* AddWriteEndTask; nothing ever removes a task but the end of the manager.
AddWriteEndTask ==
    /\ Outside /\ tasks < MaxTasks
    /\ tasks' = tasks + 1
    /\ UNCHANGED <<resVars, keyVars, delVars, loopVars, syncVars>>

-----------------------------------------------------------------------------
(* WriteAll                                                                *)

\* The list of the loop: in array if both lists fit there, else a copy.
WriteAll ==
    LET all == SaveKeys \o delKeys
        n == Len(all)
    IN /\ pc = "app"
       /\ pc' = "loop" /\ pos' = 1 /\ total' = n
       /\ batch' = saved \cup deleted
       /\ shared' = (n <= Len(array))
       /\ \E list \in Sorted(all) :
             IF n <= Len(array)
             THEN /\ array' = list \o SubSeq(array, n + 1, Len(array))
                  /\ keys' = <<>>
             ELSE /\ keys' = list
                  /\ UNCHANGED array
       /\ UNCHANGED <<resVars, delVars, count, tasks, row, log, syncVars>>

KeyAt(i) == IF shared THEN array[i] ELSE keys[i]

\* The branch WriteAll takes for a reserved save.
Kind(k) == IF info[k].fn THEN "function"
           ELSE IF info[k].ins THEN "insert"
           ELSE IF info[k].fields # {} \/ info[k].upd THEN "update"
           ELSE "save"

\* The loop reads its next key and finds a reserved save: the PrepareTasks run.
RowBegins ==
    /\ pc = "loop" /\ pos <= total /\ KeyAt(pos) \in saved
    /\ pc' = "prepare" /\ row' = KeyAt(pos)
    /\ UNCHANGED <<resVars, keyVars, delVars, tasks, keys, total, shared, pos,
                   batch, log, syncVars>>

\* A forced update of all columns writes their names into the reservation.
NamedColumns ==
    [k \in Keys |->
        IF k = row /\ Kind(k) = "update" /\ info[k].fields = {}
        THEN [fields |-> Fields, ins |-> info[k].ins, upd |-> info[k].upd,
              fn |-> info[k].fn]
        ELSE info[k]]

\* The statement is sent, then the SavedTasks run.
SaveRow ==
    /\ pc = "prepare"
    /\ info' = NamedColumns
    /\ log' = Append(log, <<row, Kind(row)>>)
    /\ pc' = "saved"
    /\ UNCHANGED smooth
    /\ Settle(IF Kind(row) = "insert" THEN unsynced \ {row} ELSE unsynced \cup {row})
    /\ UNCHANGED <<saved, accepted, keyVars, delVars, tasks, keys, total, shared,
                   pos, row, batch>>

RowEnds ==
    /\ pc = "saved"
    /\ pc' = "loop" /\ pos' = pos + 1 /\ row' = NoKey
    /\ UNCHANGED <<resVars, keyVars, delVars, tasks, keys, total, shared, batch,
                   log, syncVars>>

DeleteRow ==
    LET k == KeyAt(pos)
    IN /\ pc = "loop" /\ pos <= total /\ k \notin saved
       /\ log' = IF k \in deleted THEN Append(log, <<k, "delete">>) ELSE log
       /\ pos' = pos + 1
       /\ UNCHANGED smooth /\ Settle(unsynced \cup ({k} \cap deleted))
       /\ UNCHANGED <<resVars, keyVars, delVars, tasks, pc, keys, total, shared,
                      row, batch>>

LeaveWriteAll ==
    /\ pc' = "app" /\ shared' = FALSE /\ keys' = <<>> /\ total' = 0 /\ pos' = 1
    /\ row' = NoKey /\ batch' = {} /\ log' = <<>>

\* Mutant: a failed WriteAll clears the reservations, as a deferred call would.
DropReservations ==
    /\ saved' = {} /\ accepted' = [k \in Keys |-> Nothing]
    /\ array' = <<>> /\ count' = 0 /\ deleted' = {} /\ delKeys' = <<>>

KeepReservations == UNCHANGED <<saved, accepted, keyVars, delVars>>

\* A statement or a task fails: WriteAll returns and keeps the reservations.
RowFails ==
    /\ Failures
    /\ \/ pc = "loop" /\ pos <= total /\ KeyAt(pos) \notin saved /\ UNCHANGED info
       \/ pc \in {"prepare", "saved"} /\ UNCHANGED info
       \/ pc = "prepare" /\ info' = NamedColumns
    /\ KeepReservations
    /\ smooth' = (smooth /\ (shared => deleted = {}))
    /\ Settle(unsynced)
    /\ LeaveWriteAll
    /\ UNCHANGED tasks

Written == {log[i][1] : i \in DOMAIN log}

\* savedModels, updatedModels and deletedModels: a row of a forced INSERT is in
\* none of them, unless it is a master row.
Told == {log[i][1] : i \in {j \in DOMAIN log : log[j][2] # "insert"}}

\* All rows are done: both lists start again with new slices.
RowsAreDone ==
    /\ pc = "loop" /\ pos > total
    /\ saved' = {} /\ info' = [k \in Keys |-> NoInfo]
    /\ accepted' = [k \in Keys |-> Nothing]
    /\ array' = <<>> /\ count' = 0 /\ deleted' = {} /\ delKeys' = <<>>
    /\ pc' = "end" /\ pos' = 1 /\ total' = tasks
    /\ shared' = FALSE /\ keys' = <<>>
    /\ batch' = Told /\ log' = <<>>
    /\ smooth' = TRUE
    /\ UNCHANGED <<tasks, row, sound, unsynced>>

\* The write-end tasks run, also those that ran in an earlier WriteAll.
WriteEndTask ==
    /\ pc = "end" /\ pos <= total
    /\ pos' = pos + 1
    /\ UNCHANGED <<resVars, keyVars, delVars, tasks, pc, keys, total, shared,
                   row, batch, log, syncVars>>

\* A write-end task or a command of Redis fails: the rows are written, their
\* reservations gone, and the caches are not told.
EndFails ==
    /\ Failures /\ pc = "end"
    /\ sound' = FALSE /\ unsynced' = {}
    /\ LeaveWriteAll
    /\ UNCHANGED <<resVars, keyVars, delVars, tasks, smooth>>

\* SaveModelsToCache and DeleteModelsFromCache.
WriteAllReturns ==
    /\ pc = "end" /\ pos > total
    /\ UNCHANGED smooth /\ Settle(unsynced \ batch)
    /\ LeaveWriteAll
    /\ UNCHANGED <<resVars, keyVars, delVars, tasks>>

Next ==
    \/ \E k \in Keys : \/ \E opt \in Options : SetSave(k, opt)
                       \/ SetSaveSupportEmptyKey(k)
                       \/ SetDelete(k) \/ SetForceDelete(k)
    \/ AddWriteEndTask
    \/ WriteAll \/ RowBegins \/ SaveRow \/ RowEnds \/ DeleteRow \/ RowFails
    \/ RowsAreDone \/ WriteEndTask \/ EndFails \/ WriteAllReturns

Spec == Init /\ [][Next]_vars

-----------------------------------------------------------------------------
(* Properties                                                              *)

Names == Keys \cup {NoKey}
Kinds == {"function", "insert", "update", "save", "delete"}

\* The types of the variables and the shape of the lists: a list never grows
\* past its array, the loop stays inside its keys and works on a row reserved
\* for saving, and the deletions are listed once each.
TypeOK ==
    /\ saved \subseteq Keys /\ info \in [Keys -> Infos]
    /\ accepted \in [Keys -> [columns : SUBSET Fields, ins : BOOLEAN]]
    /\ array \in Seq(Names) /\ count \in 0 .. Len(array)
    /\ deleted \subseteq Keys /\ delKeys \in Seq(Keys)
    /\ Len(delKeys) = Cardinality(deleted)
    /\ deleted = {delKeys[i] : i \in 1 .. Len(delKeys)}
    /\ pc \in {"app", "loop", "prepare", "saved", "end"} /\ row \in Names
    /\ tasks \in 0 .. MaxTasks
    /\ keys \in Seq(Names) /\ total \in Nat
    /\ shared \in BOOLEAN /\ pos \in 1 .. total + 1
    /\ pc \in {"prepare", "saved"} => row \in saved /\ pos <= total
    /\ pc # "end" => total <= Len(IF shared THEN array ELSE keys)
    /\ batch \subseteq Keys /\ log \in Seq(Keys \X Kinds)
    /\ smooth \in BOOLEAN /\ sound \in BOOLEAN /\ unsynced \subseteq Keys

\* No row is reserved for saving and for deletion at once, whatever the order
\* of SetSave, SetDelete and SetForceDelete, of failed batches and of saves a
\* task reserves while WriteAll runs: WriteAll looks for a save first, so a
\* deletion of the same row would be dropped without a word.
NeverSavedAndDeleted == saved \cap deleted = {}

\* Every column an accepted SetSave asked to write is written by the statement
\* WriteAll issues for the row, however partial and complete saves follow each
\* other, and also after a failed batch.
AcceptedColumnsAreWritten ==
    \A k \in saved : accepted[k].columns \subseteq Columns(info[k].fields)

\* While the unit of work is smooth WriteAll empties the reservations only
\* after it wrote or deleted every reserved row, each once, also when it
\* repeats a batch that failed.
BatchIsComplete ==
    smooth /\ pc = "loop" =>
        /\ \A i, j \in DOMAIN log : i # j => log[i][1] # log[j][1]
        /\ pos > total => Written = saved \cup deleted

\* Under the same condition WriteAll writes its rows in one global order, which
\* is what keeps two transactions from locking rows against each other.
BatchIsOrdered ==
    smooth => \A i, j \in DOMAIN log :
                  i < j => ~Before(log[j][1], log[i][1])

\* A row that was changed, by a batch that failed later, stays reserved until a
\* WriteAll that succeeds tells the caches of it, or a deletion takes its
\* place: no such row of the transaction is forgotten with a stale entry in
\* Redis.  What fails behind the rows ends the promise: see EndFails.
UnsyncedRowsStayReserved ==
    unsynced \subseteq saved \cup deleted \cup (IF pc = "end" THEN batch ELSE {})

\* The promise of BatchIsComplete without its condition: when WriteAll is about
\* to empty the reservations, every row reserved when it began was written.
NoReservationIsLost ==
    pc = "loop" /\ pos > total => batch \subseteq Written

-----------------------------------------------------------------------------
(* The abstract unit of work                                               *)

Writing == pc \in {"loop", "prepare", "saved"}

\* The rows behind the last statement.
Ahead == {KeyAt(i) : i \in (IF pc = "saved" THEN pos + 1 ELSE pos) .. total}

Work == INSTANCE UnitOfWork WITH
    Order  <- {pair \in Keys \X Keys : Before(pair[1], pair[2])},
    wanted <- [k \in Keys |-> IF k \in saved THEN "save"
                              ELSE IF k \in deleted THEN "delete" ELSE "nothing"],
    phase  <- IF Writing THEN "writing" ELSE "open",
    left   <- IF smooth /\ Writing THEN Ahead ELSE {},
    sent   <- log,
    steady <- smooth

\* Maps, slices and the loop over them keep the promise of the unit of work:
\* what is wanted changes with the calls alone, a smooth batch is carried out
\* in order and once, and what fails stays wanted.
UnitOfWorkSpec == Work!Spec
=============================================================================
