----------------------------- MODULE MasterList -----------------------------
(***************************************************************************)
(* GetMasterModelAll of lib/db/manager/manager.go: all rows of a master     *)
(* table by way of a list of their keys in Redis, which carries the version *)
(* of the program that stored it.  A request that finds the list looks its  *)
(* keys up as any others (KeyLookup); one that does not reads the table and *)
(* stores the list.  The writers of the table delete the list: WriteAll     *)
(* before COMMIT, and WriteEnd after it if rows were deleted.  Each of these *)
(* commands may fail, and the writer's process may die behind COMMIT.       *)
(***************************************************************************)
EXTENDS KeyLookup

CONSTANTS
    Versions,   \* the versions of the program
    EmptyVersion, \* the empty string
    NoList

VARIABLES
    list,       \* Redis: the list, its version, and whether it expires;
                \* history: it named a row that was gone when it was stored
                \* (belated), a WriteEnd has failed to delete it (spared)
    step,       \* the next step of GetMasterModelAll
    version,    \* its argument
    names,      \* the keys it has read from the table
    writer      \* the progress of the request that changes the row changing

listVars == <<list, step, version, names, writer>>
vars == <<lookupVars, listVars>>

MasterInit ==
    /\ Init
    /\ list = NoList
    /\ step = [r \in Requests |-> "none"]
    /\ version = [r \in Requests |-> EmptyVersion]
    /\ names = [r \in Requests |-> {}]
    /\ writer = "idle"

-----------------------------------------------------------------------------
(* GetMasterModelAll                                                       *)

\* EXISTS, unless the caller wants a reload.
GetMasterModelAll(r, v, reload) ==
    /\ master /\ pc[r] = "app"
    /\ Goto(r, "list")
    /\ step' = [step EXCEPT ![r] =
                  IF reload \/ list = NoList THEN "find" ELSE "get"]
    /\ version' = [version EXCEPT ![r] = v]
    /\ UNCHANGED <<dbVars, cache, txVars, managerVars, call, list, names, writer>>

\* What GET reads: a list that is gone since EXISTS leaves the struct empty.
Got == IF list = NoList THEN [keys |-> {}, version |-> EmptyVersion]
       ELSE [keys |-> list.keys, version |-> list.version]

Usable(r) == Got.version = version[r]

\* GET; the keys of a list of the same version are looked up.
GetList(r) ==
    /\ step[r] = "get"
    /\ IF Usable(r)
       THEN /\ GetModels(r, Got.keys, FALSE)
            /\ step' = [step EXCEPT ![r] = "none"]
            /\ version' = [version EXCEPT ![r] = EmptyVersion]
       ELSE /\ step' = [step EXCEPT ![r] = "find"]
            /\ UNCHANGED <<lookupVars, version>>
    /\ UNCHANGED <<list, names, writer>>

\* The whole table, past the identity map.
Find(r) ==
    LET models == Visible(r, FALSE)
    IN /\ step[r] = "find"
       /\ TakeSnapshot(r)
       /\ names' = [names EXCEPT ![r] = models]
       /\ call' = [call EXCEPT ![r].fill = models]
       /\ step' = [step EXCEPT ![r] = IF models = {} THEN "set" ELSE "fill"]
       /\ UNCHANGED <<dbVars, cache, tx, locks, managerVars, pc, list, version,
                      writer>>

\* SaveModelsToCache for one row of the table.
FillLocal(r) ==
    LET m == CHOOSE x \in call[r].fill : TRUE
    IN /\ step[r] = "fill"
       /\ SetCache(m, TRUE)
       /\ call' = [call EXCEPT ![r].fill = @ \ {m}]
       /\ step' = [step EXCEPT ![r] = IF call[r].fill = {m} THEN "set" ELSE @]
       /\ UNCHANGED <<dbVars, txVars, managerVars, pc, list, version, names,
                      writer>>

\* SET; the list does not expire yet.
SetList(r) ==
    /\ step[r] = "set"
    /\ list' = [keys |-> names[r], version |-> version[r], expires |-> FALSE,
                belated |-> ~(names[r] \subseteq rows), spared |-> FALSE]
    /\ step' = [step EXCEPT ![r] = "expire"]
    /\ UNCHANGED <<lookupVars, version, names, writer>>

\* GetMasterModelAll is over.
Leave(r) ==
    /\ Goto(r, "app")
    /\ step' = [step EXCEPT ![r] = "none"]
    /\ names' = [names EXCEPT ![r] = {}]
    /\ version' = [version EXCEPT ![r] = EmptyVersion]
    /\ call' = [call EXCEPT ![r] = NoCall]
    /\ UNCHANGED <<dbVars, cache, txVars, managerVars, writer>>

\* EXPIRE, and the return.
ExpireList(r) ==
    /\ step[r] = "expire"
    /\ list' = IF list = NoList THEN NoList ELSE [list EXCEPT !.expires = TRUE]
    /\ Leave(r)

\* A statement or a command fails.
MasterFails(r) == step[r] # "none" /\ Leave(r) /\ UNCHANGED list

\* Redis ends the life of the list.
ListExpires ==
    /\ list # NoList /\ list.expires
    /\ list' = NoList
    /\ UNCHANGED <<lookupVars, step, version, names, writer>>

-----------------------------------------------------------------------------
(* The writers of the table                                                *)

\* WriteAll's statement.
Write(m) ==
    /\ Change(m)
    /\ writer' = "written"
    /\ UNCHANGED <<list, step, version, names>>

\* SaveModelsToCache or DeleteModelsFromCache at the end of WriteAll.
WriteAllDeletes ==
    /\ writer = "written"
    /\ writer' = "purged"
    /\ list' = NoList
    /\ UNCHANGED <<lookupVars, step, version, names>>

\* The DEL fails, and with it WriteAll.
WriteAllFails ==
    /\ writer = "written"
    /\ writer' = "failed"
    /\ UNCHANGED <<lookupVars, list, step, version, names>>

\* What CommitTransaction has left: WriteEnd, for the deleted rows that are in
\* delCacheModels.
AfterCommit == writer' = IF changing \in rows THEN "committed" ELSE "idle"

Commit ==
    /\ writer = "purged"
    /\ ChangeCommits
    /\ AfterCommit
    /\ UNCHANGED <<list, step, version, names>>

\* A COMMIT that fails is followed by WriteEnd, too.
CommitFails ==
    /\ writer = "purged"
    /\ ChangeRollsBack
    /\ AfterCommit
    /\ UNCHANGED <<list, step, version, names>>

Rollback ==
    /\ writer \in {"written", "purged", "failed"}
    /\ ChangeRollsBack
    /\ writer' = "idle"
    /\ UNCHANGED <<list, step, version, names>>

\* Mutant: WriteEnd leaves the list alone.
WriteEndKeepsList ==
    /\ writer = "committed"
    /\ writer' = "idle"
    /\ UNCHANGED <<lookupVars, list, step, version, names>>

WriteEnd ==
    /\ writer = "committed"
    /\ writer' = "idle"
    /\ list' = NoList
    /\ UNCHANGED <<lookupVars, step, version, names>>

\* Its DEL fails, which CommitTransaction ignores, or the process dies before.
WriteEndFails ==
    /\ writer = "committed"
    /\ writer' = "idle"
    /\ list' = IF list = NoList THEN NoList ELSE [list EXCEPT !.spared = TRUE]
    /\ UNCHANGED <<lookupVars, step, version, names>>

-----------------------------------------------------------------------------
Next ==
    \/ LookupNext /\ UNCHANGED listVars
    \/ \E r \in Requests :
          \/ \E v \in Versions, reload \in BOOLEAN :
                 GetMasterModelAll(r, v, reload)
          \/ GetList(r) \/ Find(r) \/ FillLocal(r) \/ SetList(r)
          \/ ExpireList(r) \/ MasterFails(r)
    \/ ListExpires
    \/ writer = "idle" /\ \E m \in FullKeys : Write(m)
    \/ WriteAllDeletes \/ WriteAllFails
    \/ Commit \/ CommitFails \/ Rollback
    \/ WriteEnd \/ WriteEndFails

Spec == MasterInit /\ [][Next]_vars

-----------------------------------------------------------------------------
(* Properties                                                              *)

Lists == [keys : SUBSET FullKeys, version : Versions \cup {EmptyVersion},
          expires : BOOLEAN, belated : BOOLEAN, spared : BOOLEAN]

TypeOK ==
    /\ LookupTypeOK
    /\ list \in Lists \cup {NoList}
    /\ step \in [Requests -> {"none", "get", "find", "fill", "set", "expire"}]
    /\ version \in [Requests -> Versions \cup {EmptyVersion}]
    /\ names \in [Requests -> SUBSET FullKeys]
    /\ writer \in {"idle", "written", "purged", "failed", "committed"}

\* When the request that deleted rows has ended, its rows are in no list, with
\* two exceptions: a list that a request stored after COMMIT which had read
\* the table before, and one that a WriteEnd should have deleted whose DEL was
\* lost.  A list that WriteAll's DEL missed, because it was stored between
\* that DEL and COMMIT, is none of them: WriteEnd is there for it.
DeletedRowsAreUnlisted ==
    list # NoList /\ writer # "committed" =>
        list.keys \subseteq rows \/ list.belated \/ list.spared
=============================================================================
