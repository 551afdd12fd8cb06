------------------------------ MODULE KeyLookup ------------------------------
(***************************************************************************)
(* Lookups by composite primary keys: getModels of                         *)
(* lib/db/manager/manager.go over the identity map (cache.go), the key      *)
(* strings (info.go), the cache of complete keys, which is the local cache  *)
(* for a master table and Redis for any other, and MySQL.  A key may be     *)
(* incomplete: it then stands for all rows below it.  ModelCache follows    *)
(* the contents of rows that have complete keys; here a model is only its   *)
(* key, and the question is which rows a lookup returns.                    *)
(*                                                                         *)
(* Every SQL statement and every command of a cache is a step.  Entries may *)
(* leave the cache at any time (expiry, a flush, an invalidation).          *)
(***************************************************************************)
EXTENDS Integers, SequencesExt, FiniteSetsExt

CONSTANTS
    Requests,   \* the concurrent requests
    Texts,      \* the values of a key column, as %v prints them
    KeyLen,     \* the number of key columns
    FullKeys,   \* the keys of the rows there may be
    Questions,  \* the sets of keys a request may ask for
    MasterWrites, \* TRUE if these requests lock and save master rows, too
    MaxChanges, \* bound on the changes of the table by other requests
    NoRow

KeysOfLength(n) == [1 .. n -> Texts]
Keys == UNION {KeysOfLength(n) : n \in 1 .. KeyLen}

ASSUME KeysAssumption ==
    /\ KeyLen \in Nat \ {0} /\ MaxChanges \in Nat
    /\ MasterWrites \in BOOLEAN
    /\ FullKeys \subseteq KeysOfLength(KeyLen)
    /\ IsFiniteSet(FullKeys)
    /\ \A q \in Questions : q \subseteq Keys /\ IsFiniteSet(q)
    /\ NoRow \notin FullKeys

VARIABLES
    master,       \* GetIsMaster of the table's models
    rows,         \* MySQL: the keys of the committed rows
    changing,     \* MySQL: the row another request inserts or deletes, or NoRow
    changes,      \* how many there were
    cache,        \* the local cache or Redis: the models in it
    tx,           \* Client.transaction # nil
    snap,         \* MySQL: the rows of the transaction's snapshot
    hasSnap,
    locks,        \* MySQL: the keys locked FOR UPDATE, with the gaps below them
    held,         \* ModelCacheStore: the models in the identity map
    isForUpdate,  \* those of them with IsForUpdate set
    reserved,     \* reservedSaveInfos, as far as it is about held models
    early,        \* history: models reserved before they were locked
    pc,
    call          \* the call under way

dbVars      == <<master, rows, changing, changes>>
txVars      == <<tx, snap, hasSnap, locks>>
managerVars == <<held, isForUpdate, reserved, early>>
lookupVars  == <<dbVars, cache, txVars, managerVars, pc, call>>

\* Mutant: the columns are joined without a separator.
JoinedBare(key) == FoldLeft(LAMBDA text, value : text \o value, <<>>, key)

\* strings.Join(keys, "#&#").
MakePrimaryKeyString(key) ==
    FoldLeft(LAMBDA text, value : text \o <<"#&#">> \o value, <<>>, key)

Prefix(model, n) == SubSeq(model, 1, n)

\* Mutant: only a complete key counts as found.
OwnName(model) == {MakePrimaryKeyString(Prefix(model, KeyLen))}

\* MakePrimaryKeyStringByModel for all lengths: the keys a model answers to.
Names(model) == {MakePrimaryKeyString(Prefix(model, n)) : n \in 1 .. KeyLen}

\* The models at or below a key, in the table or in the tree of maps of
\* ModelCacheStore.
Below(models, key) == {m \in models : Prefix(m, Len(key)) = key}

\* How many of the keys asked for return a model.
Times(asked, m) == Cardinality({key \in asked : m \in Below({m}, key)})

Complete(keys) == {key \in keys : Len(key) = KeyLen}

NoCall == [keys |-> {}, forUpdate |-> FALSE, kept |-> {}, missing |-> {},
           found |-> [m \in FullKeys |-> 0], fill |-> {}, stable |-> {}]

Init ==
    /\ master \in BOOLEAN
    /\ rows \in SUBSET FullKeys
    /\ changing = NoRow
    /\ changes = 0
    /\ cache = {}
    /\ tx = [r \in Requests |-> FALSE]
    /\ snap = [r \in Requests |-> {}]
    /\ hasSnap = [r \in Requests |-> FALSE]
    /\ locks = [r \in Requests |-> {}]
    /\ held = [r \in Requests |-> {}]
    /\ isForUpdate = [r \in Requests |-> {}]
    /\ reserved = [r \in Requests |-> {}]
    /\ early = [r \in Requests |-> {}]
    /\ pc = [r \in Requests |-> "app"]
    /\ call = [r \in Requests |-> NoCall]

Goto(r, step) == pc' = [pc EXCEPT ![r] = step]

-----------------------------------------------------------------------------
(* MySQL and the cache                                                     *)

\* The rows a plain SELECT returns, and those one FOR UPDATE returns.
Visible(r, forUpdate) == IF ~forUpdate /\ hasSnap[r] THEN snap[r] ELSE rows

\* ModelInfo.Query: the rows of one SELECT for keys of one length.
Selected(r, forUpdate, asked) ==
    UNION {Below(Visible(r, forUpdate), key) : key \in asked}

\* The first plain SELECT of a transaction takes its snapshot.
TakeSnapshot(r) ==
    IF tx[r] /\ ~hasSnap[r]
    THEN /\ snap' = [snap EXCEPT ![r] = rows]
         /\ hasSnap' = [hasSnap EXCEPT ![r] = TRUE]
    ELSE UNCHANGED <<snap, hasSnap>>

\* A key and one at or below it.
Overlap(k, l) == \E n \in {Len(k)} \cap 0 .. Len(l) : Prefix(l, n) = k

Lockable(r, keys) ==
    /\ \A q \in Requests \ {r} : \A k \in keys, l \in locks[q] :
            ~Overlap(k, l) /\ ~Overlap(l, k)
    /\ \A k \in keys : Below(FullKeys \cap {changing}, k) = {}

\* Another request changes a row nobody has locked; it ends with COMMIT or
\* ROLLBACK.
Change(m) ==
    /\ changing = NoRow /\ changes < MaxChanges
    /\ \A r \in Requests : \A k \in locks[r] : m \notin Below({m}, k)
    /\ changing' = m
    /\ changes' = changes + 1
    /\ UNCHANGED <<master, rows, cache, txVars, managerVars, pc, call>>

ChangeCommits ==
    /\ changing # NoRow
    /\ changing' = NoRow
    /\ IF changing \in rows
       THEN /\ rows' = rows \ {changing}
            /\ call' = [r \in Requests |->
                           [call[r] EXCEPT !.stable = @ \ {changing}]]
       ELSE rows' = rows \cup {changing} /\ UNCHANGED call
    /\ UNCHANGED <<master, changes, cache, txVars, managerVars, pc>>

ChangeRollsBack ==
    /\ changing # NoRow
    /\ changing' = NoRow
    /\ UNCHANGED <<master, rows, changes, cache, txVars, managerVars, pc, call>>

SameString(m) ==
    {x \in cache : MakePrimaryKeyString(x) = MakePrimaryKeyString(m)}

\* SET, and SETNX if there is no entry.
SetCache(m, replace) ==
    cache' = IF replace THEN (cache \ SameString(m)) \cup {m}
             ELSE IF SameString(m) = {} THEN cache \cup {m} ELSE cache

CacheLoses(m) ==
    /\ m \in cache
    /\ cache' = cache \ {m}
    /\ UNCHANGED <<dbVars, txVars, managerVars, pc, call>>

-----------------------------------------------------------------------------
(* The transactions of a request                                           *)

\* What the application's requests do with the table.
MayWrite == master => MasterWrites

\* Mutant: the flags outlive the models they belong to.
FlagsStay(r) ==
    /\ held' = [held EXCEPT ![r] = {}]
    /\ reserved' = [reserved EXCEPT ![r] = {}]
    /\ early' = [early EXCEPT ![r] = {}]
    /\ UNCHANGED isForUpdate

\* A new manager, or WriteAll, begins with an empty identity map.
FreshModels(r) ==
    /\ held' = [held EXCEPT ![r] = {}]
    /\ isForUpdate' = [isForUpdate EXCEPT ![r] = {}]
    /\ reserved' = [reserved EXCEPT ![r] = {}]
    /\ early' = [early EXCEPT ![r] = {}]

StartTransaction(r) ==
    /\ pc[r] = "app" /\ ~tx[r]
    /\ tx' = [tx EXCEPT ![r] = TRUE]
    /\ FreshModels(r)
    /\ UNCHANGED <<dbVars, cache, snap, hasSnap, locks, pc, call>>

\* CommitTransaction and RollbackTransaction, or the end of a request without
\* a transaction.  The rows others insert and delete are those of Change.
EndTransaction(r) ==
    /\ pc[r] = "app"
    /\ tx' = [tx EXCEPT ![r] = FALSE]
    /\ snap' = [snap EXCEPT ![r] = {}]
    /\ hasSnap' = [hasSnap EXCEPT ![r] = FALSE]
    /\ locks' = [locks EXCEPT ![r] = {}]
    /\ FreshModels(r)
    /\ UNCHANGED <<dbVars, cache, pc, call>>

\* SetSave of a model the request has read.
SetSave(r, m) ==
    /\ MayWrite
    /\ pc[r] = "app" /\ m \in held[r] \ reserved[r]
    /\ reserved' = [reserved EXCEPT ![r] = @ \cup {m}]
    /\ early' = IF m \in isForUpdate[r] THEN early
                ELSE [early EXCEPT ![r] = @ \cup {m}]
    /\ UNCHANGED <<dbVars, cache, txVars, held, isForUpdate, pc, call>>

\* WriteAll writes rows that exist, locks them, and forgets all models.
WriteAll(r) ==
    /\ pc[r] = "app" /\ tx[r] /\ reserved[r] # {}
    /\ reserved[r] \subseteq rows /\ Lockable(r, reserved[r])
    /\ locks' = [locks EXCEPT ![r] = @ \cup reserved[r]]
    /\ FreshModels(r)
    /\ UNCHANGED <<dbVars, cache, tx, snap, hasSnap, pc, call>>

-----------------------------------------------------------------------------
(* getModels                                                               *)

\* Mutant: what is held without its lock counts for a locked lookup too.
KeptAll(r, asked, forUpdate) == UNION {Below(held[r], key) : key \in asked}

\* The models of the identity map that answer: for a locked lookup only those
\* that are locked already.
Kept(r, asked, forUpdate) ==
    LET cached == UNION {Below(held[r], key) : key \in asked}
    IN IF forUpdate THEN cached \cap isForUpdate[r] ELSE cached

\* Mutant: a reserved model is read again like any other.
NeverDangerous(r, asked) == FALSE /\ asked \subseteq held[r]

\* A model that was reserved without its lock.
Dangerous(r, asked) ==
    \E key \in asked : Below(held[r] \cap reserved[r], key) \ isForUpdate[r] # {}

\* The keys the identity map has no model for.
NotExists(asked, kept) ==
    LET found == UNION {Names(m) : m \in kept}
    IN {key \in asked : MakePrimaryKeyString(key) \notin found}

\* Redis is for managers that do not write; no cache is for locked reads.
ReadsCache(r, forUpdate) == ~forUpdate /\ (master \/ ~tx[r])

\* Where a call goes that still misses some keys.
Continue(missing, fill) == IF fill # {} THEN "fill"
                           ELSE IF missing # {} THEN "query" ELSE "done"

\* The identity map; a dangerous call fails before it changed anything.
GetModels(r, asked, forUpdate) ==
    LET kept == Kept(r, asked, forUpdate)
        missing == NotExists(asked, kept)
    IN /\ ~(forUpdate /\ Dangerous(r, asked))
       /\ call' = [call EXCEPT ![r] =
             [keys |-> asked, forUpdate |-> forUpdate, kept |-> kept,
              missing |-> missing, fill |-> {},
              found |-> [m \in FullKeys |->
                            IF m \in kept THEN Times(asked, m) ELSE 0],
              stable |-> Visible(r, forUpdate)]]
       /\ Goto(r, IF Complete(missing) # {} /\ ReadsCache(r, forUpdate)
                  THEN "cache" ELSE Continue(missing, {}))
       /\ UNCHANGED <<dbVars, cache, txVars, managerVars>>

\* A request asks; locked lookups belong to transactions.
Ask(r) ==
    /\ pc[r] = "app"
    /\ \E asked \in Questions, forUpdate \in BOOLEAN :
           (forUpdate => tx[r] /\ MayWrite) /\ GetModels(r, asked, forUpdate)

\* The models of the cache a missing complete key leads to.
Hits(r) == {h \in Complete(call[r].missing) \X cache :
               MakePrimaryKeyString(h[1]) = MakePrimaryKeyString(h[2])}

\* Mutant: the keys found in the cache are asked for again.
StillAll(r) == call[r].missing

StillMissing(r) == call[r].missing \ {h[1] : h \in Hits(r)}

\* The MGET of the complete keys.  An error of the local cache is ignored.
ReadCache(r) ==
    LET models == {h[2] : h \in Hits(r)}
    IN /\ pc[r] = "cache"
       /\ \/ /\ call' = [call EXCEPT
                   ![r].missing = StillMissing(r),
                   ![r].found = [m \in FullKeys |-> @[m] +
                        Cardinality({h \in Hits(r) : h[2] = m})]]
             /\ held' = [held EXCEPT ![r] = @ \cup models]
             /\ isForUpdate' = [isForUpdate EXCEPT ![r] = @ \ models]
             /\ Goto(r, Continue(StillMissing(r), {}))
          \/ /\ master
             /\ Goto(r, "query")
             /\ UNCHANGED <<call, held, isForUpdate>>
       /\ UNCHANGED <<dbVars, cache, txVars, reserved, early>>

\* One SELECT for all missing keys of a length, in no fixed order of the
\* lengths.  New models replace those of the identity map.
Query(r, n) ==
    LET c == call[r]
        keys == {key \in c.missing : Len(key) = n}
        models == Selected(r, c.forUpdate, keys)
        fill == IF master \/ n = KeyLen THEN models ELSE {}
    IN /\ pc[r] = "query" /\ keys # {}
       /\ IF c.forUpdate
          THEN /\ Lockable(r, keys)
               /\ locks' = [locks EXCEPT ![r] = @ \cup keys]
               /\ UNCHANGED <<snap, hasSnap>>
          ELSE TakeSnapshot(r) /\ UNCHANGED locks
       /\ held' = [held EXCEPT ![r] = @ \cup models]
       /\ isForUpdate' = [isForUpdate EXCEPT ![r] =
             IF c.forUpdate THEN @ \cup models ELSE @ \ models]
       /\ call' = [call EXCEPT
             ![r].missing = @ \ keys, ![r].fill = fill,
             ![r].found = [m \in FullKeys |->
                              IF m \in models THEN @[m] + 1 ELSE @[m]]]
       /\ Goto(r, Continue(c.missing \ keys, fill))
       /\ UNCHANGED <<dbVars, cache, tx, reserved, early>>

\* SetLocalCache, or SaveModelsToCache, for one of the rows just read.
Fill(r) ==
    LET c == call[r]
        m == CHOOSE x \in c.fill : TRUE
    IN /\ pc[r] = "fill"
       /\ SetCache(m, master \/ c.forUpdate)
       /\ call' = [call EXCEPT ![r].fill = @ \ {m}]
       /\ Goto(r, Continue(c.missing, c.fill \ {m}))
       /\ UNCHANGED <<dbVars, txVars, managerVars>>

\* A statement or a command fails; what was read so far stays in the identity
\* map.
LookupFails(r) ==
    /\ \/ pc[r] \in {"query", "fill"}
       \/ pc[r] = "cache" /\ ~master
    /\ Goto(r, "app")
    /\ call' = [call EXCEPT ![r] = NoCall]
    /\ UNCHANGED <<dbVars, cache, txVars, managerVars>>

\* The call returns what it found.
LookupReturns(r) ==
    /\ pc[r] = "done"
    /\ Goto(r, "app")
    /\ call' = [call EXCEPT ![r] = NoCall]
    /\ UNCHANGED <<dbVars, cache, txVars, managerVars>>

LookupNext ==
    \/ \E m \in FullKeys : CacheLoses(m)
    \/ \E r \in Requests :
          \/ StartTransaction(r) \/ EndTransaction(r) \/ WriteAll(r)
          \/ \E m \in FullKeys : SetSave(r, m)
          \/ Ask(r) \/ ReadCache(r) \/ Fill(r)
          \/ \E n \in 1 .. KeyLen : Query(r, n)
          \/ LookupFails(r) \/ LookupReturns(r)

-----------------------------------------------------------------------------
(* Properties                                                              *)

Calls == [keys : SUBSET Keys, forUpdate : BOOLEAN, kept : SUBSET FullKeys,
          missing : SUBSET Keys, found : [FullKeys -> Nat],
          fill : SUBSET FullKeys, stable : SUBSET FullKeys]

LookupTypeOK ==
    /\ master \in BOOLEAN
    /\ rows \in SUBSET FullKeys
    /\ changing \in FullKeys \cup {NoRow}
    /\ changes \in 0 .. MaxChanges
    /\ cache \in SUBSET FullKeys
    /\ tx \in [Requests -> BOOLEAN]
    /\ snap \in [Requests -> SUBSET FullKeys]
    /\ hasSnap \in [Requests -> BOOLEAN]
    /\ locks \in [Requests -> SUBSET Keys]
    /\ held \in [Requests -> SUBSET FullKeys]
    /\ isForUpdate \in [Requests -> SUBSET FullKeys]
    /\ reserved \in [Requests -> SUBSET FullKeys]
    /\ early \in [Requests -> SUBSET FullKeys]
    /\ pc \in [Requests -> {"app", "list", "cache", "query", "fill", "done"}]
    /\ \A r \in Requests : isForUpdate[r] \cup early[r] \subseteq held[r]
    /\ call \in [Requests -> Calls]

\* A lookup returns each row at most once for each key that was asked for, and
\* nothing no key asked for, whichever of the identity map, the cache and the
\* queries of the different lengths each part came from.
ResultsMatchTheKeys ==
    \A r \in Requests : pc[r] = "done" =>
        \A m \in FullKeys : call[r].found[m] <= Times(call[r].keys, m)

\* A lookup that succeeds returns every row that was there all the time below
\* a key it was asked for.  The exception is an incomplete key below which the
\* identity map had a model before: such a key is not looked up any more.
LookupsAreComplete ==
    \A r \in Requests : pc[r] = "done" =>
        \A key \in call[r].keys :
            \/ Len(key) < KeyLen /\ Below(call[r].kept, key) # {}
            \/ \A m \in Below(call[r].stable, key) : call[r].found[m] > 0

\* What a locked lookup returns is there and locked, also where the models of
\* earlier lookups, locked or not, met it in the identity map.
LockedResultsAreLocked ==
    \A r \in Requests : pc[r] = "done" /\ call[r].forUpdate =>
        \A m \in FullKeys : call[r].found[m] > 0 =>
            m \in rows /\ \E key \in locks[r] : m \in Below({m}, key)

\* A model reserved for saving before it was locked is never marked as locked:
\* its save, made from a row that may have changed since, cannot pass as one
\* made under the lock, whatever keys the later locked lookups ask for.
EarlySavesStayUnlocked ==
    \A r \in Requests : early[r] \cap isForUpdate[r] = {}

\* A locked model stays the request's model of the row until the identity map
\* is emptied: no later plain lookup, of whatever keys, puts an unlocked copy
\* in its place.
LockedModelsAreKept ==
    [][\A r \in Requests : held'[r] # {} => isForUpdate[r] \subseteq
            isForUpdate'[r]]_lookupVars
=============================================================================
