-------------------------- MODULE MasterList_proofs --------------------------
(***************************************************************************)
(* Proofs about lookups by composite keys and about the key list of master  *)
(* tables, for any number of key columns, rows, requests and versions.      *)
(* LookupInv says of a call under way that what it has found so far belongs *)
(* to the keys it no longer misses, and that no locked model, or none       *)
(* reserved too early, lies below a key it still misses.                    *)
(***************************************************************************)
EXTENDS MasterList, FiniteSetTheorems, TLAPS

\* Different keys have different strings: with the separator, and values that
\* do not contain it, this is what MakePrimaryKeyString is for.
KeyStringsDiffer ==
    \A k, l \in Keys : MakePrimaryKeyString(k) = MakePrimaryKeyString(l) => k = l

Covered(r, m) == \E key \in locks[r] : m \in Below({m}, key)

-----------------------------------------------------------------------------
(* Keys and prefixes                                                       *)

LEMMA KeyLengths ==
    ASSUME NEW key \in Keys
    PROVE  Len(key) \in 1 .. KeyLen /\ key \in KeysOfLength(Len(key))
BY KeysAssumption DEF Keys, KeysOfLength

LEMMA FullKeysAreKeys == FullKeys \subseteq Keys
BY KeysAssumption DEF Keys

LEMMA PrefixOfModel ==
    ASSUME NEW m \in FullKeys, NEW n \in 1 .. KeyLen
    PROVE  Prefix(m, n) \in Keys /\ Len(Prefix(m, n)) = n
<1>1. m \in Seq(Texts) /\ Len(m) = KeyLen
  BY KeysAssumption DEF KeysOfLength
<1>2. Prefix(m, n) = [i \in 1 .. n |-> m[i]]
  BY <1>1, KeysAssumption DEF Prefix
<1>3. Prefix(m, n) \in KeysOfLength(n)
  BY <1>1, <1>2 DEF KeysOfLength
<1> QED
  BY <1>2, <1>3, KeysAssumption DEF Keys, KeysOfLength

LEMMA WholeModel ==
    ASSUME NEW m \in FullKeys
    PROVE  Len(m) = KeyLen /\ Prefix(m, KeyLen) = m
<1>1. m \in Seq(Texts) /\ Len(m) = KeyLen
  BY KeysAssumption DEF KeysOfLength
<1>2. Prefix(m, KeyLen) = [i \in 1 .. KeyLen |-> m[i]]
  BY <1>1, KeysAssumption DEF Prefix
<1> QED
  BY <1>1, <1>2, KeysAssumption DEF KeysOfLength

\* A model below a key answers to it.
LEMMA NamedBelow ==
    ASSUME NEW S \in SUBSET FullKeys, NEW key \in Keys, NEW m \in Below(S, key)
    PROVE  MakePrimaryKeyString(key) \in Names(m)
BY KeyLengths DEF Below, Names

\* With different strings it answers to no other.
LEMMA BelowNamed ==
    ASSUME KeyStringsDiffer, NEW m \in FullKeys, NEW key \in Keys,
           MakePrimaryKeyString(key) \in Names(m)
    PROVE  m \in Below({m}, key)
<1>1. PICK n \in 1 .. KeyLen :
         MakePrimaryKeyString(key) = MakePrimaryKeyString(Prefix(m, n))
  BY DEF Names
<1>2. key = Prefix(m, n) /\ Len(key) = n
  BY <1>1, PrefixOfModel DEF KeyStringsDiffer
<1> QED
  BY <1>2 DEF Below

-----------------------------------------------------------------------------
(* Counting                                                                *)

LEMMA TimesType ==
    ASSUME NEW asked, IsFiniteSet(asked), NEW m
    PROVE  Times(asked, m) \in Nat
<1> DEFINE S == {key \in asked : m \in Below({m}, key)}
<1>1. IsFiniteSet(S)
  BY FS_Subset
<1> QED
  BY <1>1, FS_CardinalityType DEF Times

LEMMA TimesPositive ==
    ASSUME NEW asked, IsFiniteSet(asked), NEW m, NEW key \in asked,
           m \in Below({m}, key)
    PROVE  Times(asked, m) > 0
<1> DEFINE S == {k \in asked : m \in Below({m}, k)}
<1>1. IsFiniteSet(S) /\ key \in S
  BY FS_Subset
<1>2. Cardinality(S) # 0 /\ Cardinality(S) \in Nat
  BY <1>1, FS_EmptySet, FS_CardinalityType
<1> QED
  BY <1>2 DEF Times

\* The keys of a larger set return a model more often.
LEMMA TimesGrow ==
    ASSUME NEW more, IsFiniteSet(more), NEW asked \in SUBSET more, NEW m
    PROVE  /\ Times(asked, m) <= Times(more, m)
           /\ \A key \in more \ asked :
                 m \in Below({m}, key) => Times(asked, m) + 1 <= Times(more, m)
<1> DEFINE S == {k \in asked : m \in Below({m}, k)}
           T == {k \in more : m \in Below({m}, k)}
<1>1. IsFiniteSet(T) /\ S \subseteq T /\ Times(asked, m) = Cardinality(S)
      /\ Times(more, m) = Cardinality(T)
  BY FS_Subset DEF Times
<1>3. \A key \in more \ asked : m \in Below({m}, key) => S # T
  OBVIOUS
<1> HIDE DEF S, T
<1>2. /\ Cardinality(S) \in Nat /\ Cardinality(T) \in Nat
      /\ Cardinality(S) <= Cardinality(T)
      /\ S # T => Cardinality(S) < Cardinality(T)
  BY <1>1, FS_Subset, FS_CardinalityType
<1>4. S # T => Cardinality(S) + 1 <= Cardinality(T)
  BY <1>2
<1> QED
  BY <1>1, <1>2, <1>3, <1>4

-----------------------------------------------------------------------------
(* The invariant                                                           *)

\* Where a call stands.
CallFits(r) ==
    /\ IsFiniteSet(call[r].keys) /\ call[r].missing \subseteq call[r].keys
    /\ step[r] # "none" => pc[r] = "list"
    /\ pc[r] = "fill" \/ step[r] = "fill" => call[r].fill # {}
    /\ pc[r] = "cache" => ~call[r].forUpdate
    /\ pc[r] = "done" => call[r].missing = {}
    /\ pc[r] \in {"app", "list"} =>
          /\ call[r].keys = {} /\ call[r].stable = {} /\ ~call[r].forUpdate
          /\ \A m \in FullKeys : call[r].found[m] = 0

\* Locked models are locked rows that exist; nobody changes a locked row.
LocksFit(r) ==
    /\ \A m \in isForUpdate[r] : m \in rows /\ Covered(r, m)
    /\ changing # NoRow => ~Covered(r, changing)

\* No locked lookup will lock what was reserved too early, no plain one will
\* replace a locked model, and all models of a locked lookup are locked.
FlagsFit(r) ==
    /\ early[r] \subseteq reserved[r]
    /\ early[r] \cap isForUpdate[r] = {}
    /\ \A key \in call[r].missing :
          Below(IF call[r].forUpdate THEN early[r] ELSE isForUpdate[r], key) = {}
    /\ call[r].forUpdate => \A m \in FullKeys :
          call[r].found[m] > 0 => m \in isForUpdate[r]

\* What was there all the time is what the queries will see.
StableFits(r) == call[r].stable \subseteq Visible(r, call[r].forUpdate)

\* A key that is not missing any more has its models, and no model was found
\* more often than by these keys.
FoundFits(r) ==
    /\ \A key \in call[r].keys \ call[r].missing :
          \/ Len(key) < KeyLen /\ Below(call[r].kept, key) # {}
          \/ \A m \in Below(call[r].stable, key) : call[r].found[m] > 0
    /\ \A m \in FullKeys :
          call[r].found[m] <= Times(call[r].keys \ call[r].missing, m)

CallsInv == \A r \in Requests : CallFits(r)
LocksInv == \A r \in Requests : LocksFit(r)
FlagsInv == \A r \in Requests : FlagsFit(r)
StableInv == \A r \in Requests : StableFits(r)
FoundInv == \A r \in Requests : FoundFits(r)

LookupInv == TypeOK /\ CallsInv /\ LocksInv /\ FlagsInv /\ StableInv /\ FoundInv

LEMMA NoCallType == NoCall \in Calls
BY DEF NoCall, Calls

LEMMA LookupInvInit == MasterInit => LookupInv
<1> SUFFICES ASSUME MasterInit PROVE LookupInv
  OBVIOUS
<1> USE DEF MasterInit, Init
<1>1. TypeOK
  BY NoCallType, KeysAssumption DEF TypeOK, LookupTypeOK, Lists
<1>2. CallsInv
  BY FS_EmptySet DEF CallsInv, CallFits, NoCall
<1>3. LocksInv /\ FlagsInv /\ StableInv
  BY DEF LocksInv, LocksFit, FlagsInv, FlagsFit, StableInv, StableFits, NoCall,
         Covered, Below
<1>4. FoundInv
  <2>1. ASSUME NEW m \in FullKeys PROVE Times({}, m) \in Nat /\ 0 <= Times({}, m)
    BY FS_EmptySet, TimesType
  <2> QED
    BY <2>1 DEF FoundInv, FoundFits, NoCall
<1> QED
  BY <1>1, <1>2, <1>3, <1>4 DEF LookupInv

-----------------------------------------------------------------------------
(* Steps outside of a call                                                 *)

\* A step that touches the cache, the list and the progress of others only.
LEMMA QuietStep ==
    ASSUME LookupInv, TypeOK',
           UNCHANGED <<rows, changing, snap, hasSnap, locks, managerVars, pc, call,
                       step>>
    PROVE  LookupInv'
<1>1. CallsInv' /\ FlagsInv' /\ FoundInv'
  BY DEF LookupInv, CallsInv, CallFits, FlagsInv, FlagsFit, FoundInv, FoundFits,
         managerVars
<1>2. StableInv'
  BY DEF LookupInv, StableInv, StableFits, Visible, managerVars
<1>3. LocksInv'
  BY DEF LookupInv, LocksInv, LocksFit, Covered, managerVars
<1> QED
  BY <1>1, <1>2, <1>3 DEF LookupInv

\* The cache changes.
LEMMA CacheStep ==
    ASSUME LookupInv, NEW m \in FullKeys, CacheLoses(m), UNCHANGED listVars
    PROVE  LookupInv'
<1>1. TypeOK'
  BY DEF LookupInv, TypeOK, LookupTypeOK, CacheLoses, listVars, dbVars, txVars,
         managerVars
<1> QED
  BY <1>1, QuietStep DEF CacheLoses, listVars, dbVars, txVars

\* The identity map is emptied between two calls; locks may be added, or all
\* given back.
LEMMA FreshStep ==
    ASSUME LookupInv, NEW r \in Requests, pc[r] = "app", FreshModels(r),
           tx' \in [Requests -> BOOLEAN], snap' \in [Requests -> SUBSET FullKeys],
           hasSnap' \in [Requests -> BOOLEAN],
           \A q \in Requests \ {r} : snap'[q] = snap[q] /\ hasSnap'[q] = hasSnap[q],
           NEW l \in SUBSET Keys, locks' = [locks EXCEPT ![r] = l],
           \A key \in l : key \in locks[r] \/ Below(FullKeys \cap {changing}, key) = {},
           UNCHANGED <<dbVars, cache, pc, call>>, UNCHANGED listVars
    PROVE  LookupInv'
<1> USE DEF LookupInv
<1>1. TypeOK'
  BY DEF TypeOK, LookupTypeOK, FreshModels, dbVars, listVars
<1>2. CallsInv'
  BY DEF CallsInv, CallFits, listVars
<1>3. LocksInv'
  <2> SUFFICES ASSUME NEW q \in Requests
               PROVE  /\ \A m \in isForUpdate'[q] : m \in rows /\ Covered(q, m)'
                      /\ changing # NoRow => ~Covered(q, changing)'
    BY DEF LocksInv, LocksFit, dbVars
  <2>1. CASE q = r
    <3>1. isForUpdate'[q] = {} /\ locks'[q] = l
      BY <2>1 DEF FreshModels, TypeOK, LookupTypeOK
    <3>2. changing # NoRow => changing \in FullKeys /\ ~Covered(q, changing)
      BY DEF LocksInv, LocksFit, TypeOK, LookupTypeOK
    <3> QED
      BY <2>1, <3>1, <3>2 DEF Covered, Below, dbVars
  <2>2. CASE q # r
    BY <2>2 DEF LocksInv, LocksFit, FreshModels, Covered, dbVars, TypeOK, LookupTypeOK
  <2> QED BY <2>1, <2>2
<1>4. call[r].missing = {} /\ ~call[r].forUpdate /\ call[r].stable = {}
  BY DEF CallsInv, CallFits
<1>5. FlagsInv'
  BY <1>4 DEF FlagsInv, FlagsFit, FreshModels, Below, TypeOK, LookupTypeOK
<1>6. StableInv'
  BY <1>4 DEF StableInv, StableFits, Visible, dbVars
<1>7. FoundInv'
  BY DEF FoundInv, FoundFits
<1> QED
  BY <1>1, <1>2, <1>3, <1>5, <1>6, <1>7

LEMMA TransactionSteps ==
    ASSUME LookupInv, NEW r \in Requests, UNCHANGED listVars,
           StartTransaction(r) \/ EndTransaction(r) \/ WriteAll(r)
    PROVE  LookupInv'
<1> USE DEF LookupInv, TypeOK, LookupTypeOK
<1>1. CASE StartTransaction(r)
  <2>1. locks' = [locks EXCEPT ![r] = locks[r]]
    BY <1>1 DEF StartTransaction
  <2> QED
    BY <1>1, <2>1, FreshStep DEF StartTransaction
<1>2. CASE EndTransaction(r)
  <2>1. /\ tx' \in [Requests -> BOOLEAN] /\ snap' \in [Requests -> SUBSET FullKeys]
        /\ hasSnap' \in [Requests -> BOOLEAN]
        /\ \A q \in Requests \ {r} : snap'[q] = snap[q] /\ hasSnap'[q] = hasSnap[q]
    BY <1>2 DEF EndTransaction
  <2>2. /\ locks' = [locks EXCEPT ![r] = {}] /\ {} \in SUBSET Keys
        /\ pc[r] = "app" /\ FreshModels(r)
        /\ UNCHANGED <<dbVars, cache, pc, call>>
    BY <1>2 DEF EndTransaction
  <2>3. \A key \in {} : key \in locks[r] \/ Below(FullKeys \cap {changing}, key) = {}
    OBVIOUS
  <2> HIDE DEF LookupInv, TypeOK, LookupTypeOK
  <2> QED
    BY <2>1, <2>2, <2>3, FreshStep
<1>3. CASE WriteAll(r)
  <2>1. reserved[r] \subseteq Keys
    BY FullKeysAreKeys
  <2>2. \A key \in locks[r] \cup reserved[r] :
           key \in locks[r] \/ Below(FullKeys \cap {changing}, key) = {}
    BY <1>3 DEF WriteAll, Lockable
  <2>3. locks' = [locks EXCEPT ![r] = locks[r] \cup reserved[r]]
        /\ locks[r] \cup reserved[r] \in SUBSET Keys
    BY <1>3, <2>1 DEF WriteAll
  <2>4. /\ tx' \in [Requests -> BOOLEAN] /\ snap' = snap /\ hasSnap' = hasSnap
        /\ pc[r] = "app" /\ FreshModels(r)
        /\ UNCHANGED <<dbVars, cache, pc, call>>
    BY <1>3 DEF WriteAll
  <2> QED
    BY <2>2, <2>3, <2>4, FreshStep
<1> QED
  BY <1>1, <1>2, <1>3

\* A held model is reserved.
LEMMA SetSaveStep ==
    ASSUME LookupInv, NEW r \in Requests, NEW m \in FullKeys, SetSave(r, m),
           UNCHANGED listVars
    PROVE  LookupInv'
<1> USE DEF LookupInv
<1>1. TypeOK'
  BY DEF TypeOK, LookupTypeOK, SetSave, dbVars, txVars, listVars
<1>2. CallsInv' /\ LocksInv' /\ StableInv' /\ FoundInv'
  BY DEF SetSave, CallsInv, CallFits, LocksInv, LocksFit, StableInv, StableFits,
         FoundInv, FoundFits, Visible, Covered, dbVars, txVars, listVars
<1>3. call[r].missing = {} /\ ~call[r].forUpdate
  BY DEF CallsInv, CallFits, SetSave
<1>4. /\ early'[r] \subseteq reserved'[r] /\ early'[r] \cap isForUpdate[r] = {}
      /\ \A q \in Requests \ {r} : early'[q] = early[q] /\ reserved'[q] = reserved[q]
      /\ UNCHANGED <<call, isForUpdate>>
  BY DEF FlagsInv, FlagsFit, SetSave, TypeOK, LookupTypeOK
<1>5. FlagsInv'
  <2> SUFFICES ASSUME NEW q \in Requests
               PROVE  /\ early'[q] \subseteq reserved'[q]
                      /\ early'[q] \cap isForUpdate[q] = {}
                      /\ \A key \in call[q].missing :
                            Below(IF call[q].forUpdate THEN early'[q]
                                  ELSE isForUpdate[q], key) = {}
                      /\ call[q].forUpdate => \A x \in FullKeys :
                            call[q].found[x] > 0 => x \in isForUpdate[q]
    BY <1>4 DEF FlagsInv, FlagsFit
  <2>1. CASE q = r
    BY <1>3, <1>4, <2>1
  <2>2. CASE q # r
    BY <1>4, <2>2 DEF FlagsInv, FlagsFit
  <2> QED BY <2>1, <2>2
<1> QED
  BY <1>1, <1>2, <1>5

-----------------------------------------------------------------------------
(* The other requests                                                      *)

LEMMA ChangeStep ==
    ASSUME LookupInv, NEW m \in FullKeys, Change(m), TypeOK', UNCHANGED step
    PROVE  LookupInv'
<1> USE DEF LookupInv
<1>1. CallsInv' /\ FoundInv'
  BY DEF Change, CallsInv, CallFits, FoundInv, FoundFits, txVars, managerVars
<1>4. FlagsInv'
  BY DEF Change, FlagsInv, FlagsFit, txVars, managerVars
<1>2. StableInv'
  BY DEF Change, StableInv, StableFits, Visible, txVars, managerVars
<1>3. LocksInv'
  BY DEF Change, LocksInv, LocksFit, Covered, txVars, managerVars
<1> QED
  BY <1>1, <1>2, <1>3, <1>4

LEMMA RollsBackStep ==
    ASSUME LookupInv, ChangeRollsBack, TypeOK', UNCHANGED step
    PROVE  LookupInv'
<1> USE DEF LookupInv
<1>1. CallsInv' /\ FlagsInv' /\ FoundInv'
  BY DEF ChangeRollsBack, CallsInv, CallFits, FlagsInv, FlagsFit, FoundInv,
         FoundFits, txVars, managerVars
<1>2. StableInv'
  BY DEF ChangeRollsBack, StableInv, StableFits, Visible, txVars, managerVars
<1>3. LocksInv'
  BY DEF ChangeRollsBack, LocksInv, LocksFit, Covered, txVars, managerVars
<1> QED
  BY <1>1, <1>2, <1>3

\* A deleted row was locked by nobody, so no locked model loses its row; it
\* leaves the rows that were there all the time.
LEMMA ChangeCommitsStep ==
    ASSUME LookupInv, ChangeCommits, TypeOK', UNCHANGED step
    PROVE  LookupInv'
<1> USE DEF LookupInv
<1>1. /\ changing \in FullKeys /\ changing' = NoRow
      /\ UNCHANGED <<snap, hasSnap, locks, held, isForUpdate, reserved, early, pc>>
  BY DEF ChangeCommits, txVars, managerVars, TypeOK, LookupTypeOK
<1>2. ASSUME NEW r \in Requests
      PROVE  /\ call'[r].keys = call[r].keys /\ call'[r].kept = call[r].kept
             /\ call'[r].missing = call[r].missing /\ call'[r].fill = call[r].fill
             /\ call'[r].found = call[r].found
             /\ call'[r].forUpdate = call[r].forUpdate
             /\ call'[r].stable \subseteq call[r].stable
             /\ changing \in rows => changing \notin call'[r].stable
  <2>1. call[r] \in Calls
    BY DEF TypeOK, LookupTypeOK
  <2>2. CASE changing \in rows
    <3>1. call'[r] = [call[r] EXCEPT !.stable = @ \ {changing}]
      BY <2>2 DEF ChangeCommits
    <3> QED
      BY <2>1, <3>1 DEF Calls
  <2>3. CASE changing \notin rows
    BY <2>3 DEF ChangeCommits
  <2> QED
    BY <2>2, <2>3
<1>3. rows \ {changing} \subseteq rows'
  BY DEF ChangeCommits
<1>4. CallsInv'
  BY <1>1, <1>2 DEF CallsInv, CallFits
<1>5. LocksInv'
  <2> SUFFICES ASSUME NEW r \in Requests, NEW m \in isForUpdate[r]
               PROVE  m \in rows' /\ Covered(r, m)
    BY <1>1 DEF LocksInv, LocksFit, Covered
  <2>1. m \in rows /\ Covered(r, m) /\ ~Covered(r, changing)
    BY <1>1 DEF LocksInv, LocksFit, ChangeCommits
  <2> QED
    BY <2>1, <1>3
<1>6. FlagsInv'
  BY <1>1, <1>2 DEF FlagsInv, FlagsFit
<1>7. StableInv'
  BY <1>1, <1>2, <1>3 DEF StableInv, StableFits, Visible, ChangeCommits
<1>8. FoundInv'
  <2>1. ASSUME NEW r \in Requests, NEW key
        PROVE  Below(call'[r].stable, key) \subseteq Below(call[r].stable, key)
    BY <1>2 DEF Below
  <2> SUFFICES ASSUME NEW r \in Requests
               PROVE  /\ \A key \in call[r].keys \ call[r].missing :
                            \/ Len(key) < KeyLen /\ Below(call[r].kept, key) # {}
                            \/ \A m \in Below(call'[r].stable, key) :
                                   call[r].found[m] > 0
                      /\ \A m \in FullKeys : call[r].found[m]
                            <= Times(call[r].keys \ call[r].missing, m)
    BY <1>2 DEF FoundInv, FoundFits
  <2> QED
    BY <2>1 DEF FoundInv, FoundFits
<1> QED
  BY <1>4, <1>5, <1>6, <1>7, <1>8

-----------------------------------------------------------------------------
(* The steps of a call                                                     *)

\* GetModels asks a finite set of keys.
LEMMA GetModelsStep ==
    ASSUME LookupInv, KeyStringsDiffer, NEW r \in Requests, NEW asked \in SUBSET Keys,
           IsFiniteSet(asked), NEW forUpdate \in BOOLEAN,
           GetModels(r, asked, forUpdate), step'[r] = "none",
           \A q \in Requests \ {r} : step'[q] = step[q],
           UNCHANGED <<list, names, writer>>,
           version' \in [Requests -> Versions \cup {EmptyVersion}],
           step' \in [Requests -> {"none", "get", "find", "fill", "set", "expire"}]
    PROVE  LookupInv'
<1> DEFINE kept == Kept(r, asked, forUpdate)
           missing == NotExists(asked, kept)
           found == [m \in FullKeys |-> IF m \in kept THEN Times(asked, m) ELSE 0]
           new == [keys |-> asked, forUpdate |-> forUpdate, kept |-> kept,
                   missing |-> missing, fill |-> {}, found |-> found,
                   stable |-> Visible(r, forUpdate)]
<1> USE DEF LookupInv
<1>1. /\ call' = [call EXCEPT ![r] = new]
      /\ UNCHANGED <<dbVars, cache, txVars, managerVars>>
      /\ pc' = [pc EXCEPT ![r] =
                   IF Complete(missing) # {} /\ ReadsCache(r, forUpdate)
                   THEN "cache" ELSE Continue(missing, {})]
      /\ ~(forUpdate /\ Dangerous(r, asked))
  BY Zenon DEF GetModels, Goto
<1>2. /\ kept \subseteq held[r] /\ held[r] \subseteq FullKeys /\ missing \subseteq asked
      /\ forUpdate => kept \subseteq isForUpdate[r]
  BY DEF Kept, Below, NotExists, TypeOK, LookupTypeOK
<1>3. \A key \in asked : Below(IF forUpdate THEN held[r] \cap isForUpdate[r]
                               ELSE held[r], key) \subseteq kept
  BY DEF Kept, Below
<1>4. \A m \in kept : \E key \in asked : m \in Below({m}, key)
  BY DEF Kept, Below
<1>5. \A key \in asked, m \in kept : m \in Below({m}, key) => key \notin missing
  BY <1>2, NamedBelow DEF NotExists, Below
<1>6. \A key \in asked \ missing : \E m \in kept : m \in Below({m}, key)
  BY <1>2, BelowNamed DEF NotExists
<1>7. \A m \in FullKeys : Times(asked, m) \in Nat
  BY TimesType
<1> HIDE DEF kept, missing
<1>8. new \in Calls
  BY <1>2, <1>7 DEF Calls, Visible, TypeOK, LookupTypeOK
<1>9. pc'[r] \in {"cache", "query", "done"}
      /\ (pc'[r] = "cache" => ~forUpdate) /\ (pc'[r] = "done" => missing = {})
      /\ \A q \in Requests \ {r} : pc'[q] = pc[q]
  BY <1>1 DEF TypeOK, LookupTypeOK, ReadsCache, Continue, Complete
<1>10. TypeOK'
  <2>1. call' \in [Requests -> Calls]
    BY <1>1, <1>8 DEF TypeOK, LookupTypeOK
  <2>2. pc' \in [Requests -> {"app", "list", "cache", "query", "fill", "done"}]
    BY <1>1, <1>9 DEF TypeOK, LookupTypeOK
  <2> HIDE DEF new
  <2> QED
    BY <1>1, <2>1, <2>2 DEF TypeOK, LookupTypeOK, dbVars, txVars, managerVars
<1>11. call'[r] = new /\ \A q \in Requests \ {r} : call'[q] = call[q]
  BY <1>1 DEF TypeOK, LookupTypeOK
<1>12. CallsInv'
  BY <1>2, <1>9, <1>11 DEF CallsInv, CallFits
<1>13. LocksInv'
  BY <1>1 DEF LocksInv, LocksFit, Covered, dbVars, txVars, managerVars
<1>14. FlagsInv'
  <2>0. /\ call'[r].missing = missing /\ call'[r].found = found
        /\ call'[r].forUpdate = forUpdate
        /\ UNCHANGED <<held, isForUpdate, reserved, early>>
    BY <1>1, <1>11 DEF managerVars
  <2>1. ASSUME NEW key \in missing, NEW m \in isForUpdate[r], ~forUpdate,
               m \in Below({m}, key)
        PROVE  FALSE
    BY <1>2, <1>3, <1>5, <2>1 DEF Below, TypeOK, LookupTypeOK
  <2>2. ASSUME NEW key \in missing, NEW m \in early[r], forUpdate,
               m \in Below({m}, key)
        PROVE  FALSE
    BY <1>1, <1>2, <2>2 DEF Dangerous, Below, FlagsInv, FlagsFit, TypeOK, LookupTypeOK
  <2>3. /\ \A key \in missing :
              Below(IF forUpdate THEN early[r] ELSE isForUpdate[r], key) = {}
        /\ forUpdate => \A m \in FullKeys : found[m] > 0 => m \in isForUpdate[r]
    BY <1>2, <2>1, <2>2 DEF Below
  <2> HIDE DEF new, found
  <2> QED
    BY <1>11, <2>0, <2>3 DEF FlagsInv, FlagsFit
<1>15. StableInv'
  BY <1>1, <1>11 DEF StableInv, StableFits, Visible, dbVars, txVars
<1>16. FoundInv'
  <2>1. ASSUME NEW key \in asked \ missing
        PROVE  \/ Len(key) < KeyLen /\ Below(kept, key) # {}
               \/ \A m \in Below(Visible(r, forUpdate), key) : found[m] > 0
    <3>1. PICK m \in kept : m \in Below({m}, key)
      BY <1>6
    <3>2. CASE Len(key) < KeyLen
      BY <3>1, <3>2 DEF Below
    <3>3. CASE Len(key) = KeyLen
      <4>1. key = m
        BY <1>2, <3>1, <3>3, WholeModel DEF Below
      <4>2. Times(asked, m) > 0
        BY <3>1, TimesPositive
      <4>3. \A x \in Below(Visible(r, forUpdate), key) : x = m
        BY <3>3, <4>1, WholeModel DEF Below, Visible, TypeOK, LookupTypeOK
      <4> QED
        BY <1>2, <4>2, <4>3
    <3> QED
      BY <3>2, <3>3, KeyLengths, KeysAssumption
  <2>2. ASSUME NEW m \in FullKeys
        PROVE  found[m] <= Times(asked \ missing, m)
    <3>1. IsFiniteSet(asked \ missing)
      BY FS_Subset
    <3>2. CASE m \in kept
      <4>1. {key \in asked : m \in Below({m}, key)}
              = {key \in asked \ missing : m \in Below({m}, key)}
        BY <1>5, <3>2
      <4>2. Times(asked, m) = Times(asked \ missing, m)
        BY <4>1 DEF Times
      <4>3. found[m] = Times(asked, m) /\ Times(asked, m) \in Nat
        BY <1>7, <3>2
      <4> HIDE DEF found
      <4> QED
        BY <4>2, <4>3
    <3>3. CASE m \notin kept
      <4>1. Times(asked \ missing, m) \in Nat /\ found[m] = 0
        BY <3>1, <3>3, TimesType
      <4> HIDE DEF found
      <4> QED
        BY <4>1
    <3> QED BY <3>2, <3>3
  <2>3. /\ call'[r].keys = asked /\ call'[r].missing = missing
        /\ call'[r].kept = kept /\ call'[r].found = found
        /\ call'[r].stable = Visible(r, forUpdate)
    BY <1>11
  <2> HIDE DEF new, found
  <2> QED
    BY <1>11, <2>1, <2>2, <2>3 DEF FoundInv, FoundFits
<1> QED
  BY <1>10, <1>12, <1>13, <1>14, <1>15, <1>16

\* A step of one request.
LEMMA OneRequest ==
    ASSUME LookupInv, TypeOK', NEW r \in Requests,
           UNCHANGED <<rows, changing, reserved, early>>,
           \A q \in Requests \ {r} :
              /\ call'[q] = call[q] /\ pc'[q] = pc[q] /\ step'[q] = step[q]
              /\ locks'[q] = locks[q] /\ isForUpdate'[q] = isForUpdate[q]
              /\ snap'[q] = snap[q] /\ hasSnap'[q] = hasSnap[q],
           CallFits(r)', LocksFit(r)', FlagsFit(r)', StableFits(r)', FoundFits(r)'
    PROVE  LookupInv'
<1> SUFFICES ASSUME NEW q \in Requests, q # r
             PROVE  /\ CallFits(q)' /\ LocksFit(q)' /\ FlagsFit(q)'
                    /\ StableFits(q)' /\ FoundFits(q)'
  BY DEF LookupInv, CallsInv, LocksInv, FlagsInv, StableInv, FoundInv
<1>1. CallFits(q)'
  BY DEF LookupInv, CallsInv, CallFits
<1>2. LocksFit(q)'
  BY DEF LookupInv, LocksInv, LocksFit, Covered
<1>3. FlagsFit(q)'
  BY DEF LookupInv, FlagsInv, FlagsFit
<1>4. StableFits(q)'
  BY DEF LookupInv, StableInv, StableFits, Visible
<1>5. FoundFits(q)'
  BY DEF LookupInv, FoundInv, FoundFits
<1> QED
  BY <1>1, <1>2, <1>3, <1>4, <1>5

\* A step that answers some of the missing keys, each with all its models.
LEMMA FoundMore ==
    ASSUME LookupInv, NEW r \in Requests,
           call'[r].keys = call[r].keys, call'[r].kept = call[r].kept,
           call'[r].stable = call[r].stable,
           call'[r].missing \in SUBSET call[r].missing,
           call'[r].found \in [FullKeys -> Nat],
           \A m \in FullKeys :
              \/ call'[r].found[m] = call[r].found[m]
              \/ /\ call'[r].found[m] = call[r].found[m] + 1
                 /\ \E key \in call[r].missing \ call'[r].missing :
                       m \in Below({m}, key),
           \A key \in call[r].missing \ call'[r].missing :
              \A m \in Below(call[r].stable, key) : call'[r].found[m] > 0
    PROVE  FoundFits(r)'
<1> DEFINE c == call[r]
           M == call'[r].missing
           f == call'[r].found
<1>1. /\ c.missing \subseteq c.keys /\ IsFiniteSet(c.keys)
      /\ c.found \in [FullKeys -> Nat] /\ c.stable \subseteq FullKeys
  BY DEF LookupInv, CallsInv, CallFits, TypeOK, LookupTypeOK, Calls
<1>2. ASSUME NEW key \in c.keys \ M
      PROVE  \/ Len(key) < KeyLen /\ Below(c.kept, key) # {}
             \/ \A m \in Below(c.stable, key) : f[m] > 0
  <2>1. CASE key \in c.missing
    BY <1>2, <2>1
  <2>2. CASE key \notin c.missing
    <3>1. ASSUME NEW m \in FullKeys, c.found[m] > 0 PROVE f[m] > 0
      <4>1. c.found[m] \in Nat
        BY <1>1
      <4>2. f[m] = c.found[m] \/ f[m] = c.found[m] + 1
        OBVIOUS
      <4> QED
        BY <3>1, <4>1, <4>2
    <3>2. Below(c.stable, key) \subseteq FullKeys
      BY <1>1 DEF Below
    <3> QED
      BY <1>2, <2>2, <3>1, <3>2 DEF LookupInv, FoundInv, FoundFits
  <2> QED BY <2>1, <2>2
<1>3. ASSUME NEW m \in FullKeys PROVE f[m] <= Times(c.keys \ M, m)
  <2>1. /\ IsFiniteSet(c.keys \ M) /\ IsFiniteSet(c.keys \ c.missing)
        /\ c.keys \ c.missing \in SUBSET (c.keys \ M)
    BY <1>1, FS_Subset
  <2>2. c.found[m] <= Times(c.keys \ c.missing, m)
    BY DEF LookupInv, FoundInv, FoundFits
  <2>3. /\ Times(c.keys \ M, m) \in Nat /\ Times(c.keys \ c.missing, m) \in Nat
        /\ c.found[m] \in Nat
    BY <1>1, <2>1, TimesType
  <2>4. Times(c.keys \ c.missing, m) <= Times(c.keys \ M, m)
    BY <2>1, TimesGrow
  <2>5. CASE f[m] = c.found[m]
    BY <2>2, <2>3, <2>4, <2>5
  <2>6. CASE f[m] = c.found[m] + 1
             /\ \E key \in c.missing \ M : m \in Below({m}, key)
    <3>1. PICK key \in c.missing \ M : m \in Below({m}, key)
      BY <2>6
    <3>2. key \in (c.keys \ M) \ (c.keys \ c.missing)
      BY <1>1, <3>1
    <3>3. Times(c.keys \ c.missing, m) + 1 <= Times(c.keys \ M, m)
      BY <2>1, <3>1, <3>2, TimesGrow
    <3> QED
      BY <2>2, <2>3, <2>6, <3>3
  <2> QED BY <2>5, <2>6
<1> QED
  BY <1>2, <1>3 DEF FoundFits

\* The keys found in the cache lead to the models of these keys.
LEMMA ReadCacheStep ==
    ASSUME LookupInv, KeyStringsDiffer, NEW r \in Requests, ReadCache(r),
           UNCHANGED listVars
    PROVE  LookupInv'
<1> DEFINE c == call[r]
           still == StillMissing(r)
           models == {h[2] : h \in Hits(r)}
           f == [m \in FullKeys |-> c.found[m] +
                    Cardinality({h \in Hits(r) : h[2] = m})]
<1>1. /\ c \in Calls /\ c.missing \subseteq c.keys /\ IsFiniteSet(c.keys)
      /\ cache \subseteq FullKeys /\ ~c.forUpdate /\ step[r] = "none"
      /\ pc[r] = "cache"
  BY DEF LookupInv, CallsInv, CallFits, TypeOK, LookupTypeOK, ReadCache
<1>2. \A h \in Hits(r) :
         h[1] = h[2] /\ h[1] \in c.missing /\ h[1] \in FullKeys
  BY <1>1, FullKeysAreKeys DEF Hits, Complete, KeyStringsDiffer, Calls
<1>3. ASSUME NEW m \in FullKeys
      PROVE  LET n == Cardinality({h \in Hits(r) : h[2] = m})
             IN n = 0 \/ (n = 1 /\ m \in c.missing \ still)
  <2> DEFINE S == {h \in Hits(r) : h[2] = m}
  <2>1. S = {} \/ S = {<<m, m>>}
    BY <1>2 DEF Hits
  <2>2. CASE S = {}
    BY <2>2, FS_EmptySet
  <2>3. CASE S = {<<m, m>>}
    <3>1. <<m, m>> \in Hits(r)
      BY <2>3
    <3>2. m \in c.missing /\ m \notin still
      BY <1>2, <3>1 DEF StillMissing
    <3>3. Cardinality({<<m, m>>}) = 1
      BY FS_Singleton
    <3> QED
      BY <2>3, <3>2, <3>3
  <2> QED BY <2>1, <2>2, <2>3
<1>4. \A h \in Hits(r) : f[h[2]] > 0
  <2> SUFFICES ASSUME NEW h \in Hits(r) PROVE f[h[2]] > 0
    OBVIOUS
  <2> DEFINE S == {x \in Hits(r) : x[2] = h[2]}
  <2>1. h[2] \in FullKeys /\ S = {<<h[2], h[2]>>}
    BY <1>2 DEF Hits
  <2>2. Cardinality(S) = 1
    BY <2>1, FS_Singleton
  <2>3. c.found[h[2]] \in Nat
    BY <1>1, <2>1 DEF Calls
  <2>4. f[h[2]] = c.found[h[2]] + Cardinality(S)
    BY <2>1
  <2> HIDE DEF f, S
  <2> QED
    BY <2>2, <2>3, <2>4
<1>5. f \in [FullKeys -> Nat]
  <2>1. ASSUME NEW m \in FullKeys
        PROVE  c.found[m] + Cardinality({h \in Hits(r) : h[2] = m}) \in Nat
    <3>1. c.found[m] \in Nat
      BY <1>1 DEF Calls
    <3> QED
      BY <1>3, <3>1
  <2> QED BY <2>1
<1>6. models \subseteq FullKeys /\ still \subseteq c.missing
  BY <1>2 DEF StillMissing
<1>7. UNCHANGED <<rows, changing, reserved, early, snap, hasSnap, locks, step, tx>>
  BY DEF ReadCache, dbVars, txVars, listVars
<1>8. CASE /\ call' = [call EXCEPT ![r].missing = still, ![r].found = f]
           /\ held' = [held EXCEPT ![r] = @ \cup models]
           /\ isForUpdate' = [isForUpdate EXCEPT ![r] = @ \ models]
           /\ Goto(r, Continue(still, {}))
  <2> DEFINE new == [c EXCEPT !.missing = still, !.found = f]
  <2>1. call' = [call EXCEPT ![r] = new]
    BY <1>8
  <2> HIDE DEF f, still, models
  <2>2. new \in Calls
    BY <1>1, <1>5, <1>6 DEF Calls
  <2>3. /\ new.keys = c.keys /\ new.missing = still /\ new.found = f
        /\ new.kept = c.kept /\ new.stable = c.stable /\ new.fill = c.fill
        /\ new.forUpdate = c.forUpdate
    BY <1>1 DEF Calls
  <2> HIDE DEF new
  <2>4. call'[r] = new /\ \A q \in Requests \ {r} : call'[q] = call[q]
    BY <2>1 DEF LookupInv, TypeOK, LookupTypeOK
  <2>5. /\ pc'[r] \in {"query", "done"} /\ (pc'[r] = "done" => still = {})
        /\ \A q \in Requests \ {r} : pc'[q] = pc[q]
    BY <1>8 DEF LookupInv, TypeOK, LookupTypeOK, Goto, Continue
  <2>6. /\ isForUpdate'[r] \subseteq isForUpdate[r]
        /\ \A q \in Requests \ {r} : isForUpdate'[q] = isForUpdate[q]
    BY <1>8 DEF LookupInv, TypeOK, LookupTypeOK
  <2>7. TypeOK'
    <3>1. call' \in [Requests -> Calls]
      BY <2>1, <2>2 DEF LookupInv, TypeOK, LookupTypeOK
    <3>2. pc' \in [Requests -> {"app", "list", "cache", "query", "fill", "done"}]
      BY <1>8, <2>5 DEF LookupInv, TypeOK, LookupTypeOK, Goto
    <3>3. /\ held' \in [Requests -> SUBSET FullKeys]
          /\ isForUpdate' \in [Requests -> SUBSET FullKeys]
          /\ \A q \in Requests : isForUpdate'[q] \cup early[q] \subseteq held'[q]
      BY <1>6, <1>8 DEF LookupInv, TypeOK, LookupTypeOK
    <3> QED
      BY <1>7, <3>1, <3>2, <3>3
         DEF LookupInv, TypeOK, LookupTypeOK, ReadCache, dbVars, txVars, listVars
  <2>8. CallFits(r)'
    BY <1>1, <1>6, <1>7, <2>3, <2>4, <2>5 DEF CallFits
  <2>9. LocksFit(r)'
    BY <1>7, <2>6 DEF LookupInv, LocksInv, LocksFit, Covered
  <2>10. FlagsFit(r)'
    BY <1>1, <1>6, <1>7, <2>3, <2>4, <2>6 DEF LookupInv, FlagsInv, FlagsFit, Below
  <2>11. StableFits(r)'
    BY <1>7, <2>3, <2>4 DEF LookupInv, StableInv, StableFits, Visible
  <2>12. FoundFits(r)'
    <3>1. \A m \in FullKeys :
             \/ f[m] = c.found[m]
             \/ /\ f[m] = c.found[m] + 1
                /\ \E key \in c.missing \ still : m \in Below({m}, key)
      <4> SUFFICES ASSUME NEW m \in FullKeys
                   PROVE  \/ f[m] = c.found[m]
                          \/ /\ f[m] = c.found[m] + 1
                             /\ \E key \in c.missing \ still : m \in Below({m}, key)
        OBVIOUS
      <4>1. m \in Below({m}, m)
        BY WholeModel DEF Below
      <4>2. f[m] = c.found[m] + Cardinality({h \in Hits(r) : h[2] = m})
            /\ c.found[m] \in Nat
        BY <1>1 DEF f, Calls
      <4> QED
        BY <1>3, <4>1, <4>2
    <3>2. \A key \in c.missing \ still : \A m \in Below(c.stable, key) : f[m] > 0
      <4> SUFFICES ASSUME NEW key \in c.missing \ still,
                          NEW m \in Below(c.stable, key)
                   PROVE  f[m] > 0
        OBVIOUS
      <4>1. PICK h \in Hits(r) : key = h[1]
        BY DEF still, StillMissing
      <4>2. m = h[2]
        BY <1>1, <1>2, <4>1, WholeModel DEF Below, Calls
      <4> QED
        BY <1>4, <4>1, <4>2
    <3>3. /\ call'[r].keys = c.keys /\ call'[r].kept = c.kept
          /\ call'[r].stable = c.stable /\ call'[r].missing \in SUBSET c.missing
          /\ call'[r].found \in [FullKeys -> Nat]
          /\ call'[r].missing = still /\ call'[r].found = f
      BY <1>5, <1>6, <2>3, <2>4
    <3>4. /\ \A m \in FullKeys :
                \/ call'[r].found[m] = call[r].found[m]
                \/ /\ call'[r].found[m] = call[r].found[m] + 1
                   /\ \E key \in call[r].missing \ call'[r].missing :
                         m \in Below({m}, key)
          /\ \A key \in call[r].missing \ call'[r].missing :
                \A m \in Below(call[r].stable, key) : call'[r].found[m] > 0
      BY <3>1, <3>2, <3>3
    <3> QED
      BY <3>3, <3>4, FoundMore
  <2> QED
    BY <1>7, <2>4, <2>5, <2>6, <2>7, <2>8, <2>9, <2>10, <2>11, <2>12, OneRequest
<1>9. CASE Goto(r, "query") /\ UNCHANGED <<call, held, isForUpdate>>
  <2>1. pc'[r] = "query" /\ \A q \in Requests \ {r} : pc'[q] = pc[q]
    BY <1>9 DEF LookupInv, TypeOK, LookupTypeOK, Goto
  <2>2. TypeOK'
    BY <1>9 DEF LookupInv, TypeOK, LookupTypeOK, Goto, ReadCache, dbVars, txVars,
                listVars
  <2>3. CallFits(r)'
    BY <1>1, <1>7, <1>9, <2>1 DEF LookupInv, CallsInv, CallFits
  <2>4. LocksFit(r)' /\ FlagsFit(r)' /\ StableFits(r)' /\ FoundFits(r)'
    BY <1>7, <1>9
       DEF LookupInv, LocksInv, LocksFit, FlagsInv, FlagsFit, StableInv, StableFits,
           FoundInv, FoundFits, Visible, Covered
  <2> QED
    BY <1>7, <1>9, <2>1, <2>2, <2>3, <2>4, OneRequest
<1> QED
  BY <1>8, <1>9 DEF ReadCache

\* The SELECT for the missing keys of a length.
LEMMA QueryStep ==
    ASSUME LookupInv, NEW r \in Requests, NEW n \in 1 .. KeyLen, Query(r, n),
           UNCHANGED listVars
    PROVE  LookupInv'
<1> DEFINE c == call[r]
           keys == {key \in c.missing : Len(key) = n}
           models == UNION {Below(Visible(r, c.forUpdate), key) : key \in keys}
           fill == IF master \/ n = KeyLen THEN models ELSE {}
           f == [m \in FullKeys |-> IF m \in models THEN c.found[m] + 1
                                    ELSE c.found[m]]
           new == [c EXCEPT !.missing = @ \ keys, !.fill = fill, !.found = f]
<1>1. /\ c \in Calls /\ c.missing \subseteq c.keys /\ IsFiniteSet(c.keys)
      /\ step[r] = "none" /\ pc[r] = "query" /\ c.forUpdate \in BOOLEAN
      /\ c.found \in [FullKeys -> Nat]
  BY DEF LookupInv, CallsInv, CallFits, TypeOK, LookupTypeOK, Query, Calls
<1>2. Visible(r, c.forUpdate) \subseteq FullKeys
  BY DEF LookupInv, TypeOK, LookupTypeOK, Visible
<1>3. /\ models \subseteq Visible(r, c.forUpdate) /\ models \subseteq FullKeys
      /\ fill \subseteq models /\ keys \subseteq c.missing
  BY <1>2 DEF Below
<1>4. \A m \in models : \E key \in keys : m \in Below({m}, key)
  BY DEF Below
<1>5. \A key \in keys, m \in Visible(r, c.forUpdate) :
         m \in Below({m}, key) => m \in models
  BY DEF Below
<1>6. f \in [FullKeys -> Nat]
  BY <1>1
<1>7. UNCHANGED <<rows, changing, reserved, early, step, tx>>
  BY DEF Query, dbVars, listVars
<1>8. call' = [call EXCEPT ![r] = new]
  BY DEF Query, Selected
<1>9. pc' = [pc EXCEPT ![r] = Continue(c.missing \ keys, fill)]
  BY DEF Query, Selected, Goto
<1>10. /\ held' = [held EXCEPT ![r] = @ \cup models]
       /\ isForUpdate' = [isForUpdate EXCEPT ![r] =
             IF c.forUpdate THEN @ \cup models ELSE @ \ models]
  BY DEF Query, Selected
<1>11. \/ /\ c.forUpdate /\ Lockable(r, keys) /\ UNCHANGED <<snap, hasSnap>>
          /\ locks' = [locks EXCEPT ![r] = @ \cup keys]
       \/ ~c.forUpdate /\ TakeSnapshot(r) /\ UNCHANGED locks
  BY <1>1 DEF Query
<1>12. models = UNION {Below(Visible(r, c.forUpdate), key) : key \in keys}
       /\ (c.forUpdate => models \subseteq rows)
  BY <1>3 DEF Visible
<1> HIDE DEF models, fill, keys
<1>13. new \in Calls
  <2>1. c.missing \ keys \in SUBSET Keys /\ fill \in SUBSET FullKeys
    BY <1>1, <1>3 DEF Calls
  <2> HIDE DEF f
  <2> QED
    BY <1>1, <1>6, <2>1 DEF Calls
<1>14. /\ new.keys = c.keys /\ new.missing = c.missing \ keys /\ new.found = f
       /\ new.kept = c.kept /\ new.stable = c.stable /\ new.fill = fill
       /\ new.forUpdate = c.forUpdate
  BY <1>1 DEF Calls
<1> HIDE DEF new
<1>15. call'[r] = new /\ \A q \in Requests \ {r} : call'[q] = call[q]
  BY <1>8 DEF LookupInv, TypeOK, LookupTypeOK
<1>16. /\ pc'[r] \in {"fill", "query", "done"}
       /\ (pc'[r] = "done" => c.missing \ keys = {})
       /\ (pc'[r] = "fill" => fill # {})
       /\ \A q \in Requests \ {r} : pc'[q] = pc[q]
  BY <1>9 DEF LookupInv, TypeOK, LookupTypeOK, Continue
<1>17. /\ isForUpdate'[r] = IF c.forUpdate THEN isForUpdate[r] \cup models
                            ELSE isForUpdate[r] \ models
       /\ \A q \in Requests \ {r} : isForUpdate'[q] = isForUpdate[q]
  BY <1>10 DEF LookupInv, TypeOK, LookupTypeOK
<1>18. keys \subseteq Keys
  BY <1>1, <1>3 DEF Calls
<1>19. /\ locks' \in [Requests -> SUBSET Keys]
       /\ snap' \in [Requests -> SUBSET FullKeys]
       /\ hasSnap' \in [Requests -> BOOLEAN]
       /\ \A q \in Requests \ {r} : /\ locks'[q] = locks[q] /\ snap'[q] = snap[q]
                                    /\ hasSnap'[q] = hasSnap[q]
       /\ locks[r] \subseteq locks'[r] /\ (c.forUpdate => keys \subseteq locks'[r])
       /\ \A k \in locks'[r] : k \in locks[r] \/ (c.forUpdate /\ k \in keys)
  <2>1. CASE ~c.forUpdate /\ TakeSnapshot(r) /\ UNCHANGED locks
    BY <2>1 DEF LookupInv, TypeOK, LookupTypeOK, TakeSnapshot
  <2>2. CASE /\ c.forUpdate /\ UNCHANGED <<snap, hasSnap>>
             /\ locks' = [locks EXCEPT ![r] = @ \cup keys]
    BY <1>18, <2>2 DEF LookupInv, TypeOK, LookupTypeOK
  <2> QED BY <1>11, <2>1, <2>2
<1>20. TypeOK'
  <2>1. call' \in [Requests -> Calls]
    BY <1>8, <1>13 DEF LookupInv, TypeOK, LookupTypeOK
  <2>2. pc' \in [Requests -> {"app", "list", "cache", "query", "fill", "done"}]
    BY <1>9, <1>16 DEF LookupInv, TypeOK, LookupTypeOK
  <2>3. /\ held' \in [Requests -> SUBSET FullKeys]
        /\ isForUpdate' \in [Requests -> SUBSET FullKeys]
        /\ \A q \in Requests : isForUpdate'[q] \cup early[q] \subseteq held'[q]
    BY <1>3, <1>10 DEF LookupInv, TypeOK, LookupTypeOK
  <2>4. LookupTypeOK'
    BY <1>7, <1>19, <2>1, <2>2, <2>3 DEF LookupInv, TypeOK, LookupTypeOK, Query, dbVars
  <2> QED
    BY <2>4 DEF LookupInv, TypeOK, listVars
<1>21. CallFits(r)'
  BY <1>1, <1>7, <1>14, <1>15, <1>16 DEF CallFits
<1>22. LocksFit(r)'
  <2>1. ASSUME NEW m \in isForUpdate'[r] PROVE m \in rows /\ Covered(r, m)'
    <3>1. CASE m \in isForUpdate[r]
      BY <1>19, <3>1 DEF LookupInv, LocksInv, LocksFit, Covered
    <3>2. CASE m \notin isForUpdate[r]
      <4>1. c.forUpdate /\ m \in models
        BY <1>17, <2>1, <3>2
      <4> QED
        BY <1>4, <1>12, <1>19, <4>1 DEF Covered
    <3> QED BY <3>1, <3>2
  <2>2. ASSUME changing # NoRow, NEW key \in locks'[r],
               changing \in Below({changing}, key)
        PROVE  FALSE
    <3>1. CASE key \in locks[r]
      BY <2>2, <3>1 DEF LookupInv, LocksInv, LocksFit, Covered
    <3>2. CASE c.forUpdate /\ key \in keys
      <4>1. Lockable(r, keys) /\ changing \in FullKeys
        BY <1>11, <2>2, <3>2 DEF LookupInv, TypeOK, LookupTypeOK
      <4> QED
        BY <2>2, <3>2, <4>1 DEF Lockable, Below
    <3> QED BY <1>19, <3>1, <3>2
  <2> QED
    BY <1>7, <2>1, <2>2 DEF LocksFit, Covered
<1>23. FlagsFit(r)'
  <2>1. early[r] \subseteq reserved[r] /\ early[r] \cap isForUpdate[r] = {}
    BY DEF LookupInv, FlagsInv, FlagsFit
  <2>2. \A key \in c.missing :
           Below(IF c.forUpdate THEN early[r] ELSE isForUpdate[r], key) = {}
    BY DEF LookupInv, FlagsInv, FlagsFit
  <2>3. ASSUME c.forUpdate PROVE early[r] \cap models = {}
    BY <1>3, <1>4, <2>2, <2>3 DEF Below
  <2>4. early[r] \cap isForUpdate'[r] = {}
    BY <1>17, <2>1, <2>3
  <2>5. \A key \in c.missing \ keys :
           Below(IF c.forUpdate THEN early[r] ELSE isForUpdate'[r], key) = {}
    BY <1>17, <2>2 DEF Below
  <2>6. ASSUME c.forUpdate, NEW m \in FullKeys, f[m] > 0
        PROVE  m \in isForUpdate'[r]
    <3>1. CASE m \in models
      BY <1>17, <2>6, <3>1
    <3>2. CASE m \notin models
      BY <1>17, <2>6, <3>2 DEF LookupInv, FlagsInv, FlagsFit
    <3> QED BY <3>1, <3>2
  <2> HIDE DEF f
  <2> QED
    BY <1>7, <1>14, <1>15, <2>1, <2>4, <2>5, <2>6 DEF FlagsFit
<1>24. StableFits(r)'
  <2>1. c.stable \subseteq Visible(r, c.forUpdate)
    BY DEF LookupInv, StableInv, StableFits
  <2>2. call'[r].stable = c.stable /\ call'[r].forUpdate = c.forUpdate
    BY <1>14, <1>15
  <2>3. CASE c.forUpdate
    BY <1>7, <2>1, <2>2, <2>3 DEF StableFits, Visible
  <2>4. CASE ~c.forUpdate
    <3>1. c.stable \subseteq IF hasSnap'[r] THEN snap'[r] ELSE rows
      BY <1>11, <2>1, <2>4 DEF Visible, TakeSnapshot, LookupInv, TypeOK, LookupTypeOK
    <3> QED
      BY <1>7, <2>2, <2>4, <3>1 DEF StableFits, Visible
  <2> QED BY <2>3, <2>4
<1>25. FoundFits(r)'
  <2>1. \A m \in FullKeys :
           \/ f[m] = c.found[m]
           \/ f[m] = c.found[m] + 1 /\ \E key \in keys : m \in Below({m}, key)
    BY <1>4
  <2>2. ASSUME NEW key \in keys, NEW m \in Below(c.stable, key) PROVE f[m] > 0
    <3>1. m \in Visible(r, c.forUpdate) /\ m \in Below({m}, key)
      BY DEF LookupInv, StableInv, StableFits, Below
    <3>2. m \in models /\ m \in FullKeys
      BY <1>3, <1>5, <3>1
    <3> QED
      BY <1>1, <3>2
  <2> HIDE DEF f
  <2>3. /\ call'[r].keys = c.keys /\ call'[r].kept = c.kept
        /\ call'[r].stable = c.stable /\ call'[r].missing \in SUBSET c.missing
        /\ call'[r].found \in [FullKeys -> Nat] /\ call'[r].found = f
        /\ c.missing \ call'[r].missing = keys
    BY <1>3, <1>6, <1>14, <1>15
  <2>4. /\ \A m \in FullKeys :
              \/ call'[r].found[m] = call[r].found[m]
              \/ /\ call'[r].found[m] = call[r].found[m] + 1
                 /\ \E key \in call[r].missing \ call'[r].missing :
                       m \in Below({m}, key)
        /\ \A key \in call[r].missing \ call'[r].missing :
              \A m \in Below(call[r].stable, key) : call'[r].found[m] > 0
    BY <2>1, <2>2, <2>3
  <2> QED
    BY <2>3, <2>4, FoundMore
<1> QED
  BY <1>7, <1>15, <1>16, <1>17, <1>19, <1>20, <1>21, <1>22, <1>23, <1>24, <1>25,
     OneRequest

\* A model read from the table goes to the cache.
LEMMA FillStep ==
    ASSUME LookupInv, NEW r \in Requests, Fill(r), UNCHANGED listVars
    PROVE  LookupInv'
<1> DEFINE c == call[r]
           m == CHOOSE x \in c.fill : TRUE
           new == [c EXCEPT !.fill = @ \ {m}]
<1>1. /\ c \in Calls /\ c.fill # {} /\ step[r] = "none" /\ pc[r] = "fill"
  BY DEF LookupInv, CallsInv, CallFits, TypeOK, LookupTypeOK, Fill
<1>2. m \in FullKeys
  BY <1>1 DEF Calls
<1>3. /\ SetCache(m, master \/ c.forUpdate)
      /\ call' = [call EXCEPT ![r] = new]
      /\ pc' = [pc EXCEPT ![r] = Continue(c.missing, c.fill \ {m})]
      /\ UNCHANGED <<dbVars, txVars, managerVars>>
  BY DEF Fill, Goto
<1> HIDE DEF m
<1>4. /\ new \in Calls
      /\ new.keys = c.keys /\ new.missing = c.missing /\ new.found = c.found
      /\ new.kept = c.kept /\ new.stable = c.stable /\ new.fill = c.fill \ {m}
      /\ new.forUpdate = c.forUpdate
  BY <1>1 DEF Calls
<1> HIDE DEF new
<1>5. /\ call'[r] = new /\ \A q \in Requests \ {r} : call'[q] = call[q]
      /\ pc'[r] \in {"fill", "query", "done"}
      /\ (pc'[r] = "done" => c.missing = {})
      /\ (pc'[r] = "fill" => new.fill # {})
      /\ \A q \in Requests \ {r} : pc'[q] = pc[q]
  BY <1>3, <1>4 DEF LookupInv, TypeOK, LookupTypeOK, Continue
<1>6. TypeOK'
  <2>1. call' \in [Requests -> Calls]
    BY <1>3, <1>4 DEF LookupInv, TypeOK, LookupTypeOK
  <2>2. pc' \in [Requests -> {"app", "list", "cache", "query", "fill", "done"}]
    BY <1>3, <1>5 DEF LookupInv, TypeOK, LookupTypeOK
  <2>3. cache' \in SUBSET FullKeys
    BY <1>2, <1>3 DEF LookupInv, TypeOK, LookupTypeOK, SetCache
  <2>4. LookupTypeOK'
    BY <1>3, <2>1, <2>2, <2>3
       DEF LookupInv, TypeOK, LookupTypeOK, dbVars, txVars, managerVars
  <2> QED
    BY <2>4 DEF LookupInv, TypeOK, listVars
<1>7. UNCHANGED <<rows, changing, reserved, early, step, locks, isForUpdate, snap,
                  hasSnap>>
  BY <1>3 DEF dbVars, txVars, managerVars, listVars
<1>8. CallFits(r)'
  BY <1>1, <1>4, <1>5, <1>7 DEF LookupInv, CallsInv, CallFits
<1>9. LocksFit(r)' /\ FlagsFit(r)' /\ StableFits(r)'
  BY <1>4, <1>5, <1>7
     DEF LookupInv, LocksInv, LocksFit, FlagsInv, FlagsFit, StableInv, StableFits,
         Visible, Covered
<1>10. FoundFits(r)'
  BY <1>4, <1>5 DEF LookupInv, FoundInv, FoundFits
<1> QED
  BY <1>5, <1>6, <1>7, <1>8, <1>9, <1>10, OneRequest

\* A call ends.
LEMMA LeaveStep ==
    ASSUME LookupInv, NEW r \in Requests, TypeOK',
           Goto(r, "app"), call' = [call EXCEPT ![r] = NoCall],
           step'[r] = "none", \A q \in Requests \ {r} : step'[q] = step[q],
           UNCHANGED <<dbVars, cache, txVars, managerVars>>
    PROVE  LookupInv'
<1>1. /\ call'[r] = NoCall /\ \A q \in Requests \ {r} : call'[q] = call[q]
      /\ pc'[r] = "app" /\ \A q \in Requests \ {r} : pc'[q] = pc[q]
  BY DEF LookupInv, TypeOK, LookupTypeOK, Goto
<1>2. UNCHANGED <<rows, changing, reserved, early, locks, isForUpdate, snap, hasSnap>>
  BY DEF dbVars, txVars, managerVars
<1>3. /\ NoCall.keys = {} /\ NoCall.missing = {} /\ NoCall.stable = {}
      /\ NoCall.forUpdate = FALSE /\ \A m \in FullKeys : NoCall.found[m] = 0
  BY DEF NoCall
<1>4. CallFits(r)'
  BY <1>1, <1>3, FS_EmptySet DEF CallFits
<1>5. LocksFit(r)' /\ FlagsFit(r)' /\ StableFits(r)'
  BY <1>1, <1>2, <1>3
     DEF LookupInv, LocksInv, LocksFit, FlagsInv, FlagsFit, StableFits, Covered
<1>6. FoundFits(r)'
  <2>1. \A m \in FullKeys : Times({}, m) \in Nat
    BY FS_EmptySet, TimesType
  <2>2. \A m \in FullKeys : 0 <= Times({}, m)
    BY <2>1
  <2> QED
    BY <1>1, <1>3, <2>2 DEF FoundFits
<1> QED
  BY <1>1, <1>2, <1>4, <1>5, <1>6, OneRequest

LEMMA LookupStep ==
    ASSUME LookupInv, KeyStringsDiffer, LookupNext, UNCHANGED listVars
    PROVE  LookupInv'
<1>1. ASSUME NEW m \in FullKeys, CacheLoses(m) PROVE LookupInv'
  BY <1>1, CacheStep
<1>2. ASSUME NEW r \in Requests,
             StartTransaction(r) \/ EndTransaction(r) \/ WriteAll(r)
      PROVE  LookupInv'
  BY <1>2, TransactionSteps
<1>3. ASSUME NEW r \in Requests, NEW m \in FullKeys, SetSave(r, m) PROVE LookupInv'
  BY <1>3, SetSaveStep
<1>4. ASSUME NEW r \in Requests, Ask(r) PROVE LookupInv'
  <2>1. PICK asked \in Questions, forUpdate \in BOOLEAN : GetModels(r, asked, forUpdate)
    BY <1>4 DEF Ask
  <2>2. asked \in SUBSET Keys /\ IsFiniteSet(asked)
    BY KeysAssumption
  <2>3. step'[r] = "none" /\ UNCHANGED <<list, names, writer, step, version>>
    BY <1>4 DEF Ask, LookupInv, CallsInv, CallFits, listVars
  <2>4. /\ version' \in [Requests -> Versions \cup {EmptyVersion}]
        /\ step' \in [Requests -> {"none", "get", "find", "fill", "set", "expire"}]
    BY <2>3 DEF LookupInv, TypeOK
  <2> QED
    BY <2>1, <2>2, <2>3, <2>4, GetModelsStep
<1>5. ASSUME NEW r \in Requests, ReadCache(r) PROVE LookupInv'
  BY <1>5, ReadCacheStep
<1>6. ASSUME NEW r \in Requests, Fill(r) PROVE LookupInv'
  BY <1>6, FillStep
<1>7. ASSUME NEW r \in Requests, NEW n \in 1 .. KeyLen, Query(r, n) PROVE LookupInv'
  BY <1>7, QueryStep
<1>8. ASSUME NEW r \in Requests, LookupFails(r) \/ LookupReturns(r) PROVE LookupInv'
  <2>1. /\ Goto(r, "app") /\ call' = [call EXCEPT ![r] = NoCall]
        /\ UNCHANGED <<dbVars, cache, txVars, managerVars>> /\ pc[r] # "list"
    BY <1>8 DEF LookupFails, LookupReturns
  <2>2. step'[r] = "none" /\ UNCHANGED step
    BY <2>1 DEF LookupInv, CallsInv, CallFits, listVars
  <2>3. TypeOK'
    BY <2>1, NoCallType
       DEF LookupInv, TypeOK, LookupTypeOK, Goto, dbVars, txVars, managerVars, listVars
  <2> QED
    BY <2>1, <2>2, <2>3, LeaveStep
<1> QED
  BY <1>1, <1>2, <1>3, <1>4, <1>5, <1>6, <1>7, <1>8 DEF LookupNext

-----------------------------------------------------------------------------
(* The list                                                                *)

\* A step of GetMasterModelAll: nothing of the call changes but what it still
\* has to store.
LEMMA ListStep ==
    ASSUME LookupInv, TypeOK', NEW r \in Requests, NEW c \in Calls,
           call' = [call EXCEPT ![r] = c],
           c.keys = call[r].keys, c.missing = call[r].missing,
           c.kept = call[r].kept, c.stable = call[r].stable,
           c.found = call[r].found, c.forUpdate = call[r].forUpdate,
           pc[r] \in {"app", "list"}, pc'[r] = "list",
           step'[r] = "fill" => c.fill # {},
           UNCHANGED <<rows, changing, locks, managerVars>>,
           \A q \in Requests \ {r} :
              /\ pc'[q] = pc[q] /\ step'[q] = step[q]
              /\ snap'[q] = snap[q] /\ hasSnap'[q] = hasSnap[q]
    PROVE  LookupInv'
<1>1. call'[r] = c /\ \A q \in Requests \ {r} : call'[q] = call[q]
  BY DEF LookupInv, TypeOK, LookupTypeOK
<1>2. CallFits(r)'
  BY <1>1 DEF LookupInv, CallsInv, CallFits
<1>3. LocksFit(r)' /\ FlagsFit(r)' /\ FoundFits(r)'
  <2>1. LocksFit(r)'
    BY <1>1 DEF LookupInv, LocksInv, LocksFit, Covered, managerVars
  <2>2. FlagsFit(r)'
    BY <1>1 DEF LookupInv, FlagsInv, FlagsFit, managerVars
  <2>3. FoundFits(r)'
    <3>1. /\ call'[r].keys = call[r].keys /\ call'[r].missing = call[r].missing
          /\ call'[r].kept = call[r].kept /\ call'[r].stable = call[r].stable
          /\ call'[r].found = call[r].found
      BY <1>1
    <3>2. FoundFits(r)
      BY DEF LookupInv, FoundInv
    <3> QED
      BY <3>1, <3>2 DEF FoundFits
  <2> QED BY <2>1, <2>2, <2>3
<1>4. StableFits(r)'
  BY <1>1 DEF LookupInv, CallsInv, CallFits, StableFits
<1> QED
  BY <1>1, <1>2, <1>3, <1>4, OneRequest DEF managerVars

LEMMA MasterSteps ==
    ASSUME LookupInv, KeyStringsDiffer, NEW r \in Requests,
           \/ \E v \in Versions, reload \in BOOLEAN : GetMasterModelAll(r, v, reload)
           \/ GetList(r) \/ Find(r) \/ FillLocal(r) \/ SetList(r)
           \/ ExpireList(r) \/ MasterFails(r)
    PROVE  LookupInv'
<1> DEFINE c == call[r]
<1>0. /\ c \in Calls /\ call = [call EXCEPT ![r] = c]
      /\ step[r] # "none" => pc[r] = "list"
      /\ step[r] = "fill" => c.fill # {}
  BY DEF LookupInv, CallsInv, CallFits, TypeOK, LookupTypeOK
<1>1. ASSUME NEW v \in Versions, NEW reload \in BOOLEAN, GetMasterModelAll(r, v, reload)
      PROVE  LookupInv'
  <2>1. TypeOK'
    BY <1>1 DEF GetMasterModelAll, LookupInv, TypeOK, LookupTypeOK, Goto, dbVars,
                txVars, managerVars
  <2>2. /\ pc[r] = "app" /\ pc'[r] = "list" /\ step'[r] # "fill" /\ UNCHANGED call
        /\ UNCHANGED <<rows, changing, locks, managerVars>>
        /\ \A q \in Requests \ {r} :
              /\ pc'[q] = pc[q] /\ step'[q] = step[q]
              /\ snap'[q] = snap[q] /\ hasSnap'[q] = hasSnap[q]
    BY <1>1 DEF GetMasterModelAll, LookupInv, TypeOK, LookupTypeOK, Goto, dbVars, txVars
  <2> QED
    BY <1>0, <2>1, <2>2, ListStep
<1>2. CASE GetList(r)
  <2>1. CASE Usable(r)
    <3>1. /\ GetModels(r, Got.keys, FALSE) /\ step' = [step EXCEPT ![r] = "none"]
          /\ version' = [version EXCEPT ![r] = EmptyVersion]
          /\ UNCHANGED <<list, names, writer>>
      BY <1>2, <2>1 DEF GetList
    <3>2. Got.keys \in SUBSET Keys /\ IsFiniteSet(Got.keys)
      <4>1. Got.keys \subseteq FullKeys
        BY DEF Got, LookupInv, TypeOK, Lists
      <4> QED
        BY <4>1, FullKeysAreKeys, KeysAssumption, FS_Subset
    <3>3. /\ step'[r] = "none" /\ \A q \in Requests \ {r} : step'[q] = step[q]
          /\ version' \in [Requests -> Versions \cup {EmptyVersion}]
          /\ step' \in [Requests -> {"none", "get", "find", "fill", "set", "expire"}]
      BY <3>1 DEF LookupInv, TypeOK
    <3> QED
      BY <3>1, <3>2, <3>3, GetModelsStep
  <2>2. CASE ~Usable(r)
    <3>1. /\ step[r] = "get" /\ step' = [step EXCEPT ![r] = "find"]
          /\ UNCHANGED <<lookupVars, version, list, names, writer>>
      BY <1>2, <2>2 DEF GetList
    <3>2. TypeOK'
      BY <3>1
         DEF LookupInv, TypeOK, LookupTypeOK, lookupVars, dbVars, txVars,
             managerVars
    <3>3. /\ pc[r] = "list" /\ pc'[r] = "list" /\ step'[r] # "fill" /\ UNCHANGED call
          /\ UNCHANGED <<rows, changing, locks, managerVars>>
          /\ \A q \in Requests \ {r} :
                /\ pc'[q] = pc[q] /\ step'[q] = step[q]
                /\ snap'[q] = snap[q] /\ hasSnap'[q] = hasSnap[q]
      BY <1>0, <3>1 DEF LookupInv, TypeOK, lookupVars, dbVars, txVars
    <3> QED
      BY <1>0, <3>2, <3>3, ListStep
  <2> QED BY <2>1, <2>2
<1>3. CASE Find(r)
  <2> DEFINE models == Visible(r, FALSE)
             new == [c EXCEPT !.fill = models]
  <2>1. /\ step[r] = "find" /\ TakeSnapshot(r)
        /\ names' = [names EXCEPT ![r] = models]
        /\ call' = [call EXCEPT ![r] = new]
        /\ step' = [step EXCEPT ![r] = IF models = {} THEN "set" ELSE "fill"]
        /\ UNCHANGED <<dbVars, cache, tx, locks, managerVars, pc, list, version, writer>>
    BY <1>3 DEF Find
  <2>2. models \subseteq FullKeys
    BY DEF Visible, LookupInv, TypeOK, LookupTypeOK
  <2> HIDE DEF models
  <2>3. /\ new \in Calls /\ new.keys = c.keys /\ new.missing = c.missing
        /\ new.kept = c.kept /\ new.stable = c.stable /\ new.found = c.found
        /\ new.forUpdate = c.forUpdate /\ new.fill = models
    BY <1>0, <2>2 DEF Calls
  <2> HIDE DEF new
  <2>4. /\ snap' \in [Requests -> SUBSET FullKeys] /\ hasSnap' \in [Requests -> BOOLEAN]
        /\ \A q \in Requests \ {r} : snap'[q] = snap[q] /\ hasSnap'[q] = hasSnap[q]
    BY <2>1 DEF TakeSnapshot, LookupInv, TypeOK, LookupTypeOK
  <2>5. LookupTypeOK'
    BY <2>1, <2>3, <2>4 DEF LookupInv, TypeOK, LookupTypeOK, dbVars, managerVars
  <2>6. TypeOK'
    BY <2>1, <2>2, <2>5 DEF LookupInv, TypeOK
  <2>7. /\ pc[r] = "list" /\ pc'[r] = "list" /\ (step'[r] = "fill" => new.fill # {})
        /\ UNCHANGED <<rows, changing, locks, managerVars>>
        /\ \A q \in Requests \ {r} : pc'[q] = pc[q] /\ step'[q] = step[q]
    BY <1>0, <2>1, <2>3 DEF LookupInv, TypeOK, dbVars
  <2> QED
    BY <2>1, <2>3, <2>4, <2>6, <2>7, ListStep
<1>4. CASE FillLocal(r)
  <2> DEFINE m == CHOOSE x \in c.fill : TRUE
             new == [c EXCEPT !.fill = @ \ {m}]
  <2>1. /\ step[r] = "fill" /\ SetCache(m, TRUE) /\ call' = [call EXCEPT ![r] = new]
        /\ step' = [step EXCEPT ![r] = IF c.fill = {m} THEN "set" ELSE @]
        /\ UNCHANGED <<dbVars, txVars, managerVars, pc, list, version, names, writer>>
    BY <1>4 DEF FillLocal
  <2>2. m \in c.fill /\ m \in FullKeys
    BY <1>0, <2>1 DEF Calls
  <2> HIDE DEF m
  <2>3. /\ new \in Calls /\ new.keys = c.keys /\ new.missing = c.missing
        /\ new.kept = c.kept /\ new.stable = c.stable /\ new.found = c.found
        /\ new.forUpdate = c.forUpdate /\ new.fill = c.fill \ {m}
    BY <1>0 DEF Calls
  <2> HIDE DEF new
  <2>4. cache' \in SUBSET FullKeys
    BY <2>1, <2>2 DEF SetCache, LookupInv, TypeOK, LookupTypeOK
  <2>5. LookupTypeOK'
    BY <2>1, <2>3, <2>4 DEF LookupInv, TypeOK, LookupTypeOK, dbVars, txVars, managerVars
  <2>6. TypeOK'
    BY <2>1, <2>5 DEF LookupInv, TypeOK
  <2>7. /\ pc[r] = "list" /\ pc'[r] = "list" /\ (step'[r] = "fill" => new.fill # {})
        /\ UNCHANGED <<rows, changing, locks, managerVars>>
        /\ \A q \in Requests \ {r} :
              /\ pc'[q] = pc[q] /\ step'[q] = step[q]
              /\ snap'[q] = snap[q] /\ hasSnap'[q] = hasSnap[q]
    BY <1>0, <2>1, <2>2, <2>3 DEF LookupInv, TypeOK, dbVars, txVars
  <2> QED
    BY <2>1, <2>3, <2>6, <2>7, ListStep
<1>5. CASE SetList(r)
  <2>1. /\ step[r] = "set" /\ step' = [step EXCEPT ![r] = "expire"]
        /\ list' \in Lists /\ UNCHANGED <<lookupVars, version, names, writer>>
    BY <1>5 DEF SetList, Lists, LookupInv, TypeOK
  <2>2. TypeOK'
    BY <2>1 DEF LookupInv, TypeOK, LookupTypeOK, lookupVars, dbVars, txVars, managerVars
  <2>3. /\ pc[r] = "list" /\ pc'[r] = "list" /\ step'[r] # "fill" /\ UNCHANGED call
        /\ UNCHANGED <<rows, changing, locks, managerVars>>
        /\ \A q \in Requests \ {r} :
              /\ pc'[q] = pc[q] /\ step'[q] = step[q]
              /\ snap'[q] = snap[q] /\ hasSnap'[q] = hasSnap[q]
    BY <1>0, <2>1 DEF LookupInv, TypeOK, lookupVars, dbVars, txVars
  <2> QED
    BY <1>0, <2>2, <2>3, ListStep
<1>6. CASE ExpireList(r) \/ MasterFails(r)
  <2>0. list \in Lists => [list EXCEPT !.expires = TRUE] \in Lists
    BY DEF Lists
  <2>1. Leave(r) /\ list' \in Lists \cup {NoList}
    BY <1>6, <2>0 DEF ExpireList, MasterFails, LookupInv, TypeOK
  <2>2. TypeOK'
    BY <2>1, NoCallType
       DEF Leave, LookupInv, TypeOK, LookupTypeOK, Goto, dbVars, txVars, managerVars
  <2>3. step'[r] = "none" /\ \A q \in Requests \ {r} : step'[q] = step[q]
    BY <2>1 DEF Leave, LookupInv, TypeOK
  <2> QED
    BY <2>1, <2>2, <2>3, LeaveStep DEF Leave
<1> QED
  BY <1>1, <1>2, <1>3, <1>4, <1>5, <1>6

LEMMA WriterSteps ==
    ASSUME LookupInv,
           \/ ListExpires \/ (\E m \in FullKeys : Write(m)) \/ WriteAllDeletes
           \/ WriteAllFails \/ Commit \/ CommitFails \/ Rollback \/ WriteEnd
           \/ WriteEndFails
    PROVE  LookupInv'
<1>1. CASE ListExpires \/ WriteAllDeletes \/ WriteAllFails \/ WriteEnd \/ WriteEndFails
  <2>0. list \in Lists => [list EXCEPT !.spared = TRUE] \in Lists
    BY DEF Lists
  <2>1. /\ UNCHANGED <<lookupVars, step, version, names>>
        /\ list' \in Lists \cup {NoList}
        /\ writer' \in {"idle", "written", "purged", "failed", "committed"}
    BY <1>1, <2>0 DEF ListExpires, WriteAllDeletes, WriteAllFails, WriteEnd,
                      WriteEndFails, LookupInv, TypeOK
  <2>2. TypeOK'
    BY <2>1 DEF LookupInv, TypeOK, LookupTypeOK, lookupVars, dbVars, txVars, managerVars
  <2> QED
    BY <2>1, <2>2, QuietStep DEF lookupVars, dbVars, txVars
<1>2. ASSUME NEW m \in FullKeys, Write(m) PROVE LookupInv'
  <2>1. TypeOK'
    BY <1>2, KeysAssumption
       DEF Write, Change, LookupInv, TypeOK, LookupTypeOK, txVars, managerVars
  <2> QED
    BY <1>2, <2>1, ChangeStep DEF Write
<1>3. CASE Commit
  <2>1. call' \in [Requests -> Calls]
    <3>1. CASE changing \notin rows
      BY <1>3, <3>1 DEF Commit, ChangeCommits, LookupInv, TypeOK, LookupTypeOK
    <3>2. CASE changing \in rows
      <4>1. call' = [q \in Requests |-> [call[q] EXCEPT !.stable = @ \ {changing}]]
        BY <1>3, <3>2 DEF Commit, ChangeCommits
      <4>2. ASSUME NEW q \in Requests
            PROVE  [call[q] EXCEPT !.stable = @ \ {changing}] \in Calls
        <5>1. call[q] \in Calls
          BY DEF LookupInv, TypeOK, LookupTypeOK
        <5> QED
          BY <5>1 DEF Calls
      <4> QED
        BY <4>1, <4>2
    <3> QED BY <3>1, <3>2
  <2>2. rows' \in SUBSET FullKeys /\ changing' = NoRow
        /\ writer' \in {"idle", "written", "purged", "failed", "committed"}
    BY <1>3 DEF Commit, AfterCommit, ChangeCommits, LookupInv, TypeOK, LookupTypeOK
  <2>3. TypeOK'
    BY <1>3, <2>1, <2>2
       DEF Commit, ChangeCommits, LookupInv, TypeOK, LookupTypeOK, txVars, managerVars
  <2> QED
    BY <1>3, <2>3, ChangeCommitsStep DEF Commit
<1>4. CASE Rollback \/ CommitFails
  <2>1. TypeOK'
    BY <1>4 DEF Rollback, CommitFails, AfterCommit, ChangeRollsBack, LookupInv, TypeOK,
                LookupTypeOK, txVars, managerVars
  <2> QED
    BY <1>4, <2>1, RollsBackStep DEF Rollback, CommitFails
<1> QED
  BY <1>1, <1>2, <1>3, <1>4

LEMMA LookupInvNext ==
    ASSUME LookupInv, KeyStringsDiffer, [Next]_vars
    PROVE  LookupInv'
<1>1. CASE UNCHANGED vars
  <2>1. TypeOK'
    BY <1>1 DEF vars, lookupVars, listVars, dbVars, txVars, managerVars, LookupInv,
                TypeOK, LookupTypeOK
  <2> QED
    BY <1>1, <2>1, QuietStep DEF vars, lookupVars, listVars, dbVars, txVars
<1>2. CASE LookupNext /\ UNCHANGED listVars
  BY <1>2, LookupStep
<1>3. ASSUME NEW r \in Requests,
             \/ \E v \in Versions, reload \in BOOLEAN : GetMasterModelAll(r, v, reload)
             \/ GetList(r) \/ Find(r) \/ FillLocal(r) \/ SetList(r)
             \/ ExpireList(r) \/ MasterFails(r)
      PROVE  LookupInv'
  BY <1>3, MasterSteps
<1>4. CASE \/ ListExpires \/ (writer = "idle" /\ \E m \in FullKeys : Write(m))
           \/ WriteAllDeletes \/ WriteAllFails
           \/ Commit \/ CommitFails \/ Rollback
           \/ WriteEnd \/ WriteEndFails
  BY <1>4, WriterSteps
<1> QED
  BY <1>1, <1>2, <1>3, <1>4 DEF Next

LEMMA LookupInvHolds == ASSUME KeyStringsDiffer PROVE Spec => []LookupInv
<1>1. LookupInv /\ [Next]_vars => LookupInv'
  BY LookupInvNext
<1> QED
  BY <1>1, LookupInvInit, PTL DEF Spec

-----------------------------------------------------------------------------
(* What lookups guarantee                                                  *)

\* The variables stay in their types: no step of a lookup, a transaction or
\* the list leaves the states the code has.
THEOREM LookupTypes == ASSUME KeyStringsDiffer PROVE Spec => []TypeOK
<1>1. LookupInv => TypeOK
  BY DEF LookupInv
<1> QED
  BY <1>1, LookupInvHolds, PTL

\* GetModels returns no row more often than the keys ask for it, whichever of
\* the identity map, the cache and the queries gave which part of the answer.
THEOREM LookupsReturnNoExcess ==
    ASSUME KeyStringsDiffer PROVE Spec => []ResultsMatchTheKeys
<1>1. LookupInv => ResultsMatchTheKeys
  <2> SUFFICES ASSUME LookupInv, NEW r \in Requests, pc[r] = "done",
                      NEW m \in FullKeys
               PROVE  call[r].found[m] <= Times(call[r].keys, m)
    BY DEF ResultsMatchTheKeys
  <2>1. call[r].keys \ call[r].missing = call[r].keys
    BY DEF LookupInv, CallsInv, CallFits
  <2> QED
    BY <2>1 DEF LookupInv, FoundInv, FoundFits
<1> QED
  BY <1>1, LookupInvHolds, PTL

\* GetModels returns every row that was there throughout the call, except
\* below a prefix the identity map knew a model of.
THEOREM LookupsReturnAllRows ==
    ASSUME KeyStringsDiffer PROVE Spec => []LookupsAreComplete
<1>1. LookupInv => LookupsAreComplete
  <2> SUFFICES ASSUME LookupInv, NEW r \in Requests, pc[r] = "done",
                      NEW key \in call[r].keys
               PROVE  \/ Len(key) < KeyLen /\ Below(call[r].kept, key) # {}
                      \/ \A m \in Below(call[r].stable, key) : call[r].found[m] > 0
    BY DEF LookupsAreComplete
  <2>1. key \in call[r].keys \ call[r].missing
    BY DEF LookupInv, CallsInv, CallFits
  <2> QED
    BY <2>1 DEF LookupInv, FoundInv, FoundFits
<1> QED
  BY <1>1, LookupInvHolds, PTL

\* GetModelsForUpdate returns rows that exist and are locked.
THEOREM LockedLookupsReturnLockedRows ==
    ASSUME KeyStringsDiffer PROVE Spec => []LockedResultsAreLocked
<1>1. LookupInv => LockedResultsAreLocked
  BY DEF LookupInv, FlagsInv, FlagsFit, LocksInv, LocksFit, Covered,
         LockedResultsAreLocked
<1> QED
  BY <1>1, LookupInvHolds, PTL

\* The danger check of getModels lets no model become locked that was reserved
\* before.
THEOREM EarlySavesAreNeverLocked ==
    ASSUME KeyStringsDiffer PROVE Spec => []EarlySavesStayUnlocked
<1>1. LookupInv => EarlySavesStayUnlocked
  BY DEF LookupInv, FlagsInv, FlagsFit, EarlySavesStayUnlocked
<1> QED
  BY <1>1, LookupInvHolds, PTL

\* No plain lookup takes the place of a locked model of the identity map.
THEOREM LockedModelsStay == ASSUME KeyStringsDiffer PROVE Spec => LockedModelsAreKept
<1> DEFINE Stay == \A r \in Requests :
                       held'[r] # {} => isForUpdate[r] \subseteq isForUpdate'[r]
<1>1. LookupInv /\ [Next]_vars => [Stay]_lookupVars
  <2> SUFFICES ASSUME LookupInv, Next, isForUpdate' # isForUpdate PROVE Stay
    BY DEF vars, lookupVars, managerVars
  <2>0. /\ isForUpdate \in [Requests -> SUBSET FullKeys]
        /\ held \in [Requests -> SUBSET FullKeys]
    BY DEF LookupInv, TypeOK, LookupTypeOK
  <2>1. ASSUME NEW r \in Requests, FreshModels(r) PROVE Stay
    BY <2>0, <2>1 DEF FreshModels
  <2>2. ASSUME NEW r \in Requests, NEW S, S \cap isForUpdate[r] = {},
               isForUpdate' = [isForUpdate EXCEPT ![r] = @ \ S]
        PROVE  Stay
    BY <2>0, <2>2
  <2>3. ASSUME NEW r \in Requests, ReadCache(r) PROVE Stay
    <3> DEFINE models == {h[2] : h \in Hits(r)}
    <3>1. isForUpdate' = [isForUpdate EXCEPT ![r] = @ \ models]
      BY <2>3 DEF ReadCache
    <3>2. ~call[r].forUpdate /\ cache \subseteq FullKeys /\ call[r].missing \subseteq Keys
      BY <2>3 DEF ReadCache, LookupInv, CallsInv, CallFits, TypeOK, LookupTypeOK, Calls
    <3>3. \A h \in Hits(r) : h[1] = h[2] /\ h[2] \in call[r].missing /\ h[2] \in FullKeys
      BY <3>2, FullKeysAreKeys DEF Hits, Complete, KeyStringsDiffer
    <3>4. \A h \in Hits(r) : h[2] \notin isForUpdate[r]
      BY <3>2, <3>3, WholeModel DEF LookupInv, FlagsInv, FlagsFit, Below
    <3> QED
      BY <2>2, <3>1, <3>4
  <2>4. ASSUME NEW r \in Requests, NEW n \in 1 .. KeyLen, Query(r, n) PROVE Stay
    <3> DEFINE c == call[r]
               models == UNION {Below(Visible(r, c.forUpdate), key) :
                                   key \in {k \in c.missing : Len(k) = n}}
    <3>1. isForUpdate' = [isForUpdate EXCEPT ![r] =
             IF c.forUpdate THEN @ \cup models ELSE @ \ models]
      BY <2>4 DEF Query, Selected
    <3>2. CASE c.forUpdate
      <4> HIDE DEF models
      <4> QED BY <2>0, <3>1, <3>2
    <3>3. CASE ~c.forUpdate
      <4>1. models \cap isForUpdate[r] = {}
        BY <3>3 DEF LookupInv, FlagsInv, FlagsFit, Below
      <4> HIDE DEF models
      <4>2. isForUpdate' = [isForUpdate EXCEPT ![r] = @ \ models]
        BY <3>1, <3>3
      <4> QED
        BY <2>2, <4>1, <4>2
    <3> QED BY <3>2, <3>3
  <2>5. CASE LookupNext
    BY <2>1, <2>3, <2>4, <2>5
       DEF LookupNext, CacheLoses, StartTransaction, EndTransaction, WriteAll, SetSave,
           Ask, GetModels, Fill, LookupFails, LookupReturns, managerVars
  <2>6. CASE ~LookupNext
    BY <2>6
       DEF Next, GetMasterModelAll, GetList, GetModels, Find, FillLocal, SetList,
           ExpireList, MasterFails, Leave, ListExpires, Write, Change,
           WriteAllDeletes, WriteAllFails, Commit, ChangeCommits, CommitFails,
           Rollback, ChangeRollsBack, WriteEnd, WriteEndFails, lookupVars, managerVars
  <2> QED BY <2>5, <2>6
<1> QED
  BY <1>1, LookupInvHolds, PTL DEF Spec, LockedModelsAreKept

\* The list is a record; while WriteEnd is ahead, it may still name the rows
\* that COMMIT took away.
ListInv ==
    \/ list = NoList
    \/ /\ list = [keys |-> list.keys, version |-> list.version,
                  expires |-> list.expires, belated |-> list.belated,
                  spared |-> list.spared]
       /\ \/ writer = "committed"
          \/ list.keys \subseteq rows \/ list.belated \/ list.spared

\* When WriteEnd is over, a list that names deleted rows was stored by a request
\* that had read the table before, or WriteEnd's DEL was lost.
THEOREM DeletedRowsLeaveTheList == Spec => []DeletedRowsAreUnlisted
<1>1. MasterInit => ListInv
  BY DEF MasterInit, ListInv
<1>2. ListInv /\ [Next]_vars => ListInv'
  <2> SUFFICES ASSUME ListInv, [Next]_vars PROVE ListInv'
    OBVIOUS
  <2>1. CASE UNCHANGED <<rows, list, writer>>
    BY <2>1 DEF ListInv
  <2>2. ASSUME NEW r \in Requests, SetList(r) PROVE ListInv'
    <3> DEFINE l == [keys |-> names[r], version |-> version[r], expires |-> FALSE,
                     belated |-> ~(names[r] \subseteq rows), spared |-> FALSE]
    <3>1. list' = l /\ rows' = rows
      BY <2>2 DEF SetList, lookupVars, dbVars
    <3>2. /\ l.keys \subseteq rows \/ l.belated
          /\ l = [keys |-> l.keys, version |-> l.version, expires |-> l.expires,
                  belated |-> l.belated, spared |-> l.spared]
      OBVIOUS
    <3> HIDE DEF l
    <3> QED
      BY <3>1, <3>2 DEF ListInv
  <2>3. ASSUME NEW r \in Requests, ExpireList(r) PROVE ListInv'
    <3>1. /\ list' = IF list = NoList THEN NoList ELSE [list EXCEPT !.expires = TRUE]
          /\ rows' = rows /\ writer' = writer
      BY <2>3 DEF ExpireList, Leave, dbVars
    <3> QED
      BY <3>1 DEF ListInv
  <2>4. CASE list' = NoList
    BY <2>4 DEF ListInv
  <2>5. CASE Commit
    <3>1. /\ list' = list /\ writer = "purged"
          /\ writer' = "committed" \/ rows \subseteq rows'
      BY <2>5 DEF Commit, AfterCommit, ChangeCommits
    <3> QED
      BY <3>1 DEF ListInv
  <2>6. CASE \/ writer = "idle" /\ \E m \in FullKeys : Write(m)
             \/ WriteAllFails \/ CommitFails \/ Rollback
    <3>1. list' = list /\ writer # "committed" /\ rows' = rows
      BY <2>6 DEF Write, Change, WriteAllFails, CommitFails, Rollback, ChangeRollsBack,
                  lookupVars, dbVars
    <3> QED
      BY <3>1 DEF ListInv
  <2>7. CASE LookupNext /\ UNCHANGED listVars
    <3>1. UNCHANGED dbVars
      <4>1. ASSUME NEW r \in Requests, NEW n \in 1 .. KeyLen, Query(r, n)
            PROVE  UNCHANGED dbVars
        BY <4>1 DEF Query
      <4>2. ASSUME NEW r \in Requests, ReadCache(r) \/ Fill(r) PROVE UNCHANGED dbVars
        BY <4>2 DEF ReadCache, Fill
      <4>3. ASSUME NEW r \in Requests, Ask(r) PROVE UNCHANGED dbVars
        BY <4>3 DEF Ask, GetModels
      <4> QED
        BY <2>7, <4>1, <4>2, <4>3
           DEF LookupNext, CacheLoses, StartTransaction, EndTransaction, WriteAll,
               SetSave, LookupFails, LookupReturns
    <3> QED
      BY <2>1, <2>7, <3>1 DEF dbVars, listVars
  <2>8. ASSUME NEW r \in Requests,
               \/ \E v \in Versions, reload \in BOOLEAN : GetMasterModelAll(r, v, reload)
               \/ GetList(r) \/ Find(r) \/ FillLocal(r) \/ MasterFails(r)
        PROVE  ListInv'
    BY <2>1, <2>8
       DEF GetMasterModelAll, GetList, GetModels, Find, FillLocal, MasterFails, Leave,
           lookupVars, dbVars
  <2>9. CASE UNCHANGED vars
    BY <2>1, <2>9 DEF vars, lookupVars, listVars, dbVars
  <2>10. CASE ListExpires \/ WriteAllDeletes \/ WriteEnd
    BY <2>4, <2>10 DEF ListExpires, WriteAllDeletes, WriteEnd
  <2>11. CASE WriteEndFails
    BY <2>11 DEF WriteEndFails, ListInv
  <2> QED
    BY <2>2, <2>3, <2>5, <2>6, <2>7, <2>8, <2>9, <2>10, <2>11 DEF Next
<1>3. ListInv => DeletedRowsAreUnlisted
  BY DEF ListInv, DeletedRowsAreUnlisted
<1> QED
  BY <1>1, <1>2, <1>3, PTL DEF Spec
=============================================================================
