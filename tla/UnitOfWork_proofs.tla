-------------------------- MODULE UnitOfWork_proofs --------------------------
(***************************************************************************)
(* Reservation implements UnitOfWork, for every set of keys, priorities,    *)
(* columns and options, with failures and tasks.  The argument is about the *)
(* two slices: while the unit of work is smooth, reservedSaveModelKeys and   *)
(* reservedDelModelKeys list each reserved key once, so what sort.Slice      *)
(* makes of both is strictly ordered and holds every reserved key, and the   *)
(* loop's position divides it into what was sent and what is left.  A       *)
(* failed batch may leave the sorted list in the array of                   *)
(* reservedSaveModelKeys; that is harmless while it holds no deletion.       *)
(***************************************************************************)
EXTENDS Reservation_proofs, FiniteSetTheorems, FunctionTheorems, SequenceTheorems

\* The first n places of s hold each of the rows once and nothing else.
Lists(s, n, rows) ==
    /\ \A i \in 1 .. n : s[i] \in rows
    /\ \A k \in rows : \E i \in 1 .. n : s[i] = k
    /\ \A i, j \in 1 .. n : i # j => s[i] # s[j]

\* The types of the slices and of the loop.
SliceTypes ==
    /\ array \in Seq(Names) /\ keys \in Seq(Names) /\ delKeys \in Seq(Keys)
    /\ count \in Nat /\ count <= Len(array)
    /\ shared \in BOOLEAN /\ smooth \in BOOLEAN
    /\ total \in Nat /\ pos \in 1 .. total + 1 /\ tasks \in Nat
    /\ pc \in {"app", "loop", "prepare", "saved", "end"}
    /\ log \in Seq(Keys \X Kinds)

\* The reserved keys are listed once each, unless deletions were sorted in
\* between them.
Listed ==
    /\ Lists(delKeys, Len(delKeys), deleted)
    /\ smooth /\ (Writing /\ shared => deleted = {}) => Lists(array, count, saved)

\* The loop is inside a strictly ordered list of all reserved rows and has sent
\* what lies before its position.
InOrder ==
    smooth /\ Writing =>
        /\ \A i \in 1 .. total : KeyAt(i) \in saved \cup deleted
        /\ \A k \in saved \cup deleted : \E i \in 1 .. total : KeyAt(i) = k
        /\ \A i, j \in 1 .. total : i < j => Before(KeyAt(i), KeyAt(j))
        /\ Len(log) = IF pc = "saved" THEN pos ELSE pos - 1
        /\ \A i \in 1 .. Len(log) : log[i][1] = KeyAt(i)

\* Inside the row of a save; outside the loop nothing is shared or sent.
AtRow ==
    /\ pc \in {"prepare", "saved"} =>
          row \in saved /\ pos <= total /\ (smooth => row = KeyAt(pos))
    /\ ~Writing => ~shared /\ log = <<>>

SliceInv == SliceTypes /\ Listed /\ InOrder /\ AtRow

WorkInv == Inv /\ SliceInv

-----------------------------------------------------------------------------
(* Order and lists                                                         *)

\* Of two keys one is before the other.
LEMMA BeforeTotal ==
    ASSUME NEW k \in Keys, NEW j \in Keys, k # j
    PROVE  /\ Before(k, j) \/ Before(j, k)
           /\ ~(Before(k, j) /\ Before(j, k))
  <1>1. k \in Nat /\ j \in Nat /\ Priority[k] \in Nat /\ Priority[j] \in Nat
    BY ReservationAssumption
  <1> QED
    BY <1>1 DEF Before

\* sort.Slice keeps the length and brings no new name.
LEMMA SortedTypes ==
    ASSUME NEW S, NEW s \in Seq(S), NEW t \in Sorted(s)
    PROVE  t \in Seq(S) /\ Len(t) = Len(s)
<1> DEFINE rows == {s[i] : i \in DOMAIN s}
<1>1. DOMAIN s = 1 .. Len(s) /\ Len(s) \in Nat /\ rows \subseteq S
  BY LenProperties
<1>2. t \in [1 .. Len(s) -> S]
  BY <1>1 DEF Sorted
<1> QED
  BY <1>1, <1>2

\* A list without repetitions is sorted strictly, and keeps its keys.
LEMMA SortedLists ==
    ASSUME NEW s \in Seq(Keys), \A i, j \in 1 .. Len(s) : i # j => s[i] # s[j],
           NEW t \in Sorted(s)
    PROVE  /\ \A i \in 1 .. Len(s) : \E j \in 1 .. Len(s) : t[i] = s[j]
           /\ \A i \in 1 .. Len(s) : \E j \in 1 .. Len(s) : t[j] = s[i]
           /\ \A i, j \in 1 .. Len(s) : i < j => Before(t[i], t[j])
<1> DEFINE rows == {s[i] : i \in DOMAIN s}
<1>1. DOMAIN s = 1 .. Len(s) /\ Len(s) \in Nat
  BY LenProperties
<1>2. t \in [1 .. Len(s) -> rows] /\ DOMAIN t = 1 .. Len(s)
  BY <1>1 DEF Sorted
<1>3. \A i \in 1 .. Len(s) : \E j \in 1 .. Len(s) : t[i] = s[j]
  BY <1>1, <1>2
<1>4. \A n \in 1 .. Len(s) : \E j : {i \in DOMAIN t : t[i] = s[n]} = {j}
  <2> SUFFICES ASSUME NEW n \in 1 .. Len(s)
               PROVE  \E j : {i \in DOMAIN t : t[i] = s[n]} = {j}
    OBVIOUS
  <2>1. {i \in DOMAIN s : s[i] = s[n]} = {n}
    BY <1>1
  <2>2. Count(s, s[n]) = 1
    BY <2>1, FS_Singleton DEF Count
  <2>3. Count(t, s[n]) = 1
    BY <1>1, <2>2 DEF Sorted
  <2>4. IsFiniteSet({i \in DOMAIN t : t[i] = s[n]})
    <3>1. IsFiniteSet(1 .. Len(s))
      BY <1>1, FS_Interval
    <3>2. {i \in DOMAIN t : t[i] = s[n]} \subseteq 1 .. Len(s)
      BY <1>2
    <3> QED
      BY <3>1, <3>2, FS_Subset
  <2> QED
    BY <2>3, <2>4, FS_Singleton DEF Count
<1>5. \A i \in 1 .. Len(s) : \E j \in 1 .. Len(s) : t[j] = s[i]
  BY <1>2, <1>4
<1>6. \A i, j \in 1 .. Len(s) : i # j => t[i] # t[j]
  <2> SUFFICES ASSUME NEW i \in 1 .. Len(s), NEW j \in 1 .. Len(s),
                      t[i] = t[j]
               PROVE  i = j
    OBVIOUS
  <2>1. PICK n \in 1 .. Len(s) : t[i] = s[n]
    BY <1>3
  <2>2. PICK x : {h \in DOMAIN t : t[h] = s[n]} = {x}
    BY <1>4
  <2>3. /\ i \in {h \in DOMAIN t : t[h] = s[n]}
        /\ j \in {h \in DOMAIN t : t[h] = s[n]}
    BY <1>2, <2>1
  <2> QED
    BY <2>2, <2>3
<1>7. \A i, j \in 1 .. Len(s) : i < j => Before(t[i], t[j])
  <2> SUFFICES ASSUME NEW i \in 1 .. Len(s), NEW j \in 1 .. Len(s), i < j
               PROVE  Before(t[i], t[j])
    OBVIOUS
  <2>1. t[i] \in Keys /\ t[j] \in Keys
    BY <1>1, <1>3, ElementOfSeq
  <2>3. t[i] # t[j]
    BY <1>6
  <2>2. ~Before(t[j], t[i])
    BY <1>1 DEF Sorted
  <2> HIDE DEF Before
  <2> QED
    BY <2>1, <2>2, <2>3, BeforeTotal
<1> QED
  BY <1>3, <1>5, <1>7

\* The list WriteAll sorts: both lists, one behind the other.
LEMMA AllKeys ==
    ASSUME SliceTypes
    PROVE  LET all == SaveKeys \o delKeys
           IN /\ all \in Seq(Names) /\ Len(all) = count + Len(delKeys)
              /\ Len(SaveKeys) = count /\ Len(delKeys) \in Nat
              /\ \A i \in 1 .. Len(all) :
                    all[i] = IF i <= count THEN array[i] ELSE delKeys[i - count]
<1>1. /\ SaveKeys \in Seq(Names) /\ Len(SaveKeys) = count
      /\ \A i \in 1 .. count : SaveKeys[i] = array[i]
  <2>1. \A i \in 1 .. count : array[i] \in Names
    BY ElementOfSeq DEF SliceTypes
  <2> QED
    BY <2>1, SubSeqProperties DEF SaveKeys, SliceTypes
<1>2. delKeys \in Seq(Names) /\ Len(delKeys) \in Nat
  BY SeqMonotonic, LenProperties DEF SliceTypes, Names
<1>3. /\ SaveKeys \o delKeys \in Seq(Names)
      /\ Len(SaveKeys \o delKeys) = Len(SaveKeys) + Len(delKeys)
      /\ \A i \in 1 .. Len(SaveKeys) + Len(delKeys) :
            (SaveKeys \o delKeys)[i] = IF i <= Len(SaveKeys) THEN SaveKeys[i]
                                      ELSE delKeys[i - Len(SaveKeys)]
  BY <1>1, <1>2, ConcatProperties
<1>4. \A i \in 1 .. Len(SaveKeys \o delKeys) : i <= count => i \in 1 .. count
  BY DEF SliceTypes
<1> QED
  BY <1>1, <1>2, <1>3, <1>4 DEF SliceTypes

\* While no deletion lies between the reserved saves, it lists every reserved
\* key once.
LEMMA AllKeysOnce ==
    ASSUME Inv, SliceTypes, Listed, smooth, ~Writing
    PROVE  LET all == SaveKeys \o delKeys
           IN all \in Seq(Keys) /\ Lists(all, Len(all), saved \cup deleted)
<1> DEFINE all == SaveKeys \o delKeys
<1>1. /\ all \in Seq(Names) /\ Len(all) = count + Len(delKeys)
      /\ Len(delKeys) \in Nat /\ count \in Nat
      /\ \A i \in 1 .. Len(all) :
            all[i] = IF i <= count THEN array[i] ELSE delKeys[i - count]
  BY AllKeys DEF SliceTypes
<1>2. Lists(array, count, saved) /\ Lists(delKeys, Len(delKeys), deleted)
  BY DEF Listed
<1>3. saved \subseteq Keys /\ deleted \subseteq Keys /\ saved \cap deleted = {}
  BY DEF Inv, Types, NeverSavedAndDeleted
<1>4. \A i \in 1 .. Len(all) : all[i] \in saved \cup deleted
  <2> TAKE i \in 1 .. Len(all)
  <2>1. CASE i <= count
    BY <1>1, <1>2, <2>1 DEF Lists
  <2>2. CASE ~(i <= count)
    <3>1. i - count \in 1 .. Len(delKeys)
      BY <1>1, <2>2
    <3> QED
      BY <1>1, <1>2, <2>2, <3>1 DEF Lists
  <2> QED
    BY <2>1, <2>2
<1>5. \A k \in saved \cup deleted : \E i \in 1 .. Len(all) : all[i] = k
  <2>1. ASSUME NEW k \in saved PROVE \E i \in 1 .. Len(all) : all[i] = k
    <3>1. PICK i \in 1 .. count : array[i] = k
      BY <1>2, <2>1 DEF Lists
    <3> QED
      BY <1>1, <3>1
  <2>2. ASSUME NEW k \in deleted PROVE \E i \in 1 .. Len(all) : all[i] = k
    <3>1. PICK i \in 1 .. Len(delKeys) : delKeys[i] = k
      BY <1>2, <2>2 DEF Lists
    <3>2. /\ i + count \in 1 .. Len(all) /\ ~(i + count <= count)
          /\ (i + count) - count = i
      BY <1>1
    <3> QED
      BY <1>1, <3>1, <3>2
  <2> QED
    BY <2>1, <2>2
<1>6. \A i, j \in 1 .. Len(all) : i # j => all[i] # all[j]
  <2> SUFFICES ASSUME NEW i \in 1 .. Len(all), NEW j \in 1 .. Len(all), i # j
               PROVE  all[i] # all[j]
    OBVIOUS
  <2>1. \A h \in 1 .. Len(all) : IF h <= count THEN h \in 1 .. count
                                 ELSE h - count \in 1 .. Len(delKeys)
    BY <1>1
  <2>2. CASE i <= count /\ j <= count
    BY <1>1, <1>2, <2>1, <2>2 DEF Lists
  <2>3. CASE ~(i <= count) /\ ~(j <= count)
    <3>1. i - count # j - count
      BY <1>1
    <3> QED
      BY <1>1, <1>2, <2>1, <2>3, <3>1 DEF Lists
  <2>4. \A h \in 1 .. Len(all) : IF h <= count THEN all[h] \in saved
                                 ELSE all[h] \in deleted
    BY <1>1, <1>2, <2>1 DEF Lists
  <2>5. CASE i <= count /\ ~(j <= count)
    BY <1>3, <2>4, <2>5
  <2>6. CASE ~(i <= count) /\ j <= count
    BY <1>3, <2>4, <2>6
  <2> QED
    BY <2>2, <2>3, <2>5, <2>6
<1>7. all \in Seq(Keys)
  <2>1. all = [i \in 1 .. Len(all) |-> all[i]] /\ Len(all) \in Nat
    BY <1>1, LenProperties
  <2>2. all \in [1 .. Len(all) -> Keys]
    BY <1>3, <1>4, <2>1
  <2> QED
    BY <2>1, <2>2, SeqDef
<1> QED
  BY <1>4, <1>5, <1>6, <1>7 DEF Lists

-----------------------------------------------------------------------------
(* The slices                                                              *)

\* append adds the key behind the others and keeps them.
LEMMA AppendedKey ==
    ASSUME SliceTypes, NEW k \in Keys, AppendKey(k)
    PROVE  /\ count' = count + 1 /\ count' \in Nat /\ count' <= Len(array')
           /\ array' \in Seq(Names) /\ keys' \in Seq(Names) /\ shared' \in BOOLEAN
           /\ ~shared => ~shared'
           /\ \A i \in 1 .. count : array'[i] = array[i]
           /\ array'[count + 1] = k
<1>1. /\ k \in Names /\ array \in Seq(Names) /\ Len(array) \in Nat
      /\ count \in Nat /\ count <= Len(array)
  BY LenProperties DEF SliceTypes, Names
<1>2. CASE count < Len(array)
  <2>1. count + 1 \in 1 .. Len(array)
    BY <1>1, <1>2
  <2>2. /\ array' \in Seq(Names) /\ Len(array') = Len(array)
        /\ \A i \in 1 .. Len(array) :
              array'[i] = IF i = count + 1 THEN k ELSE array[i]
    BY <1>1, <1>2, <2>1, ExceptSeq DEF AppendKey
  <2> QED
    BY <1>1, <1>2, <2>1, <2>2 DEF AppendKey, SliceTypes
<1>3. CASE ~(count < Len(array))
  <2>1. count = Len(array) /\ Len(array) - 1 \in Int
    BY <1>1, <1>3
  <2>2. Spare(Len(array) - 1) \in Seq(Names) /\ Len(Spare(Len(array) - 1)) \in Nat
    <3> DEFINE n == Len(array) - 1
    <3>1. CASE n >= 0
      <4>1. n \in Nat /\ Spare(n) \in [1 .. n -> Names]
        BY <2>1, <3>1 DEF Spare, Names
      <4> QED
        BY <4>1, SeqDef, LenProperties
    <3>2. CASE ~(n >= 0)
      <4>1. 1 .. n = 1 .. 0
        BY <2>1, <3>2
      <4>2. Spare(n) \in [1 .. 0 -> Names]
        BY <4>1 DEF Spare
      <4> QED
        BY <4>2, SeqDef, LenProperties
    <3> QED
      BY <3>1, <3>2
  <2>3. /\ array \o <<k>> \in Seq(Names) /\ Len(array \o <<k>>) = Len(array) + 1
        /\ \A i \in 1 .. Len(array) : (array \o <<k>>)[i] = array[i]
        /\ (array \o <<k>>)[Len(array) + 1] = k
    <3>1. <<k>> \in Seq(Names) /\ Len(<<k>>) = 1 /\ <<k>>[1] = k
      BY <1>1
    <3> QED
      BY <1>1, <3>1, ConcatProperties
  <2>4. /\ array' \in Seq(Names) /\ Len(array') >= Len(array) + 1
        /\ \A i \in 1 .. Len(array) + 1 : array'[i] = (array \o <<k>>)[i]
    <3> DEFINE old == array \o <<k>>
               spare == Spare(Len(array) - 1)
    <3>1. array' = old \o spare
      BY <1>3 DEF AppendKey
    <3> HIDE DEF old, spare
    <3>2. old \in Seq(Names) /\ spare \in Seq(Names)
      BY <2>2, <2>3 DEF old, spare
    <3>3. Len(old) = Len(array) + 1 /\ Len(spare) \in Nat
      BY <2>2, <2>3 DEF old, spare
    <3>4. /\ array' \in Seq(Names) /\ Len(array') = Len(old) + Len(spare)
          /\ \A i \in 1 .. Len(old) + Len(spare) :
                array'[i] = IF i <= Len(old) THEN old[i] ELSE spare[i - Len(old)]
      BY <3>1, <3>2, ConcatProperties
    <3>5. \A i \in 1 .. Len(array) + 1 : array'[i] = old[i]
      BY <1>1, <3>3, <3>4
    <3> QED
      BY <1>1, <3>3, <3>4, <3>5 DEF old
  <2>5. keys' \in Seq(Names)
    BY <1>1, <1>3 DEF AppendKey, SliceTypes
  <2>6. /\ \A i \in 1 .. count : array'[i] = array[i]
        /\ array'[count + 1] = k
    BY <1>1, <2>1, <2>3, <2>4
  <2>7. count' = count + 1 /\ ~shared'
    BY <1>3 DEF AppendKey
  <2>8. count' \in Nat /\ count' <= Len(array')
    <3>1. Len(array') \in Nat
      BY <2>4, LenProperties
    <3> QED
      BY <1>1, <2>1, <2>4, <2>7, <3>1
  <2>9. shared' \in BOOLEAN
    BY <1>3 DEF AppendKey
  <2> QED
    BY <2>4, <2>5, <2>6, <2>7, <2>8, <2>9
<1> QED
  BY <1>2, <1>3

\* A key removed from a list without repetitions leaves the others in it.
LEMMA RemovedKey ==
    ASSUME SliceTypes, NEW i \in 1 .. count, RemoveKey(i)
    PROVE  /\ count' = count - 1 /\ count' \in Nat /\ count' <= Len(array')
           /\ array' \in Seq(Names)
           /\ \A rows : Lists(array, count, rows)
                           => Lists(array', count', rows \ {array[i]})
<1>1. /\ array \in Seq(Names) /\ Len(array) \in Nat
      /\ count \in Nat /\ count <= Len(array) /\ i \in Nat
      /\ \A j \in 1 .. Len(array) : array[j] \in Names
  BY LenProperties, ElementOfSeq DEF SliceTypes
<1>2. array' \in [1 .. Len(array) -> Names]
  BY <1>1 DEF RemoveKey
<1>3. array' \in Seq(Names) /\ Len(array') = Len(array)
  <2>1. array' \in Seq(Names)
    BY <1>1, <1>2, SeqDef
  <2> QED
    BY <1>1, <1>2, <2>1, LenProperties
<1>4. count' = count - 1 /\ count' \in Nat /\ count' <= Len(array')
  BY <1>1, <1>3 DEF RemoveKey
<1>5. \A j \in 1 .. count' : array'[j] = IF j < i THEN array[j] ELSE array[j + 1]
  BY <1>1, <1>4 DEF RemoveKey
<1>6. ASSUME NEW rows, Lists(array, count, rows)
      PROVE  Lists(array', count', rows \ {array[i]})
  <2>1. \A j \in 1 .. count' :
            LET old == IF j < i THEN j ELSE j + 1
            IN old \in 1 .. count /\ old # i /\ array'[j] = array[old]
    BY <1>1, <1>4, <1>5
  <2>2. \A j \in 1 .. count' : array'[j] \in rows \ {array[i]}
    BY <1>6, <2>1 DEF Lists
  <2>3. \A k \in rows \ {array[i]} : \E j \in 1 .. count' : array'[j] = k
    <3> SUFFICES ASSUME NEW k \in rows \ {array[i]}
                 PROVE  \E j \in 1 .. count' : array'[j] = k
      OBVIOUS
    <3>1. PICK h \in 1 .. count : array[h] = k
      BY <1>6 DEF Lists
    <3>2. h # i
      BY <3>1
    <3>3. CASE h < i
      <4>1. h \in 1 .. count'
        BY <1>1, <1>4, <3>3
      <4> QED
        BY <1>5, <3>1, <3>3, <4>1
    <3>4. CASE ~(h < i)
      <4>1. h - 1 \in 1 .. count' /\ ~(h - 1 < i) /\ (h - 1) + 1 = h
        BY <1>1, <1>4, <3>2, <3>4
      <4> QED
        BY <1>5, <3>1, <4>1
    <3> QED
      BY <3>3, <3>4
  <2>4. \A j, h \in 1 .. count' : j # h => array'[j] # array'[h]
    <3> SUFFICES ASSUME NEW j \in 1 .. count', NEW h \in 1 .. count', j # h
                 PROVE  array'[j] # array'[h]
      OBVIOUS
    <3>1. (IF j < i THEN j ELSE j + 1) # (IF h < i THEN h ELSE h + 1)
      BY <1>1, <1>4
    <3> QED
      BY <1>6, <2>1, <3>1 DEF Lists
  <2> QED
    BY <2>2, <2>3, <2>4 DEF Lists
<1> QED
  BY <1>3, <1>4, <1>6

-----------------------------------------------------------------------------
(* The invariant of the slices                                             *)

LEMMA SliceInit == Init => SliceInv
<1> SUFFICES ASSUME Init PROVE SliceInv
  OBVIOUS
<1>1. <<>> \in Seq(Names) /\ <<>> \in Seq(Keys) /\ <<>> \in Seq(Keys \X Kinds)
      /\ Len(<<>>) = 0
  BY EmptySeq
<1>2. SliceTypes
  <2>1. array \in Seq(Names) /\ keys \in Seq(Names) /\ delKeys \in Seq(Keys)
        /\ log \in Seq(Keys \X Kinds) /\ count <= Len(array)
    BY <1>1 DEF Init
  <2>2. count = 0 /\ total = 0 /\ pos = 1 /\ tasks = 0 /\ ~shared /\ smooth
        /\ pc = "app"
    BY DEF Init
  <2>3. shared \in BOOLEAN /\ smooth \in BOOLEAN
    BY DEF Init
  <2> QED
    BY <2>1, <2>2, <2>3 DEF SliceTypes
<1>3. Listed
  BY <1>1 DEF Init, Listed, Lists
<1>4. InOrder /\ AtRow
  BY DEF Init, InOrder, AtRow, Writing
<1> QED
  BY <1>2, <1>3, <1>4 DEF SliceInv

\* A task that reserves a save inside the loop ends the smooth part; any other
\* call puts the new key behind the others.
LEMMA SliceSetSave ==
    ASSUME WorkInv, NEW k \in Keys, NEW opt, SetSave(k, opt)
    PROVE  SliceInv'
<1> USE DEF delVars, WorkInv, SliceInv
<1>1. /\ Writing' = Writing /\ pc' = pc /\ row' = row /\ pos' = pos
      /\ total' = total /\ log' = log /\ tasks' = tasks
      /\ deleted' = deleted /\ delKeys' = delKeys
      /\ smooth' = (smooth /\ ~Writing) /\ smooth' \in BOOLEAN
      /\ saved \subseteq saved'
  BY DEF SetSave, SetSaveNew, SetSaveAgain, Outside, Writing, SliceTypes
<1>2. CASE SetSaveNew(k, opt)
  <2>1. /\ count' = count + 1 /\ count' \in Nat /\ count' <= Len(array')
        /\ array' \in Seq(Names) /\ keys' \in Seq(Names) /\ shared' \in BOOLEAN
        /\ ~shared => ~shared'
        /\ \A i \in 1 .. count : array'[i] = array[i]
        /\ array'[count + 1] = k
        /\ saved' = saved \cup {k} /\ k \notin saved /\ count \in Nat
    BY <1>2, AppendedKey DEF SetSaveNew, SliceTypes
  <2>2. SliceTypes'
    BY <1>1, <2>1 DEF SliceTypes
  <2>3. Lists(array, count, saved) => Lists(array', count', saved')
    <3>1. \A i : i \in 1 .. count' <=> i \in 1 .. count \/ i = count + 1
      BY <2>1
    <3> QED
      BY <2>1, <3>1, SMTT(30) DEF Lists
  <2>4. Listed'
    BY <1>1, <2>3 DEF Listed
  <2> QED
    BY <1>1, <2>1, <2>2, <2>4 DEF InOrder, AtRow, Writing
<1>3. CASE SetSaveAgain(k, opt)
  <2>1. UNCHANGED <<saved, array, count, keys, shared>>
    BY <1>3 DEF SetSaveAgain, keyVars
  <2> QED
    BY <1>1, <2>1 DEF SliceTypes, Listed, Lists, InOrder, AtRow, Writing
<1> QED
  BY <1>2, <1>3 DEF SetSave

\* The deletions are listed once each.
LEMMA ListedDeletion ==
    ASSUME SliceTypes, Listed, NEW k \in Keys, k \notin deleted,
           delKeys' = Append(delKeys, k), deleted' = deleted \cup {k}
    PROVE  delKeys' \in Seq(Keys) /\ Lists(delKeys', Len(delKeys'), deleted')
<1>1. /\ delKeys' \in Seq(Keys) /\ Len(delKeys') = Len(delKeys) + 1
      /\ \A i \in 1 .. Len(delKeys) : delKeys'[i] = delKeys[i]
      /\ delKeys'[Len(delKeys) + 1] = k
      /\ Len(delKeys) \in Nat
  BY AppendProperties, LenProperties DEF SliceTypes
<1> QED
  BY <1>1 DEF Listed, Lists

LEMMA SliceSetDelete ==
    ASSUME WorkInv, NEW k \in Keys, SetDelete(k)
    PROVE  SliceInv'
<1> USE DEF resVars, keyVars, loopVars, syncVars, WorkInv, SliceInv
<1>1. delKeys' \in Seq(Keys) /\ Lists(delKeys', Len(delKeys'), deleted')
  BY ListedDeletion DEF SetDelete
<1>2. ~Writing /\ ~Writing'
  BY DEF SetDelete, Outside, Writing
<1> QED
  BY <1>1, <1>2 DEF SetDelete, SliceTypes, Listed, InOrder, AtRow, Lists, Writing

LEMMA SliceSetForceDelete ==
    ASSUME WorkInv, NEW k \in Keys, SetForceDelete(k)
    PROVE  SliceInv'
<1> USE DEF keyVars, loopVars, syncVars, WorkInv, SliceInv
<1>1. k \in saved /\ k \notin deleted /\ saved' = saved \ {k}
  BY DEF SetForceDelete, CancelSave, Inv, NeverSavedAndDeleted
<1>2. delKeys' \in Seq(Keys) /\ Lists(delKeys', Len(delKeys'), deleted')
  BY <1>1, ListedDeletion DEF SetForceDelete
<1>3. ~Writing /\ ~Writing'
  BY DEF SetForceDelete, Outside, Writing
<1>4. /\ count' \in Nat /\ count' <= Len(array') /\ array' \in Seq(Names)
      /\ Lists(array, count, saved) => Lists(array', count', saved')
  <2>1. CASE \E i \in 1 .. count : array[i] = k /\ RemoveKey(i)
    BY <1>1, <2>1, RemovedKey
  <2>2. CASE (\A i \in 1 .. count : array[i] # k) /\ UNCHANGED <<array, count>>
    BY <1>1, <2>2 DEF Lists, SliceTypes
  <2> QED
    BY <2>1, <2>2 DEF SetForceDelete, CancelSave
<1> QED
  BY <1>2, <1>3, <1>4 DEF SetForceDelete, SliceTypes, Listed, InOrder, AtRow, Writing

\* A smooth WriteAll sorts every reserved row once.
LEMMA SmoothList ==
    ASSUME Inv, SliceTypes, Listed, smooth, ~Writing,
           NEW list \in Sorted(SaveKeys \o delKeys)
    PROVE  LET n == count + Len(delKeys)
           IN /\ Lists(list, n, saved \cup deleted)
              /\ \A i, j \in 1 .. n : i < j => Before(list[i], list[j])
<1> DEFINE all == SaveKeys \o delKeys
           n == count + Len(delKeys)
<1>1. all \in Seq(Keys) /\ Lists(all, Len(all), saved \cup deleted)
  BY AllKeysOnce
<1>2. Len(all) = n /\ n \in Nat
  BY AllKeys DEF SliceTypes
<1> HIDE DEF all
<1>3. list \in Sorted(all)
  BY DEF all
<1>4. \A i, j \in 1 .. Len(all) : i # j => all[i] # all[j]
  BY <1>1 DEF Lists
<1>5. /\ \A i \in 1 .. Len(all) : \E j \in 1 .. Len(all) : list[i] = all[j]
      /\ \A i \in 1 .. Len(all) : \E j \in 1 .. Len(all) : list[j] = all[i]
      /\ \A i, j \in 1 .. Len(all) : i < j => Before(list[i], list[j])
  BY <1>1, <1>3, <1>4, SortedLists
<1>6. \A i \in 1 .. n : list[i] \in saved \cup deleted
  <2> TAKE i \in 1 .. n
  <2>1. PICK j \in 1 .. n : list[i] = all[j]
    BY <1>2, <1>5
  <2> QED
    BY <1>1, <1>2, <2>1 DEF Lists
<1>7. \A k \in saved \cup deleted : \E i \in 1 .. n : list[i] = k
  <2> TAKE k \in saved \cup deleted
  <2>1. PICK i \in 1 .. n : all[i] = k
    BY <1>1, <1>2 DEF Lists
  <2> QED
    BY <1>2, <1>5, <2>1
<1>8. \A i, j \in 1 .. n : i # j => list[i] # list[j]
  <2> SUFFICES ASSUME NEW i \in 1 .. n, NEW j \in 1 .. n, i # j,
                      list[i] = list[j]
               PROVE  FALSE
    OBVIOUS
  <2>1. list[i] \in Keys /\ Priority[list[i]] \in Nat /\ list[i] \in Nat
    BY <1>6, ReservationAssumption DEF Inv, Types
  <2>2. i < j \/ j < i
    BY <1>2
  <2>3. Before(list[i], list[i])
    BY <1>2, <1>5, <2>2
  <2> QED
    BY <2>1, <2>3 DEF Before
<1> QED
  BY <1>2, <1>5, <1>6, <1>7, <1>8 DEF Lists

\* WriteAll's loop finds the sorted list, wherever it lies.
LEMMA ListOfLoop ==
    ASSUME SliceTypes, WriteAll
    PROVE  \E list \in Sorted(SaveKeys \o delKeys) :
              /\ \A i \in 1 .. count + Len(delKeys) : KeyAt(i)' = list[i]
              /\ shared' => \A i \in 1 .. count + Len(delKeys) : array'[i] = list[i]
              /\ ~shared' => array' = array
              /\ array' \in Seq(Names) /\ keys' \in Seq(Names)
              /\ shared' \in BOOLEAN /\ count <= Len(array')
              /\ total' = count + Len(delKeys) /\ Len(delKeys) \in Nat
<1> DEFINE all == SaveKeys \o delKeys
           n == count + Len(delKeys)
<1>1. all \in Seq(Names) /\ Len(all) = n /\ Len(delKeys) \in Nat
  BY AllKeys
<1>2. /\ array \in Seq(Names) /\ Len(array) \in Nat /\ count \in Nat
      /\ count <= Len(array) /\ n \in Nat /\ count <= n
      /\ \A i \in 1 .. Len(array) : array[i] \in Names
  BY <1>1, LenProperties, ElementOfSeq DEF SliceTypes
<1>3. PICK list \in Sorted(all) :
          IF Len(all) <= Len(array)
          THEN /\ array' = list \o SubSeq(array, Len(all) + 1, Len(array))
               /\ keys' = <<>>
          ELSE keys' = list /\ UNCHANGED array
  BY DEF WriteAll
<1>4. total' = n /\ shared' \in BOOLEAN /\ (shared' <=> n <= Len(array))
  <2>1. total' = n /\ shared' = (n <= Len(array))
    BY <1>1 DEF WriteAll
  <2>2. (n <= Len(array)) \in BOOLEAN
    BY <1>2
  <2>3. shared' \in BOOLEAN
    BY <2>1, <2>2, Zenon
  <2>4. shared' <=> n <= Len(array)
    BY <2>1, Zenon
  <2> QED
    BY <2>1, <2>3, <2>4, Zenon
<1> HIDE DEF all, n
<1>5. list \in Seq(Names) /\ Len(list) = n
  BY <1>1, <1>3, SortedTypes
<1>6. CASE n <= Len(array)
  <2> DEFINE rest == SubSeq(array, n + 1, Len(array))
  <2>1. rest \in Seq(Names) /\ Len(rest) \in Nat
    <3>1. \A i \in n + 1 .. Len(array) : array[i] \in Names
      BY <1>2
    <3>2. n + 1 \in Int /\ Len(array) \in Int
      BY <1>2
    <3>3. rest \in Seq(Names)
      BY <3>1, <3>2, SubSeqProperties
    <3> QED
      BY <3>3, LenProperties
  <2>2. array' = list \o rest /\ keys' = <<>>
    BY <1>1, <1>3, <1>6
  <2> HIDE DEF rest
  <2>3. /\ array' \in Seq(Names) /\ Len(array') = n + Len(rest)
        /\ \A i \in 1 .. n + Len(rest) :
              array'[i] = IF i <= n THEN list[i] ELSE rest[i - n]
    BY <1>5, <2>1, <2>2, ConcatProperties
  <2>4. \A i \in 1 .. n : array'[i] = list[i]
    BY <1>2, <2>1, <2>3
  <2>5. count <= Len(array')
    BY <1>2, <2>1, <2>3
  <2>8. shared'
    BY <1>4, <1>6
  <2>6. keys' \in Seq(Names)
    BY <2>2, EmptySeq
  <2>7. \A i \in 1 .. n : KeyAt(i)' = list[i]
    BY <2>4, <2>8 DEF KeyAt
  <2> QED
    BY <1>1, <1>4, <2>3, <2>4, <2>5, <2>6, <2>7, <2>8 DEF all, n
<1>7. CASE ~(n <= Len(array))
  <2>1. keys' = list /\ array' = array
    BY <1>1, <1>3, <1>7
  <2>2. ~shared'
    BY <1>4, <1>7
  <2> QED
    BY <1>1, <1>2, <1>4, <1>5, <2>1, <2>2 DEF KeyAt, all, n
<1> QED
  BY <1>6, <1>7

LEMMA SliceWriteAll ==
    ASSUME WorkInv, WriteAll
    PROVE  SliceInv'
<1> USE DEF WorkInv, SliceInv
<1> DEFINE n == count + Len(delKeys)
<1>1. PICK list \in Sorted(SaveKeys \o delKeys) :
          /\ \A i \in 1 .. n : KeyAt(i)' = list[i]
          /\ shared' => \A i \in 1 .. n : array'[i] = list[i]
          /\ ~shared' => array' = array
          /\ array' \in Seq(Names) /\ keys' \in Seq(Names)
          /\ shared' \in BOOLEAN /\ count <= Len(array')
          /\ total' = n /\ Len(delKeys) \in Nat
  BY ListOfLoop
<1>2. /\ UNCHANGED <<saved, deleted, delKeys, count, tasks, row, log, smooth>>
      /\ pc = "app" /\ pc' = "loop" /\ pos' = 1
      /\ ~Writing /\ Writing' /\ count \in Nat /\ n \in Nat
      /\ log = <<>> /\ Len(log) = 0
  BY <1>1, EmptySeq DEF WriteAll, resVars, delVars, syncVars, Writing, AtRow, SliceTypes
<1>3. SliceTypes'
  BY <1>1, <1>2 DEF SliceTypes
<1>4. ASSUME smooth
      PROVE  /\ Lists(list, n, saved \cup deleted)
             /\ \A i, j \in 1 .. n : i < j => Before(list[i], list[j])
  BY <1>2, <1>4, SmoothList
<1>5. Listed'
  <2>1. ASSUME smooth, shared' => deleted = {}
        PROVE  Lists(array', count, saved)
    <3>1. CASE ~shared'
      BY <1>1, <1>2, <2>1, <3>1 DEF Listed
    <3>2. CASE shared'
      <4>1. Len(delKeys) = 0
        BY <1>1, <2>1, <3>2 DEF Listed, Lists
      <4>2. n = count
        BY <1>2, <4>1
      <4> QED
        BY <1>1, <1>4, <2>1, <3>2, <4>2 DEF Lists
    <3> QED
      BY <3>1, <3>2
  <2> QED
    BY <1>2, <2>1 DEF Listed
<1>6. InOrder'
  BY <1>1, <1>2, <1>4 DEF InOrder, Lists
<1>7. AtRow'
  BY <1>2 DEF AtRow
<1> QED
  BY <1>3, <1>5, <1>6, <1>7

\* The row a statement is sent for is the one at the loop's position.
LEMMA SliceSaveRow ==
    ASSUME WorkInv, SaveRow
    PROVE  SliceInv'
<1> USE DEF WorkInv, SliceInv, keyVars, delVars
<1>1. /\ log \in Seq(Keys \X Kinds) /\ Len(log) \in Nat /\ pos \in Nat
      /\ <<row, Kind(row)>> \in Keys \X Kinds
  BY LenProperties
  DEF SliceTypes, SaveRow, AtRow, Inv, Types, Kind, Kinds
<1>2. /\ log' \in Seq(Keys \X Kinds) /\ Len(log') = Len(log) + 1
      /\ \A i \in 1 .. Len(log) : log'[i] = log[i]
      /\ log'[Len(log) + 1][1] = row
  BY <1>1, AppendProperties DEF SaveRow
<1>3. SliceTypes' /\ Listed' /\ AtRow'
  <2>1. /\ UNCHANGED <<saved, deleted, array, count, keys, total, shared, pos, row>>
        /\ UNCHANGED <<delKeys, tasks, smooth>>
        /\ pc = "prepare" /\ pc' = "saved" /\ Writing /\ Writing'
    BY DEF SaveRow, Writing
  <2>2. SliceTypes'
    BY <1>2, <2>1 DEF SliceTypes
  <2>3. Listed'
    BY <2>1 DEF Listed, Lists
  <2>4. AtRow'
    BY <2>1 DEF AtRow, KeyAt
  <2> QED
    BY <2>2, <2>3, <2>4
<1>4. InOrder'
  <2>1. /\ UNCHANGED <<saved, deleted, array, keys, total, shared, pos, smooth>>
        /\ pc = "prepare" /\ pc' = "saved" /\ Writing /\ Writing'
        /\ smooth => row = KeyAt(pos)
    BY DEF SaveRow, Writing, AtRow
  <2>2. smooth => Len(log) + 1 = pos
    BY <1>1, <2>1 DEF InOrder
  <2> QED
    BY <1>1, <1>2, <2>1, <2>2 DEF InOrder, KeyAt
<1> QED
  BY <1>3, <1>4

LEMMA SliceDeleteRow ==
    ASSUME WorkInv, DeleteRow
    PROVE  SliceInv'
<1> USE DEF WorkInv, SliceInv, resVars, keyVars, delVars
<1> DEFINE k == KeyAt(pos)
<1>1. /\ log \in Seq(Keys \X Kinds) /\ Len(log) \in Nat /\ pos \in Nat
      /\ total \in Nat /\ pos <= total /\ pos' = pos + 1
  BY LenProperties DEF SliceTypes, DeleteRow
<1>2. /\ UNCHANGED <<saved, array, count, deleted, delKeys, tasks, pc, keys, total,
                     shared, row, smooth>>
      /\ pc = "loop" /\ Writing /\ Writing'
  BY DEF DeleteRow, Writing
<1>3. CASE k \in deleted
  <2>1. <<k, "delete">> \in Keys \X Kinds /\ log' = Append(log, <<k, "delete">>)
    BY <1>3 DEF DeleteRow, Inv, Types, Kinds
  <2>2. /\ log' \in Seq(Keys \X Kinds) /\ Len(log') = Len(log) + 1
        /\ \A i \in 1 .. Len(log) : log'[i] = log[i]
        /\ log'[Len(log) + 1][1] = k
    BY <1>1, <2>1, AppendProperties
  <2>3. SliceTypes' /\ Listed' /\ AtRow'
    <3>1. SliceTypes'
      BY <1>1, <1>2, <2>2 DEF SliceTypes
    <3>2. Listed'
      BY <1>2 DEF Listed, Lists
    <3>3. AtRow'
      BY <1>1, <1>2 DEF AtRow
    <3> QED
      BY <3>1, <3>2, <3>3
  <2>4. smooth => Len(log) + 1 = pos
    BY <1>1, <1>2 DEF InOrder
  <2>5. smooth => \A i \in 1 .. Len(log') : log'[i][1] = KeyAt(i)
    BY <1>1, <1>2, <2>2, <2>4 DEF InOrder
  <2>6. smooth => Len(log') = IF pc' = "saved" THEN pos' ELSE pos' - 1
    BY <1>1, <1>2, <2>2, <2>4
  <2>7. InOrder'
    BY <1>2, <2>5, <2>6 DEF InOrder, KeyAt
  <2> QED
    BY <2>3, <2>7
<1>4. CASE k \notin deleted
  <2>1. ~smooth /\ log' = log
    BY <1>1, <1>2, <1>4 DEF DeleteRow, InOrder
  <2> QED
    BY <1>1, <1>2, <2>1 DEF SliceTypes, Listed, Lists, AtRow, InOrder
<1> QED
  BY <1>3, <1>4

LEMMA SliceRowFails ==
    ASSUME WorkInv, RowFails
    PROVE  SliceInv'
<1> USE DEF WorkInv, SliceInv, delVars
<1>1. /\ UNCHANGED <<saved, array, count, deleted, delKeys, tasks>>
      /\ smooth' = (smooth /\ (shared => deleted = {}))
      /\ pc' = "app" /\ ~shared' /\ keys' = <<>> /\ total' = 0 /\ pos' = 1
      /\ log' = <<>> /\ shared' \in BOOLEAN /\ ~Writing'
  BY DEF RowFails, KeepReservations, keyVars, LeaveWriteAll, Writing
<1>2. smooth' \in BOOLEAN /\ (smooth' <=> smooth /\ (shared => deleted = {}))
  BY <1>1
<1>3. <<>> \in Seq(Names) /\ <<>> \in Seq(Keys \X Kinds)
  BY EmptySeq
<1>4. SliceTypes'
  BY <1>1, <1>2, <1>3 DEF SliceTypes
<1>5. Listed'
  BY <1>1, <1>2 DEF Listed, Lists
<1> QED
  BY <1>1, <1>4, <1>5 DEF InOrder, AtRow

LEMMA SliceRowsAreDone ==
    ASSUME WorkInv, RowsAreDone
    PROVE  SliceInv'
<1>1. <<>> \in Seq(Names) /\ <<>> \in Seq(Keys \X Kinds) /\ <<>> \in Seq(Keys)
      /\ Len(<<>>) = 0
  BY EmptySeq
<1>2. /\ array' = <<>> /\ keys' = <<>> /\ delKeys' = <<>> /\ log' = <<>>
      /\ count' = 0 /\ total' = tasks /\ tasks' = tasks /\ pos' = 1
      /\ shared' = FALSE /\ smooth' = TRUE /\ pc' = "end"
      /\ saved' = {} /\ deleted' = {} /\ ~Writing'
  BY DEF RowsAreDone, Writing
<1>3. SliceTypes'
  <2>1. tasks \in Nat
    BY DEF WorkInv, SliceInv, SliceTypes
  <2>2. pos' \in 1 .. total' + 1 /\ total' \in Nat /\ tasks' \in Nat
    BY <1>2, <2>1
  <2>3. shared' \in BOOLEAN /\ smooth' \in BOOLEAN
    BY <1>2
  <2>4. count' \in Nat /\ count' <= Len(array')
    BY <1>1, <1>2
  <2> QED
    BY <1>1, <1>2, <2>2, <2>3, <2>4 DEF SliceTypes
<1>4. Listed' /\ InOrder' /\ AtRow'
  BY <1>1, <1>2 DEF Listed, Lists, InOrder, AtRow
<1> QED
  BY <1>3, <1>4 DEF SliceInv

\* Behind the rows nothing touches the slices.
LEMMA SliceEnd ==
    ASSUME WorkInv, EndFails \/ WriteAllReturns
    PROVE  SliceInv'
<1>1. <<>> \in Seq(Names) /\ <<>> \in Seq(Keys \X Kinds)
  BY EmptySeq
<1>2. /\ UNCHANGED <<saved, array, count, deleted, delKeys, tasks, smooth>>
      /\ pc = "end" /\ pc' = "app" /\ keys' = <<>> /\ total' = 0 /\ pos' = 1
      /\ log' = <<>> /\ ~shared' /\ shared' \in BOOLEAN /\ ~Writing /\ ~Writing'
  BY DEF EndFails, WriteAllReturns, LeaveWriteAll, Writing, resVars, keyVars, delVars
<1> QED
  BY <1>1, <1>2 DEF WorkInv, SliceInv, SliceTypes, Listed, Lists, InOrder, AtRow

\* Every step keeps the invariant.
LEMMA WorkInvStep == WorkInv /\ [Next]_vars => WorkInv'
<1> SUFFICES ASSUME WorkInv, [Next]_vars PROVE SliceInv'
  BY InvStep DEF WorkInv
<1>2. ASSUME NEW k \in Keys, NEW opt, SetSave(k, opt) PROVE SliceInv'
  BY <1>2, SliceSetSave
<1>3. ASSUME NEW k \in Keys, SetSaveSupportEmptyKey(k) PROVE SliceInv'
  BY <1>2, <1>3 DEF SetSaveSupportEmptyKey
<1>4. CASE AddWriteEndTask \/ WriteEndTask
  <2>1. /\ UNCHANGED <<saved, array, count, deleted, delKeys, pc, keys, total,
                       shared, row, log, smooth>>
        /\ ~Writing /\ ~Writing'
    BY <1>4 DEF AddWriteEndTask, WriteEndTask, Writing, Outside, resVars, keyVars,
                delVars, loopVars, syncVars
  <2>2. tasks' \in Nat /\ pos' \in 1 .. total' + 1
    BY <1>4 DEF AddWriteEndTask, WriteEndTask, loopVars, WorkInv, SliceInv, SliceTypes
  <2> QED
    BY <2>1, <2>2 DEF WorkInv, SliceInv, SliceTypes, Listed, Lists, InOrder, AtRow,
                      Writing
<1>5. CASE RowBegins \/ RowEnds
  <2>1. /\ UNCHANGED <<saved, array, count, deleted, delKeys, keys, total, shared,
                       tasks, log, smooth>>
        /\ pc \in {"loop", "saved"} /\ Writing /\ Writing'
    BY <1>5 DEF RowBegins, RowEnds, Writing, resVars, keyVars, delVars, syncVars
  <2>2. pc' \in {"loop", "prepare"} /\ pos' \in 1 .. total' + 1
    BY <1>5 DEF RowBegins, RowEnds, WorkInv, SliceInv, SliceTypes, AtRow
  <2>3. SliceTypes' /\ Listed'
    BY <2>1, <2>2 DEF WorkInv, SliceInv, SliceTypes, Listed, Lists
  <2>4. AtRow'
    BY <1>5, <2>1 DEF RowBegins, RowEnds, AtRow, KeyAt, WorkInv, SliceInv
  <2>5. (IF pc' = "saved" THEN pos' ELSE pos' - 1) = (IF pc = "saved" THEN pos ELSE pos - 1)
    BY <1>5 DEF RowBegins, RowEnds, WorkInv, SliceInv, SliceTypes
  <2>6. InOrder'
    BY <2>1, <2>5 DEF InOrder, KeyAt, WorkInv, SliceInv
  <2> QED
    BY <2>3, <2>4, <2>6 DEF SliceInv
<1>6. CASE UNCHANGED vars
  BY <1>6 DEF vars, WorkInv, SliceInv, SliceTypes, Listed, Lists, InOrder, AtRow,
              Writing, KeyAt, resVars, keyVars, delVars, loopVars, syncVars
<1> QED
  BY <1>2, <1>3, <1>4, <1>5, <1>6, SliceSetDelete, SliceSetForceDelete,
     SliceWriteAll, SliceSaveRow, SliceDeleteRow, SliceRowFails, SliceRowsAreDone,
     SliceEnd
  DEF Next

-----------------------------------------------------------------------------
(* The refinement                                                          *)

\* What is wanted with a row.
Wish(k) == IF k \in saved THEN "save"
           ELSE IF k \in deleted THEN "delete" ELSE "nothing"

\* The statement sent for a row leaves the list.
LEMMA AheadShrinks ==
    ASSUME WorkInv, smooth, pc \in {"loop", "prepare"}, pos <= total
    PROVE  /\ KeyAt(pos) \in Ahead
           /\ {KeyAt(i) : i \in pos + 1 .. total} = Ahead \ {KeyAt(pos)}
           /\ \A j \in Ahead \ {KeyAt(pos)} : Before(KeyAt(pos), j)
           /\ Ahead \subseteq Keys
<1>1. /\ pos \in Nat /\ total \in Nat /\ pos >= 1
      /\ Ahead = {KeyAt(i) : i \in pos .. total}
  BY DEF WorkInv, SliceInv, SliceTypes, Ahead
<1>2. /\ \A i \in 1 .. total : KeyAt(i) \in Keys
      /\ \A i, j \in 1 .. total : i < j => Before(KeyAt(i), KeyAt(j))
  BY DEF WorkInv, SliceInv, InOrder, Writing, Inv, Types
<1>3. \A i \in pos .. total : i \in 1 .. total
  BY <1>1
<1>4. \A i \in pos .. total : i # pos => i \in pos + 1 .. total /\ pos < i
  BY <1>1
<1>5. \A i \in pos + 1 .. total : i \in pos .. total /\ pos < i
  BY <1>1
<1>6. \A i \in pos + 1 .. total : KeyAt(i) # KeyAt(pos)
  <2> SUFFICES ASSUME NEW i \in pos + 1 .. total PROVE KeyAt(i) # KeyAt(pos)
    OBVIOUS
  <2>1. Before(KeyAt(pos), KeyAt(i)) /\ KeyAt(pos) \in Keys
    BY <1>1, <1>2, <1>3, <1>5
  <2>2. KeyAt(pos) \in Nat /\ Priority[KeyAt(pos)] \in Nat
    BY <2>1, ReservationAssumption
  <2> QED
    BY <2>1, <2>2 DEF Before
<1>7. pos \in pos .. total
  BY <1>1
<1> QED
  BY <1>1, <1>2, <1>3, <1>4, <1>5, <1>6, <1>7

\* The initial state is the abstract one.
LEMMA WorkInit == Init => Work!Init
BY DEF Init, Work!Init, Work!NothingWanted, Writing

\* Calls of the application and of tasks.
LEMMA WorkSetSave ==
    ASSUME WorkInv, NEW k \in Keys, NEW opt, SetSave(k, opt)
    PROVE  [Work!Next]_(Work!vars)
<1> USE DEF delVars
<1>1. /\ Writing' = Writing /\ log' = log /\ deleted' = deleted
      /\ smooth' = (smooth /\ ~Writing)
      /\ saved' = saved \/ (saved' = saved \cup {k} /\ k \notin saved /\ k \notin deleted)
  BY DEF SetSave, SetSaveNew, SetSaveAgain, MaySave, Outside, Writing, WorkInv, SliceInv,
         SliceTypes
<1>2. saved \subseteq Keys /\ smooth \in BOOLEAN
  BY DEF WorkInv, Inv, Types, SliceInv, SliceTypes
<1>3. CASE Writing
  <2>1. Work!Disturb
    BY <1>1, <1>2, <1>3 DEF Work!Disturb
  <2> QED
    BY <2>1 DEF Work!Next
<1>4. CASE ~Writing
  <2>1. smooth' = smooth
    BY <1>1, <1>2, <1>4
  <2>2. CASE saved' = saved
    BY <1>1, <1>4, <2>1, <2>2 DEF Work!vars
  <2>3. CASE saved' = saved \cup {k} /\ k \notin saved /\ k \notin deleted
    <3>1. Work!Want(k, "save")
      BY <1>1, <1>4, <2>1, <2>3 DEF Work!Want
    <3> QED
      BY <1>4, <3>1 DEF Work!Next
  <2> QED
    BY <1>1, <2>2, <2>3
<1> QED
  BY <1>3, <1>4

LEMMA WorkDelete ==
    ASSUME WorkInv, NEW k \in Keys, SetDelete(k) \/ SetForceDelete(k)
    PROVE  [Work!Next]_(Work!vars)
<1>1. /\ ~Writing /\ ~Writing' /\ log' = log /\ smooth' = smooth
      /\ k \notin deleted /\ deleted' = deleted \cup {k} /\ saved' = saved \ {k}
  BY DEF SetDelete, SetForceDelete, CancelSave, Outside, Writing, resVars, loopVars,
         syncVars, WorkInv, Inv, NeverSavedAndDeleted
<1>2. Work!Want(k, "delete")
  BY <1>1 DEF Work!Want
<1> QED
  BY <1>1, <1>2 DEF Work!Next

LEMMA WorkWriteAll ==
    ASSUME WorkInv, WriteAll
    PROVE  Work!Begin
<1>1. /\ UNCHANGED <<saved, deleted, log, smooth>>
      /\ pc' = "loop" /\ ~Writing /\ Writing' /\ pos' = 1
  BY DEF WriteAll, resVars, delVars, syncVars, Writing
<1>2. InOrder' /\ Inv'
  BY SliceWriteAll, InvStep DEF WorkInv, SliceInv, Next
<1>3. smooth => Ahead' = {k \in Keys : Wish(k) # "nothing"}
  <2>1. Ahead' = {KeyAt(i)' : i \in 1 .. total'}
    BY <1>1 DEF Ahead
  <2>2. smooth => {KeyAt(i)' : i \in 1 .. total'} = saved \cup deleted
    BY <1>1, <1>2 DEF InOrder
  <2>3. saved \cup deleted = {k \in Keys : Wish(k) # "nothing"}
    BY DEF Wish, WorkInv, Inv, Types
  <2> QED
    BY <2>1, <2>2, <2>3
<1> QED
  BY <1>1, <1>3 DEF Work!Begin, Wish

LEMMA WorkSaveRow ==
    ASSUME WorkInv, SaveRow
    PROVE  Work!Write(row)
<1>1. /\ UNCHANGED <<saved, deleted, smooth, array, keys, shared, total, pos>>
      /\ log' = Append(log, <<row, Kind(row)>>)
      /\ pc = "prepare" /\ pc' = "saved" /\ Writing /\ Writing'
      /\ row \in saved /\ pos <= total /\ (smooth => row = KeyAt(pos))
  BY DEF SaveRow, keyVars, delVars, Writing, WorkInv, SliceInv, AtRow
<1>2. Ahead' = {KeyAt(i) : i \in pos + 1 .. total}
  BY <1>1 DEF Ahead, KeyAt
<1>3. smooth => /\ Ahead' = Ahead \ {row} /\ row \in Ahead
                /\ \A j \in Ahead \ {row} : Before(row, j)
                /\ Ahead \subseteq Keys
  BY <1>1, <1>2, AheadShrinks
<1>4. smooth => Work!First(row, Ahead)
  BY <1>3 DEF Work!First
<1>5. row \in Keys /\ Kind(row) \in Work!Statements[Wish(row)]
  BY <1>1 DEF Wish, Work!Statements, Kind, WorkInv, Inv, Types
<1> QED
  BY <1>1, <1>3, <1>4, <1>5 DEF Work!Write, Wish

LEMMA WorkDeleteRow ==
    ASSUME WorkInv, DeleteRow
    PROVE  [Work!Next]_(Work!vars)
<1> DEFINE k == KeyAt(pos)
<1>1. /\ UNCHANGED <<saved, deleted, smooth, array, keys, shared, total>>
      /\ pc = "loop" /\ pc' = "loop" /\ Writing /\ Writing'
      /\ k \notin saved /\ pos <= total /\ pos' = pos + 1
      /\ log' = IF k \in deleted THEN Append(log, <<k, "delete">>) ELSE log
  BY DEF DeleteRow, resVars, keyVars, delVars, Writing
<1>2. Ahead' = {KeyAt(i) : i \in pos + 1 .. total}
  BY <1>1 DEF Ahead, KeyAt
<1>3. smooth => /\ Ahead' = Ahead \ {k} /\ k \in Ahead
                /\ \A j \in Ahead \ {k} : Before(k, j)
                /\ Ahead \subseteq Keys
  BY <1>1, <1>2, AheadShrinks
<1>4. CASE k \in deleted
  <2>1. k \in Keys /\ "delete" \in Work!Statements[Wish(k)]
    BY <1>1, <1>4 DEF Wish, Work!Statements, WorkInv, Inv, Types
  <2>2. smooth => Work!First(k, Ahead)
    BY <1>3 DEF Work!First
  <2> HIDE DEF k
  <2>3. Work!Write(k)
    BY <1>1, <1>3, <1>4, <2>1, <2>2 DEF Work!Write, Wish
  <2> QED
    BY <2>1, <2>3 DEF Work!Next
<1>5. CASE k \notin deleted
  <2>1. ~smooth
    BY <1>1, <1>5 DEF WorkInv, SliceInv, SliceTypes, InOrder
  <2> QED
    BY <1>1, <1>5, <2>1 DEF Work!vars
<1> QED
  BY <1>4, <1>5

LEMMA WorkRowFails ==
    ASSUME WorkInv, RowFails
    PROVE  Work!Abort
<1>1. /\ UNCHANGED <<saved, deleted>> /\ log' = <<>> /\ Writing /\ ~Writing'
      /\ smooth' = (smooth /\ (shared => deleted = {})) /\ smooth \in BOOLEAN
  BY DEF RowFails, KeepReservations, delVars, LeaveWriteAll, Writing, WorkInv, SliceInv,
         SliceTypes
<1>2. smooth' \in {smooth, FALSE}
  BY <1>1
<1> QED
  BY <1>1, <1>2 DEF Work!Abort

LEMMA WorkRowsAreDone ==
    ASSUME WorkInv, RowsAreDone
    PROVE  Work!Finish
<1>1. /\ saved' = {} /\ deleted' = {} /\ log' = <<>> /\ smooth' = TRUE
      /\ pc = "loop" /\ pos > total /\ Writing /\ ~Writing'
  BY DEF RowsAreDone, Writing
<1>2. Ahead = {}
  <2>1. \A i \in pos .. total : FALSE
    BY <1>1 DEF WorkInv, SliceInv, SliceTypes
  <2> QED
    BY <1>1, <2>1 DEF Ahead
<1> QED
  BY <1>1, <1>2 DEF Work!Finish, Work!NothingWanted

\* The loop's head and what follows the rows change nothing of the promise.
LEMMA WorkStutters ==
    ASSUME WorkInv,
           \/ AddWriteEndTask \/ RowBegins \/ RowEnds \/ WriteEndTask
           \/ EndFails \/ WriteAllReturns \/ UNCHANGED vars
    PROVE  UNCHANGED Work!vars
<1>1. CASE RowBegins \/ RowEnds
  <2>1. /\ UNCHANGED <<saved, deleted, smooth, array, keys, shared, total, log>>
        /\ Writing /\ Writing'
    BY <1>1 DEF RowBegins, RowEnds, Writing, resVars, keyVars, delVars, syncVars
  <2>2. (IF pc' = "saved" THEN pos' + 1 ELSE pos') = (IF pc = "saved" THEN pos + 1 ELSE pos)
    BY <1>1 DEF RowBegins, RowEnds
  <2>3. Ahead' = Ahead
    BY <2>1, <2>2 DEF Ahead, KeyAt
  <2> QED
    BY <2>1, <2>3 DEF Work!vars
<1>2. CASE AddWriteEndTask \/ WriteEndTask \/ EndFails \/ WriteAllReturns
  <2>1. UNCHANGED <<saved, deleted, smooth, log>> /\ ~Writing /\ ~Writing'
    BY <1>2 DEF AddWriteEndTask, WriteEndTask, EndFails, WriteAllReturns,
                LeaveWriteAll, Outside, Writing, resVars, delVars, loopVars, syncVars,
                WorkInv, SliceInv, AtRow
  <2> QED
    BY <2>1 DEF Work!vars
<1>3. CASE UNCHANGED vars
  <2>1. UNCHANGED <<saved, deleted, smooth, log, array, keys, shared, total, pos, pc>>
    BY <1>3 DEF vars, resVars, keyVars, delVars, loopVars, syncVars
  <2>2. Writing' = Writing /\ Ahead' = Ahead
    BY <2>1 DEF Writing, Ahead, KeyAt
  <2> QED
    BY <2>1, <2>2 DEF Work!vars
<1> QED
  BY <1>1, <1>2, <1>3

LEMMA WorkStep == WorkInv /\ [Next]_vars => [Work!Next]_(Work!vars)
<1> SUFFICES ASSUME WorkInv, [Next]_vars PROVE [Work!Next]_(Work!vars)
  OBVIOUS
<1>1. ASSUME NEW k \in Keys, NEW opt, SetSave(k, opt)
      PROVE  [Work!Next]_(Work!vars)
  BY <1>1, WorkSetSave
<1>2. ASSUME NEW k \in Keys, SetSaveSupportEmptyKey(k)
      PROVE  [Work!Next]_(Work!vars)
  BY <1>1, <1>2 DEF SetSaveSupportEmptyKey
<1>3. ASSUME NEW k \in Keys, SetDelete(k) \/ SetForceDelete(k)
      PROVE  [Work!Next]_(Work!vars)
  BY <1>3, WorkDelete
<1>4. CASE WriteAll
  BY <1>4, WorkWriteAll DEF Work!Next
<1>5. CASE SaveRow
  <2>1. row \in Keys
    BY <1>5 DEF SaveRow, WorkInv, SliceInv, AtRow, Inv, Types
  <2> QED
    BY <1>5, <2>1, WorkSaveRow DEF Work!Next
<1>6. CASE DeleteRow
  BY <1>6, WorkDeleteRow
<1>7. CASE RowFails
  BY <1>7, WorkRowFails DEF Work!Next
<1>8. CASE RowsAreDone
  BY <1>8, WorkRowsAreDone DEF Work!Next
<1>9. CASE \/ AddWriteEndTask \/ RowBegins \/ RowEnds \/ WriteEndTask
           \/ EndFails \/ WriteAllReturns \/ UNCHANGED vars
  BY <1>9, WorkStutters
<1> QED
  BY <1>1, <1>2, <1>3, <1>4, <1>5, <1>6, <1>7, <1>8, <1>9 DEF Next

-----------------------------------------------------------------------------
(* The theorems                                                            *)

LEMMA WorkInvHolds == Spec => []WorkInv
<1>1. Init => WorkInv
  BY InvInit, SliceInit DEF WorkInv
<1> QED
  BY <1>1, WorkInvStep, PTL DEF Spec

\* Maps, slices that share an array and a loop that may stop anywhere keep the
\* promise of the unit of work.
THEOREM ReservationImplementsUnitOfWork == Spec => UnitOfWorkSpec
<1> QED
  BY WorkInvHolds, WorkInit, WorkStep, PTL DEF Spec, UnitOfWorkSpec, Work!Spec

LEMMA WorkInvBatch == WorkInv => BatchIsComplete
<1> SUFFICES ASSUME WorkInv, smooth, pc = "loop" PROVE
      /\ \A i, j \in DOMAIN log : i # j => log[i][1] # log[j][1]
      /\ pos > total => Written = saved \cup deleted
  BY DEF BatchIsComplete
<1>1. /\ DOMAIN log = 1 .. Len(log) /\ Len(log) = pos - 1
      /\ pos \in 1 .. total + 1 /\ total \in Nat
      /\ \A i \in 1 .. Len(log) : log[i][1] = KeyAt(i)
      /\ \A i \in 1 .. total : KeyAt(i) \in saved \cup deleted
      /\ \A k \in saved \cup deleted : \E i \in 1 .. total : KeyAt(i) = k
      /\ \A i, j \in 1 .. total : i < j => Before(KeyAt(i), KeyAt(j))
  BY LenProperties DEF WorkInv, SliceInv, SliceTypes, InOrder, Writing
<1>2. \A i, j \in 1 .. total : i # j => KeyAt(i) # KeyAt(j)
  <2> SUFFICES ASSUME NEW i \in 1 .. total, NEW j \in 1 .. total, i # j,
                      KeyAt(i) = KeyAt(j)
               PROVE  FALSE
    OBVIOUS
  <2>1. Before(KeyAt(i), KeyAt(i))
    BY <1>1
  <2>2. KeyAt(i) \in Keys /\ KeyAt(i) \in Nat /\ Priority[KeyAt(i)] \in Nat
    BY <1>1, ReservationAssumption DEF WorkInv, Inv, Types
  <2> QED
    BY <2>1, <2>2 DEF Before
<1>3. \A i, j \in DOMAIN log : i # j => log[i][1] # log[j][1]
  BY <1>1, <1>2
<1>4. ASSUME pos > total PROVE Written = saved \cup deleted
  <2>1. DOMAIN log = 1 .. total
    BY <1>1, <1>4
  <2> QED
    BY <1>1, <2>1 DEF Written
<1> QED
  BY <1>3, <1>4

\* A smooth WriteAll empties the reservations only after it sent one statement
\* for every reserved row.
THEOREM BatchesAreComplete == Spec => []BatchIsComplete
BY WorkInvBatch, WorkInvHolds, PTL

\* Its statements follow one global order.
THEOREM BatchesAreOrdered == Spec => []BatchIsOrdered
<1>1. WorkInv => BatchIsOrdered
  <2> SUFFICES ASSUME WorkInv, smooth,
                      NEW i \in DOMAIN log, NEW j \in DOMAIN log, i < j
               PROVE  ~Before(log[j][1], log[i][1])
    BY DEF BatchIsOrdered
  <2>1. Writing
    BY DEF WorkInv, SliceInv, AtRow
  <2>2. /\ DOMAIN log = 1 .. Len(log) /\ Len(log) <= total /\ Len(log) \in Nat
        /\ \A h \in 1 .. Len(log) : log[h][1] = KeyAt(h)
        /\ total \in Nat
    BY <2>1, LenProperties DEF WorkInv, SliceInv, SliceTypes, InOrder, AtRow, Writing
  <2>3. /\ i \in 1 .. total /\ j \in 1 .. total
        /\ log[i][1] = KeyAt(i) /\ log[j][1] = KeyAt(j)
    BY <2>2
  <2>4. Before(KeyAt(i), KeyAt(j)) /\ KeyAt(i) \in Keys /\ KeyAt(j) \in Keys
    BY <2>1, <2>3 DEF WorkInv, SliceInv, InOrder, Inv, Types
  <2>5. KeyAt(i) # KeyAt(j)
    <3>1. KeyAt(i) \in Nat /\ Priority[KeyAt(i)] \in Nat
      BY <2>4, ReservationAssumption
    <3> QED
      BY <2>4, <3>1 DEF Before
  <2> QED
    BY <2>3, <2>4, <2>5, BeforeTotal
<1> QED
  BY <1>1, WorkInvHolds, PTL

-----------------------------------------------------------------------------
(* The rows no cache heard of, and the types                               *)

\* The rows of a forced INSERT are no news for the caches.
InsertsAreSettled ==
    \A i \in DOMAIN log : log[i][2] = "insert" => log[i][1] \notin unsynced

\* The loop stays inside its list; what is unsynced is still wanted.
Around ==
    /\ row \in Names /\ tasks <= MaxTasks /\ batch \subseteq Keys
    /\ pc # "end" => total <= Len(IF shared THEN array ELSE keys)
    /\ sound \in BOOLEAN /\ unsynced \subseteq Keys
    /\ IF sound THEN smooth ELSE unsynced = {}
    /\ InsertsAreSettled
    /\ UnsyncedRowsStayReserved

LEMMA AroundInit == Init => Around
BY EmptySeq, ReservationAssumption
DEF Init, Around, Names, InsertsAreSettled, UnsyncedRowsStayReserved

LEMMA AroundSetSave ==
    ASSUME WorkInv, Around, NEW k \in Keys, NEW opt, SetSave(k, opt)
    PROVE  Around'
<1>1. /\ UNCHANGED <<row, tasks, batch, total, pc, deleted, log>>
      /\ saved \subseteq saved' /\ smooth' \in BOOLEAN
      /\ sound' = (sound /\ smooth')
      /\ unsynced' = IF sound' THEN unsynced ELSE {}
  BY DEF SetSave, SetSaveNew, SetSaveAgain, delVars, Settle, WorkInv, SliceInv,
         SliceTypes
<1>2. sound' \in BOOLEAN /\ (sound' <=> sound /\ smooth')
  BY <1>1 DEF Around
<1>3. pc' # "end" => total' <= Len(IF shared' THEN array' ELSE keys')
  <2>1. CASE UNCHANGED <<array, keys, shared>>
    BY <1>1, <2>1 DEF Around
  <2>2. CASE \E i \in Nat : array' = [array EXCEPT ![i] = k] /\ UNCHANGED <<keys, shared>>
    <3>1. Len(array') = Len(array)
      BY <2>2 DEF WorkInv, SliceInv, SliceTypes
    <3> QED
      BY <1>1, <2>2, <3>1 DEF Around
  <2>3. CASE keys' = (IF shared THEN array ELSE keys) /\ shared' = FALSE
    BY <1>1, <2>3 DEF Around
  <2>4. CASE SetSaveNew(k, opt)
    <3>1. AppendKey(k) /\ count + 1 \in Nat
      BY <2>4 DEF SetSaveNew, WorkInv, SliceInv, SliceTypes
    <3> QED
      BY <2>2, <2>3, <3>1 DEF AppendKey
  <2>5. CASE SetSaveAgain(k, opt)
    BY <2>1, <2>5 DEF SetSaveAgain, keyVars
  <2> QED
    BY <2>4, <2>5 DEF SetSave
<1>4. UnsyncedRowsStayReserved' /\ InsertsAreSettled'
  BY <1>1 DEF Around, UnsyncedRowsStayReserved, InsertsAreSettled
<1> QED
  BY <1>1, <1>2, <1>3, <1>4 DEF Around

LEMMA AroundDelete ==
    ASSUME WorkInv, Around, NEW k \in Keys, SetDelete(k) \/ SetForceDelete(k)
    PROVE  Around'
<1>1. /\ UNCHANGED <<row, tasks, batch, total, pc, shared, keys, sound, smooth, unsynced,
                     log>>
      /\ saved' = saved \ {k} /\ deleted' = deleted \cup {k}
  BY DEF SetDelete, SetForceDelete, CancelSave, resVars, loopVars, syncVars
<1>2. Len(array') = Len(array)
  <2>1. CASE UNCHANGED array
    BY <2>1
  <2>2. CASE \E i \in 1 .. count : RemoveKey(i)
    <3>1. DOMAIN array' = 1 .. Len(array) /\ Len(array) \in Nat
      BY <2>2, LenProperties DEF RemoveKey, WorkInv, SliceInv, SliceTypes
    <3>2. array' \in Seq(Names)
      BY <2>2, RemovedKey DEF WorkInv, SliceInv
    <3> QED
      BY <3>1, <3>2, LenProperties
  <2> QED
    BY <2>1, <2>2 DEF SetDelete, SetForceDelete, CancelSave, keyVars
<1>3. UnsyncedRowsStayReserved' /\ InsertsAreSettled'
  BY <1>1 DEF Around, UnsyncedRowsStayReserved, InsertsAreSettled
<1> QED
  BY <1>1, <1>2, <1>3 DEF Around

LEMMA AroundWriteAll ==
    ASSUME WorkInv, Around, WriteAll
    PROVE  Around'
<1>1. /\ UNCHANGED <<row, tasks, sound, smooth, unsynced, saved, deleted, log>>
      /\ batch' = saved \cup deleted /\ pc = "app" /\ pc' = "loop"
  BY DEF WriteAll, resVars, delVars, syncVars
<1>2. total' <= Len(IF shared' THEN array' ELSE keys')
  <2> DEFINE all == SaveKeys \o delKeys
  <2>1. all \in Seq(Names) /\ Len(all) \in Nat
    BY AllKeys, LenProperties DEF WorkInv, SliceInv
  <2>2. PICK list \in Sorted(all) :
            IF Len(all) <= Len(array)
            THEN array' = list \o SubSeq(array, Len(all) + 1, Len(array))
            ELSE keys' = list
    BY DEF WriteAll
  <2>3. total' = Len(all) /\ shared' = (Len(all) <= Len(array))
    BY DEF WriteAll
  <2> HIDE DEF all
  <2>4. list \in Seq(Names) /\ Len(list) = Len(all)
    BY <2>1, <2>2, SortedTypes
  <2>5. CASE Len(all) <= Len(array)
    <3> DEFINE rest == SubSeq(array, Len(all) + 1, Len(array))
    <3>1. /\ array \in Seq(Names) /\ Len(array) \in Nat
          /\ \A i \in 1 .. Len(array) : array[i] \in Names
      BY LenProperties, ElementOfSeq DEF WorkInv, SliceInv, SliceTypes
    <3>2. \A i \in Len(all) + 1 .. Len(array) : array[i] \in Names
      BY <2>1, <3>1
    <3>3. rest \in Seq(Names)
      BY <2>1, <3>1, <3>2, SubSeqProperties
    <3>4. Len(rest) \in Nat
      BY <3>3, LenProperties
    <3>5. array' = list \o rest /\ shared'
      BY <2>2, <2>3, <2>5
    <3> HIDE DEF rest
    <3>6. Len(array') = Len(list) + Len(rest)
      BY <2>4, <3>3, <3>5, ConcatProperties
    <3> QED
      BY <2>1, <2>3, <2>4, <3>4, <3>5, <3>6
  <2>6. CASE ~(Len(all) <= Len(array))
    <3>1. keys' = list
      BY <2>2, <2>6
    <3>2. ~shared'
      BY <2>3, <2>6, Zenon
    <3> QED
      BY <2>1, <2>3, <2>4, <3>1, <3>2
  <2> QED
    BY <2>5, <2>6
<1>3. UnsyncedRowsStayReserved' /\ InsertsAreSettled'
  BY <1>1 DEF Around, UnsyncedRowsStayReserved, InsertsAreSettled
<1>4. batch' \subseteq Keys
  BY <1>1 DEF WorkInv, Inv, Types
<1> QED
  BY <1>1, <1>2, <1>3, <1>4 DEF Around

\* No row of the log comes again in a smooth loop.
LEMMA RowIsNew ==
    ASSUME WorkInv, smooth, pc \in {"loop", "prepare"}, pos <= total,
           NEW i \in DOMAIN log
    PROVE  log[i][1] # KeyAt(pos)
<1>1. /\ i \in 1 .. pos - 1 /\ pos \in 1 .. total /\ i \in 1 .. total /\ i < pos
      /\ log[i][1] = KeyAt(i)
  BY LenProperties DEF WorkInv, SliceInv, SliceTypes, InOrder, Writing
<1>2. Before(KeyAt(i), KeyAt(pos)) /\ KeyAt(pos) \in Keys
  BY <1>1 DEF WorkInv, SliceInv, InOrder, Writing, Inv, Types
<1>3. KeyAt(pos) \in Nat /\ Priority[KeyAt(pos)] \in Nat
  BY <1>2, ReservationAssumption
<1> QED
  BY <1>1, <1>2, <1>3 DEF Before

\* The statement of one more row.
LEMMA RowIsSettled ==
    ASSUME WorkInv, Around, pc \in {"loop", "prepare"}, pos <= total,
           NEW k \in saved \cup deleted, smooth => k = KeyAt(pos), NEW kind \in Kinds,
           log' = Append(log, <<k, kind>>), UNCHANGED <<smooth, saved, deleted>>,
           pc' # "end",
           Settle(IF kind = "insert" THEN unsynced \ {k} ELSE unsynced \cup {k})
    PROVE  /\ sound' \in BOOLEAN /\ unsynced' \subseteq Keys
           /\ IF sound' THEN smooth' ELSE unsynced' = {}
           /\ InsertsAreSettled' /\ UnsyncedRowsStayReserved'
<1>1. /\ log \in Seq(Keys \X Kinds) /\ k \in Keys /\ pc # "end"
      /\ saved \cup deleted \subseteq Keys
  BY DEF WorkInv, Inv, Types, SliceInv, SliceTypes
<1>2. /\ DOMAIN log' = DOMAIN log \cup {Len(log) + 1}
      /\ \A i \in DOMAIN log : log'[i] = log[i]
      /\ log'[Len(log) + 1] = <<k, kind>>
  BY <1>1, AppendProperties, LenProperties
<1>3. sound' \in BOOLEAN /\ (sound' <=> sound /\ smooth)
  BY DEF Settle, Around, WorkInv, SliceInv, SliceTypes
<1>4. unsynced' = IF sound'
                  THEN IF kind = "insert" THEN unsynced \ {k} ELSE unsynced \cup {k}
                  ELSE {}
  BY DEF Settle
<1>5. /\ unsynced' \subseteq unsynced \cup {k}
      /\ kind = "insert" => k \notin unsynced'
      /\ ~sound' => unsynced' = {}
  BY <1>4
<1>6. InsertsAreSettled'
  <2> SUFFICES ASSUME NEW i \in DOMAIN log', log'[i][2] = "insert"
               PROVE  log'[i][1] \notin unsynced'
    BY DEF InsertsAreSettled
  <2>1. CASE i = Len(log) + 1
    BY <1>2, <1>5, <2>1
  <2>2. CASE i \in DOMAIN log /\ sound'
    <3>1. log[i][1] # k
      BY <1>3, <2>2, RowIsNew
    <3> QED
      BY <1>2, <1>5, <2>2, <3>1 DEF Around, InsertsAreSettled
  <2>3. CASE ~sound'
    BY <1>5, <2>3
  <2> QED
    BY <1>2, <2>1, <2>2, <2>3
<1>7. UnsyncedRowsStayReserved'
  BY <1>1, <1>5 DEF Around, UnsyncedRowsStayReserved
<1> QED
  BY <1>1, <1>3, <1>5, <1>6, <1>7 DEF Around

\* Inside the loop: what is written is reserved.
LEMMA AroundLoop ==
    ASSUME WorkInv, Around,
           RowBegins \/ SaveRow \/ RowEnds \/ DeleteRow
    PROVE  Around'
<1>1. /\ UNCHANGED <<tasks, batch, total, shared, keys, array, smooth, saved, deleted>>
      /\ pc # "end" /\ pc' # "end"
  BY DEF RowBegins, SaveRow, RowEnds, DeleteRow, resVars, keyVars, delVars, syncVars
<1>2. row' \in Names
  BY DEF RowBegins, SaveRow, RowEnds, DeleteRow, Around, Names, WorkInv, Inv, Types
<1>3. CASE UNCHANGED <<sound, unsynced, log>>
  BY <1>1, <1>2, <1>3 DEF Around, UnsyncedRowsStayReserved, InsertsAreSettled
<1>4. CASE SaveRow
  <2>1. /\ row \in saved /\ pos <= total /\ (smooth => row = KeyAt(pos))
        /\ pc = "prepare" /\ log' = Append(log, <<row, Kind(row)>>)
        /\ Settle(IF Kind(row) = "insert" THEN unsynced \ {row} ELSE unsynced \cup {row})
    BY <1>4 DEF SaveRow, WorkInv, SliceInv, AtRow
  <2>2. Kind(row) \in Kinds
    BY DEF Kind, Kinds
  <2> QED
    BY <1>1, <1>2, <2>1, <2>2, RowIsSettled DEF Around
<1>5. CASE DeleteRow
  <2>1. CASE KeyAt(pos) \in deleted
    <3> DEFINE k == KeyAt(pos)
    <3>1. /\ pc = "loop" /\ pos <= total /\ log' = Append(log, <<k, "delete">>)
          /\ Settle(unsynced \cup {k}) /\ "delete" \in Kinds /\ "delete" # "insert"
      BY <1>5, <2>1 DEF DeleteRow, Kinds
    <3> HIDE DEF k
    <3>2. k \in saved \cup deleted /\ (smooth => k = KeyAt(pos))
      BY <2>1 DEF k
    <3> QED
      BY <1>1, <1>2, <3>1, <3>2, RowIsSettled DEF Around
  <2>2. CASE KeyAt(pos) \notin deleted
    <3>1. ~smooth
      BY <1>5, <2>2 DEF DeleteRow, WorkInv, SliceInv, SliceTypes, InOrder, Writing
    <3>2. log' = log /\ ~sound' /\ sound' \in BOOLEAN /\ unsynced' = {}
      BY <1>1, <1>5, <2>2, <3>1 DEF DeleteRow, Settle, Around
    <3> QED
      BY <1>1, <1>2, <3>2 DEF Around, UnsyncedRowsStayReserved, InsertsAreSettled
  <2> QED
    BY <2>1, <2>2
<1> QED
  BY <1>3, <1>4, <1>5 DEF RowBegins, RowEnds, syncVars

LEMMA AroundRowFails ==
    ASSUME WorkInv, Around, RowFails
    PROVE  Around'
<1>1. /\ UNCHANGED <<saved, deleted, tasks>> /\ pc # "end" /\ pc' = "app"
      /\ keys' = <<>> /\ ~shared' /\ total' = 0 /\ row' = NoKey /\ batch' = {}
      /\ smooth' \in BOOLEAN /\ Settle(unsynced) /\ log' = <<>>
  BY DEF RowFails, KeepReservations, delVars, LeaveWriteAll, WorkInv, SliceInv,
         SliceTypes
<1>2. sound' \in BOOLEAN /\ (sound' <=> sound /\ smooth')
  BY <1>1 DEF Settle, Around
<1>3. unsynced' = IF sound' THEN unsynced ELSE {}
  BY <1>1 DEF Settle
<1> QED
  BY <1>1, <1>2, <1>3, EmptySeq
  DEF Around, UnsyncedRowsStayReserved, InsertsAreSettled, Names

\* The reservations are dropped when all their rows were sent.
LEMMA AroundRowsAreDone ==
    ASSUME WorkInv, Around, RowsAreDone
    PROVE  Around'
<1>1. /\ UNCHANGED <<tasks, sound, unsynced, row>> /\ smooth' = TRUE
      /\ pc = "loop" /\ pos > total /\ pc' = "end" /\ batch' = Told /\ log' = <<>>
  BY DEF RowsAreDone
<1>2. Told \subseteq Keys
  <2>1. \A i \in DOMAIN log : log[i] \in Keys \X Kinds
    BY LenProperties, ElementOfSeq DEF WorkInv, SliceInv, SliceTypes
  <2> QED
    BY <2>1 DEF Told
<1>3. sound => saved \cup deleted \subseteq Written
  BY <1>1, WorkInvBatch DEF Around, BatchIsComplete
<1>4. unsynced \subseteq saved \cup deleted
  BY <1>1 DEF Around, UnsyncedRowsStayReserved
<1>5. sound => unsynced \subseteq Told
  BY <1>3, <1>4 DEF Around, InsertsAreSettled, Written, Told
<1>6. UnsyncedRowsStayReserved' /\ InsertsAreSettled'
  BY <1>1, <1>5 DEF Around, UnsyncedRowsStayReserved, InsertsAreSettled
<1> QED
  BY <1>1, <1>2, <1>6 DEF Around

LEMMA AroundEnd ==
    ASSUME WorkInv, Around,
           AddWriteEndTask \/ WriteEndTask \/ EndFails \/ WriteAllReturns
    PROVE  Around'
<1>1. CASE AddWriteEndTask \/ WriteEndTask
  <2>1. /\ UNCHANGED <<saved, deleted, array, keys, shared, total, row, batch, pc, sound,
                       smooth, unsynced, log>>
        /\ tasks' <= MaxTasks
    BY <1>1, ReservationAssumption
    DEF AddWriteEndTask, WriteEndTask, Outside, resVars, keyVars, delVars, loopVars,
        syncVars, Around, WorkInv, SliceInv, SliceTypes
  <2> QED
    BY <2>1 DEF Around, UnsyncedRowsStayReserved, InsertsAreSettled
<1>2. CASE EndFails
  <2>1. /\ UNCHANGED tasks /\ row' = NoKey /\ batch' = {} /\ keys' = <<>> /\ ~shared'
        /\ total' = 0 /\ ~sound' /\ sound' \in BOOLEAN /\ unsynced' = {}
        /\ log' = <<>>
    BY <1>2 DEF EndFails, LeaveWriteAll
  <2> QED
    BY <2>1, EmptySeq DEF Around, UnsyncedRowsStayReserved, InsertsAreSettled, Names
<1>3. CASE WriteAllReturns
  <2>1. /\ UNCHANGED <<tasks, saved, deleted, smooth>> /\ row' = NoKey /\ batch' = {}
        /\ keys' = <<>> /\ ~shared' /\ total' = 0 /\ pc = "end"
        /\ Settle(unsynced \ batch) /\ log' = <<>>
    BY <1>3 DEF WriteAllReturns, LeaveWriteAll, resVars, delVars
  <2>2. sound' \in BOOLEAN /\ (sound' <=> sound /\ smooth)
    BY <2>1 DEF Settle, Around, WorkInv, SliceInv, SliceTypes
  <2>3. unsynced' = IF sound' THEN unsynced \ batch ELSE {}
    BY <2>1 DEF Settle
  <2> QED
    BY <2>1, <2>2, <2>3, EmptySeq
    DEF Around, UnsyncedRowsStayReserved, InsertsAreSettled, Names
<1> QED
  BY <1>1, <1>2, <1>3

LEMMA AroundStep == WorkInv /\ Around /\ [Next]_vars => Around'
<1> SUFFICES ASSUME WorkInv, Around, [Next]_vars PROVE Around'
  OBVIOUS
<1>1. ASSUME NEW k \in Keys, NEW opt, SetSave(k, opt) PROVE Around'
  BY <1>1, AroundSetSave
<1>2. ASSUME NEW k \in Keys, SetSaveSupportEmptyKey(k) PROVE Around'
  BY <1>1, <1>2 DEF SetSaveSupportEmptyKey
<1>3. CASE UNCHANGED vars
  BY <1>3 DEF vars, resVars, keyVars, delVars, loopVars, syncVars, Around,
              UnsyncedRowsStayReserved, InsertsAreSettled
<1> QED
  BY <1>1, <1>2, <1>3, AroundDelete, AroundWriteAll, AroundLoop, AroundRowFails,
     AroundRowsAreDone, AroundEnd
  DEF Next

LEMMA AroundHolds == Spec => [](WorkInv /\ Around)
BY WorkInvHolds, AroundInit, AroundStep, PTL DEF Spec

\* No row that was written is forgotten before the caches heard of it.
THEOREM UnsyncedRowsAreKept == Spec => []UnsyncedRowsStayReserved
<1>1. Around => UnsyncedRowsStayReserved
  BY DEF Around
<1> QED
  BY <1>1, AroundHolds, PTL

\* The types, and the shape of the lists.
THEOREM ReservationTypes == Spec => []TypeOK
<1>1. WorkInv /\ Around => TypeOK
  <2> SUFFICES ASSUME WorkInv, Around PROVE TypeOK
    OBVIOUS
  <2> USE DEF WorkInv, SliceInv
  <2>1. /\ Len(delKeys) \in Nat /\ delKeys \in [1 .. Len(delKeys) -> Keys]
        /\ Lists(delKeys, Len(delKeys), deleted)
    BY LenProperties DEF SliceTypes, Listed
  <2>2. deleted = {delKeys[i] : i \in 1 .. Len(delKeys)}
    BY <2>1 DEF Lists
  <2>3. Len(delKeys) = Cardinality(deleted)
    <3>1. delKeys \in [1 .. Len(delKeys) -> deleted]
      BY <2>1 DEF Lists
    <3>2. delKeys \in Bijection(1 .. Len(delKeys), deleted)
      BY <2>1, <3>1, Fun_IsBij DEF Lists
    <3>3. ExistsBijection(1 .. Len(delKeys), deleted)
      BY <3>2, Fun_ExistsBij
    <3> QED
      BY <2>1, <3>3, FS_CountingElements
  <2>4. tasks \in 0 .. MaxTasks
    BY ReservationAssumption DEF SliceTypes, Around
  <2>5. count \in 0 .. Len(array)
    BY LenProperties DEF SliceTypes
  <2> QED
    BY <2>2, <2>3, <2>4, <2>5 DEF TypeOK, Inv, Types, SliceTypes, AtRow, Around
<1> QED
  BY <1>1, AroundHolds, PTL
=============================================================================
