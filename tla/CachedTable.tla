----------------------------- MODULE CachedTable -----------------------------
(***************************************************************************)
(* What a table of MySQL behind Redis promises when its requests keep to    *)
(* one of two disciplines (lib/db/manager/manager.go: getModels,            *)
(* SaveModelsToCache, WriteAll, WriteEnd): one writer per row, readers that  *)
(* cache a row as committed and never over an image under way, and a COMMIT  *)
(* that finds every row it installs cached as written or not at all.        *)
(*                                                                         *)
(* Nothing is said of requests, snapshots, locks or the order of commands:   *)
(* ModelCache has them, and implements this specification.                  *)
(***************************************************************************)

CONSTANTS
    Keys,    \* the primary keys
    Row,     \* the images of a row
    Absent,  \* the image of a missing row, and what Redis has of it
    None     \* no image

VARIABLES
    row,     \* MySQL: the committed image of each row
    entry,   \* Redis: the cached image of each row
    pending  \* the image the row's writer has not committed yet, or None

vars == <<row, entry, pending>>

Init ==
    /\ row \in [Keys -> Row]
    /\ entry = [k \in Keys |-> Absent]
    /\ pending = [k \in Keys |-> None]

\* A transaction writes a row that no other is writing.
Write(k, image) ==
    /\ pending[k] = None
    /\ pending' = [pending EXCEPT ![k] = image]
    /\ UNCHANGED <<row, entry>>

\* A reader caches the committed row: into an empty entry, or under the lock.
Fill(k) ==
    /\ entry[k] = Absent \/ pending[k] = None
    /\ entry' = [entry EXCEPT ![k] = row[k]]
    /\ UNCHANGED <<row, pending>>

\* The writer caches its row before it commits.
Publish(k) ==
    /\ pending[k] # None
    /\ entry' = [entry EXCEPT ![k] = pending[k]]
    /\ UNCHANGED <<row, pending>>

\* Entries are deleted, or expire.
Evict(rows) ==
    /\ entry' = [k \in Keys |-> IF k \in rows THEN Absent ELSE entry[k]]
    /\ UNCHANGED <<row, pending>>

\* A transaction ends for all the rows it wrote: with COMMIT when none of them
\* is cached as it was before, with ROLLBACK when none is cached as written.
Commit(rows) ==
    /\ \A k \in rows : pending[k] # None /\ entry[k] \in {Absent, pending[k]}
    /\ row' = [k \in Keys |-> IF k \in rows THEN pending[k] ELSE row[k]]
    /\ pending' = [k \in Keys |-> IF k \in rows THEN None ELSE pending[k]]
    /\ UNCHANGED entry

Rollback(rows) ==
    /\ \A k \in rows : pending[k] # None /\ entry[k] \in {Absent, row[k]}
    /\ pending' = [k \in Keys |-> IF k \in rows THEN None ELSE pending[k]]
    /\ UNCHANGED <<row, entry>>

Next ==
    \/ \E k \in Keys : \/ \E image \in Row : Write(k, image)
                       \/ Fill(k) \/ Publish(k)
    \/ \E rows \in SUBSET Keys : Evict(rows) \/ Commit(rows) \/ Rollback(rows)

Spec == Init /\ [][Next]_vars
=============================================================================
