-------------------------- MODULE Reservation_proofs --------------------------
(***************************************************************************)
(* Two invariants of the unit of work, for every set of keys, priority map, *)
(* set of columns and choice of options, with failures and tasks: a row is  *)
(* never reserved for saving and for deletion, and no accepted column is    *)
(* forgotten.  The types of info and accepted are the only strengthening:   *)
(* the slices do not matter for either.                                     *)
(***************************************************************************)
EXTENDS Reservation, TLAPS

\* The part of TypeOK the arguments use.
Types ==
    /\ saved \subseteq Keys
    /\ info \in [Keys -> Infos]
    /\ accepted \in [Keys -> [columns : SUBSET Fields, ins : BOOLEAN]]
    /\ deleted \subseteq Keys

Inv == Types /\ NeverSavedAndDeleted /\ AcceptedColumnsAreWritten

\* Merging two lists of columns gives a list of columns.
LEMMA MergedIsList ==
    ASSUME NEW old \in SUBSET Fields, NEW opt \in SUBSET Fields
    PROVE  FieldsMerged(old, opt) \in SUBSET Fields
BY DEF FieldsMerged

\* The merged list stands for the columns of both lists: the empty list, which
\* stands for all of them, is never taken for no column.
LEMMA MergedKeepsBoth ==
    ASSUME NEW old \in SUBSET Fields, NEW opt \in SUBSET Fields
    PROVE  Columns(old) \cup Columns(opt) \subseteq Columns(FieldsMerged(old, opt))
BY DEF FieldsMerged, Columns

\* The reservations of an initial state are empty.
LEMMA InvInit == Init => Inv
BY DEF Init, Inv, Types, NeverSavedAndDeleted, AcceptedColumnsAreWritten,
       NoInfo, Nothing, Infos, Columns

\* A first SetSave: the key is not reserved for deletion.
LEMMA InvSetSaveNew ==
    ASSUME Inv, NEW k \in Keys, NEW opt \in Infos, SetSaveNew(k, opt),
           UNCHANGED delVars
    PROVE  Inv'
<1>1. /\ opt.fields \in SUBSET Fields
      /\ [columns |-> Columns(opt.fields), ins |-> opt.ins]
            \in [columns : SUBSET Fields, ins : BOOLEAN]
  BY DEF Infos, Columns
<1>2. Types'
  BY <1>1 DEF Inv, Types, SetSaveNew, delVars
<1>3. NeverSavedAndDeleted'
  BY DEF Inv, SetSaveNew, MaySave, NeverSavedAndDeleted, delVars
<1>4. AcceptedColumnsAreWritten'
  BY <1>1 DEF Inv, Types, SetSaveNew, AcceptedColumnsAreWritten
<1> QED
  BY <1>2, <1>3, <1>4 DEF Inv

\* A further SetSave: the columns are merged, or, if the call is refused, both
\* stay as they are.
LEMMA InvSetSaveAgain ==
    ASSUME Inv, NEW k \in Keys, NEW opt \in Infos, SetSaveAgain(k, opt),
           UNCHANGED delVars
    PROVE  Inv'
<1> DEFINE ins == info[k].ins \/ opt.ins
           upd == info[k].upd \/ opt.upd
           merged == FieldsMerged(info[k].fields, opt.fields)
<1>1. /\ info[k] \in Infos /\ opt.fields \in SUBSET Fields
      /\ info[k].fields \in SUBSET Fields
      /\ accepted[k] \in [columns : SUBSET Fields, ins : BOOLEAN]
  BY DEF Inv, Types, Infos
<1>2. /\ merged \in SUBSET Fields
      /\ Columns(info[k].fields) \cup Columns(opt.fields) \subseteq Columns(merged)
  BY <1>1, MergedIsList, MergedKeepsBoth
<1>3. /\ \A j \in Keys : j # k => info'[j] = info[j] /\ accepted'[j] = accepted[j]
      /\ saved' = saved
  BY DEF SetSaveAgain, Inv, Types
<1>4. CASE ins /\ upd
  <2>1. info'[k] \in Infos /\ info'[k].fields = info[k].fields
    BY <1>1, <1>4 DEF SetSaveAgain, Inv, Types, Infos
  <2>2. accepted'[k] = accepted[k]
    BY <1>4 DEF SetSaveAgain, Inv, Types
  <2> QED
    BY <1>1, <1>3, <1>4, <2>1, <2>2
    DEF SetSaveAgain, Inv, Types, NeverSavedAndDeleted, AcceptedColumnsAreWritten,
        delVars
<1>5. CASE ~(ins /\ upd)
  <2>1. info'[k] \in Infos /\ info'[k].fields = merged
    BY <1>1, <1>2, <1>5 DEF SetSaveAgain, Inv, Types, Infos
  <2>2. accepted'[k] = [columns |-> accepted[k].columns \cup Columns(opt.fields),
                        ins |-> accepted[k].ins \/ opt.ins]
    BY <1>5 DEF SetSaveAgain, Inv, Types
  <2>3. accepted'[k] \in [columns : SUBSET Fields, ins : BOOLEAN]
    BY <1>1, <2>2 DEF Infos, Columns
  <2>4. Types'
    BY <1>3, <2>1, <2>3 DEF SetSaveAgain, Inv, Types, delVars
  <2>5. AcceptedColumnsAreWritten'
    BY <1>1, <1>2, <1>3, <2>1, <2>2 DEF Inv, Types, AcceptedColumnsAreWritten
  <2> QED
    BY <1>3, <2>4, <2>5 DEF Inv, NeverSavedAndDeleted, delVars
<1> QED
  BY <1>4, <1>5

\* Naming the columns of a forced update changes no column: the empty list
\* already stood for all of them.
LEMMA InvNamedColumns ==
    ASSUME Inv, info' = NamedColumns, UNCHANGED <<saved, accepted, delVars>>
    PROVE  Inv'
<1>1. info' \in [Keys -> Infos]
  BY DEF Inv, Types, NamedColumns, Infos
<1>2. \A k \in Keys : Columns(info'[k].fields) = Columns(info[k].fields)
  BY DEF Inv, Types, NamedColumns, Infos, Columns
<1> QED
  BY <1>1, <1>2 DEF Inv, Types, NeverSavedAndDeleted, AcceptedColumnsAreWritten,
                    delVars

\* Every step keeps the invariant.
LEMMA InvStep == Inv /\ [Next]_vars => Inv'
<1> SUFFICES ASSUME Inv, [Next]_vars PROVE Inv'
  OBVIOUS
<1> USE DEF delVars, resVars, vars
<1>1. ASSUME NEW k \in Keys, NEW opt \in Infos, SetSave(k, opt) PROVE Inv'
  BY <1>1, InvSetSaveNew, InvSetSaveAgain DEF SetSave
<1>8. ASSUME NEW k \in Keys, NEW opt \in Options, SetSave(k, opt) PROVE Inv'
  BY <1>1, <1>8, ReservationAssumption DEF Infos
<1>9. ASSUME NEW k \in Keys, SetSaveSupportEmptyKey(k) PROVE Inv'
  <2>1. \A exists \in BOOLEAN : [NoInfo EXCEPT !.upd = exists] \in Infos
    BY DEF NoInfo, Infos
  <2> QED
    BY <1>1, <1>9, <2>1 DEF SetSaveSupportEmptyKey
<1>2. ASSUME NEW k \in Keys, SetDelete(k) PROVE Inv'
  BY <1>2 DEF SetDelete, Inv, Types, NeverSavedAndDeleted,
              AcceptedColumnsAreWritten
<1>3. ASSUME NEW k \in Keys, SetForceDelete(k) PROVE Inv'
  <2>1. /\ saved' = saved \ {k} /\ info' = [info EXCEPT ![k] = NoInfo]
        /\ accepted' = [accepted EXCEPT ![k] = Nothing]
        /\ deleted' = deleted \cup {k}
    BY <1>3 DEF SetForceDelete, CancelSave
  <2>2. NoInfo \in Infos /\ Nothing \in [columns : SUBSET Fields, ins : BOOLEAN]
    BY DEF NoInfo, Nothing, Infos
  <2> QED
    BY <2>1, <2>2 DEF Inv, Types, NeverSavedAndDeleted, AcceptedColumnsAreWritten
<1>4. CASE \/ AddWriteEndTask \/ WriteAll \/ RowBegins \/ RowEnds \/ DeleteRow
           \/ WriteEndTask \/ EndFails \/ WriteAllReturns \/ UNCHANGED vars
  BY <1>4 DEF AddWriteEndTask, WriteAll, RowBegins, RowEnds, DeleteRow,
              WriteEndTask, EndFails, WriteAllReturns, Inv, Types,
              NeverSavedAndDeleted, AcceptedColumnsAreWritten
<1>5. CASE SaveRow
  BY <1>5, InvNamedColumns DEF SaveRow
<1>6. CASE RowFails
  BY <1>6, InvNamedColumns DEF RowFails, KeepReservations, Inv, Types, NeverSavedAndDeleted,
                               AcceptedColumnsAreWritten
<1>7. CASE RowsAreDone
  BY <1>7 DEF RowsAreDone, Inv, Types, NeverSavedAndDeleted,
              AcceptedColumnsAreWritten, NoInfo, Nothing, Infos
<1> QED
  BY <1>2, <1>3, <1>4, <1>5, <1>6, <1>7, <1>8, <1>9 DEF Next

\* No row is ever reserved for saving and for deletion at once, so WriteAll,
\* which looks for a save first, never drops a deletion for that reason.
THEOREM NeverBothReserved == Spec => []NeverSavedAndDeleted
<1>1. Inv => NeverSavedAndDeleted
  BY DEF Inv
<1> QED
  BY InvInit, InvStep, <1>1, PTL DEF Spec

\* The statement WriteAll builds for a row writes every column an accepted
\* SetSave asked for, however partial and complete saves were mixed.
THEOREM ColumnsAreKept == Spec => []AcceptedColumnsAreWritten
<1>1. Inv => AcceptedColumnsAreWritten
  BY DEF Inv
<1> QED
  BY InvInit, InvStep, <1>1, PTL DEF Spec

=============================================================================
