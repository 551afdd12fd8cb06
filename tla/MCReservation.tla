---------------------------- MODULE MCReservation ----------------------------
(* Constants of the small instances of Reservation. *)
EXTENDS Reservation

TwoColumns == {"name", "level"}

\* Key 2 lies in a table of higher priority than the others.
SomePriority == [k \in Keys |-> IF k = 2 THEN 1 ELSE 0]

Option(fields, ins, upd, fn) ==
    [fields |-> fields, ins |-> ins, upd |-> upd, fn |-> fn]

AllOptions ==
    {Option({}, FALSE, FALSE, FALSE), Option({"name"}, FALSE, FALSE, FALSE),
     Option({"level"}, FALSE, FALSE, FALSE), Option({}, TRUE, FALSE, FALSE),
     Option({}, FALSE, TRUE, FALSE), Option({}, FALSE, FALSE, TRUE)}

PlainSave == {Option({}, FALSE, FALSE, FALSE)}
=============================================================================
