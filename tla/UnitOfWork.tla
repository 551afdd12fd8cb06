----------------------------- MODULE UnitOfWork -----------------------------
(***************************************************************************)
(* What a ModelManager promises about the changes it collects               *)
(* (lib/db/manager/manager.go, the comment at the top: batch processing,    *)
(* saves in order of priority): a set of rows, each to be saved or deleted;  *)
(* WriteAll carries all of them out, one statement each, in one global       *)
(* order, and only then forgets them; a WriteAll that stops before keeps    *)
(* them all.                                                                *)
(*                                                                         *)
(* The promise holds while the unit of work is steady.  It is not any more  *)
(* when a task reserves a save inside WriteAll's loop or a batch with        *)
(* deletions fails after it was sorted in place; from then to the next      *)
(* clearing only the rows that are wanted are sent, in whatever order.       *)
(* Reservation implements this specification with Go's maps and slices.     *)
(***************************************************************************)
EXTENDS Integers, Sequences

CONSTANTS
    Keys,    \* the rows
    Order    \* pairs of rows: the first one is written before the second

VARIABLES
    wanted,  \* what the application wants done with each row
    phase,   \* "open", or "writing" inside WriteAll
    left,    \* the rows a steady WriteAll has still to write
    sent,    \* the statements of this WriteAll
    steady   \* FALSE once the promise is off, until the rows are cleared

vars == <<wanted, phase, left, sent, steady>>

NothingWanted == [k \in Keys |-> "nothing"]

\* The statements that carry out a wish.
Statements == [nothing |-> {}, delete |-> {"delete"},
               save |-> {"function", "insert", "update", "save"}]

Init ==
    /\ wanted = NothingWanted /\ phase = "open"
    /\ left = {} /\ sent = <<>> /\ steady = TRUE

\* A deletion can replace a save, never the other way round.
Want(k, wish) ==
    /\ wanted[k] = "nothing" \/ (wanted[k] = "save" /\ wish = "delete")
    /\ wanted' = [wanted EXCEPT ![k] = wish]
    /\ UNCHANGED <<phase, left, sent, steady>>

Begin ==
    /\ phase = "open" /\ phase' = "writing"
    /\ left' = IF steady THEN {k \in Keys : wanted[k] # "nothing"} ELSE {}
    /\ UNCHANGED <<wanted, sent, steady>>

First(k, rows) == k \in rows /\ \A j \in rows \ {k} : <<k, j>> \in Order

\* The next row in the global order, or, if not steady, any row wanted.
Write(k) ==
    /\ phase = "writing"
    /\ steady => First(k, left)
    /\ left' = left \ {k}
    /\ \E statement \in Statements[wanted[k]] :
          sent' = Append(sent, <<k, statement>>)
    /\ UNCHANGED <<wanted, phase, steady>>

\* A task reserves a save inside the loop.
Disturb ==
    /\ phase = "writing"
    /\ \/ UNCHANGED wanted
       \/ \E k \in Keys : /\ wanted[k] = "nothing"
                          /\ wanted' = [wanted EXCEPT ![k] = "save"]
    /\ steady' = FALSE /\ left' = {}
    /\ UNCHANGED <<phase, sent>>

\* A failed WriteAll keeps everything that is wanted.
Abort ==
    /\ phase = "writing" /\ phase' = "open"
    /\ steady' \in {steady, FALSE}
    /\ left' = {} /\ sent' = <<>>
    /\ UNCHANGED wanted

Finish ==
    /\ phase = "writing" /\ left = {} /\ phase' = "open"
    /\ wanted' = NothingWanted /\ sent' = <<>> /\ steady' = TRUE
    /\ UNCHANGED left

Next ==
    \/ \E k \in Keys : \/ phase = "open" /\ \E wish \in {"save", "delete"} : Want(k, wish)
                       \/ Write(k)
    \/ Begin \/ Disturb \/ Abort \/ Finish

Spec == Init /\ [][Next]_vars
=============================================================================
