------------------------------ MODULE MCHandler ------------------------------
(* Constants of the small instance of Handler. *)
EXTENDS Handler

CONSTANTS s1, s2, s3

\* Every request of a careful application ends.  The specification treats all
\* slots alike, so one stands for the others.
EveryRequestEnds == RequestEnds(s1)
=============================================================================
