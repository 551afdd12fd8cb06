---------------------------- MODULE MCMasterList ----------------------------
(* Constants of the small instance of MasterList: keys of two columns whose  *)
(* values print as 1 and 11, so that two keys differ in their columns only. *)
EXTENDS MasterList, TLC

CONSTANTS r1

One == <<"1">>
Eleven == <<"1", "1">>

TwoTexts == {One, Eleven}
ThreeRows == {<<One, One>>, <<One, Eleven>>, <<Eleven, One>>}
SomeQuestions == {{<<One>>}, {<<One, Eleven>>}, {<<One>>, <<Eleven, One>>},
                  {<<One>>, <<One, Eleven>>}}
=============================================================================
