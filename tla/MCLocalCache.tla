---------------------------- MODULE MCLocalCache ----------------------------
(* Constants of the small instances of LocalCache. *)
EXTENDS LocalCache, TLC

CONSTANTS p1, p2, p3

\* config/redis.go gives "Db"; the code asks for "DB".
AsConfigured == [n \in {"cache", "local"} |->
                    [given |-> {"Db"}, Db |-> IF n = "cache" THEN 1 ELSE 3]]

\* Settings whose databases are told apart.
Separate == [n \in {"cache", "local"} |->
                [given |-> {"DB", "Db"}, Db |-> IF n = "cache" THEN 1 ELSE 3]]

Symmetry == Permutations(Procs)
=============================================================================
