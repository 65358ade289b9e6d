---------------------------- MODULE MCDBClient -----------------------------
(***************************************************************************)
(* Instances of DBClient for TLC.                                          *)
(***************************************************************************)
EXTENDS DBClient, TLC

(* Callers of the transaction methods, which no code of the repository is.  *)
Transfer == [calls |-> <<"begin", "insert", "update", "commit">>, keeps |-> FALSE]
Retreat == [calls |-> <<"begin", "update", "insert", "rollback">>, keeps |-> FALSE]
Touch == [calls |-> <<"updateAny", "insert">>, keeps |-> FALSE]

AllPlans == {CURD, OneConnect, Job, Transfer, Retreat, Touch}

Interchangeable == Permutations(Threads) \cup Permutations(Conns)
=============================================================================
