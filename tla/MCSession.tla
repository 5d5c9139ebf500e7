----------------------------- MODULE MCSession -----------------------------
(***************************************************************************)
(* Instances of Session for TLC.  Workers, names, nick names, passwords    *)
(* and connections are interchangeable among themselves.                   *)
(***************************************************************************)
EXTENDS Session, TLC

Symmetric == Permutations(Worker) \cup Permutations(Name) \cup Permutations(Nick)
               \cup Permutations(Pwd) \cup Permutations(Conn)
=============================================================================
