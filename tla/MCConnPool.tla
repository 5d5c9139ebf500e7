----------------------------- MODULE MCConnPool -----------------------------
(***************************************************************************)
(* Instances of ConnPool for TLC.  The passing run mixes the callers there *)
(* are: one that passes a timeout and one that does not, both of which     *)
(* give a NULL back as test_dbpool.cpp does, and two behind the manager.   *)
(***************************************************************************)
EXTENDS ConnPool
=============================================================================
