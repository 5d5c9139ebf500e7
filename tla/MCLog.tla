------------------------------- MODULE MCLog -------------------------------
(***************************************************************************)
(* A small instance of Log for TLC.  There are lines enough for a file to  *)
(* outgrow its length if it were not changed, and the ring wraps.         *)
(***************************************************************************)
EXTENDS Log
=============================================================================
