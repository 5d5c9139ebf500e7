---------------------------- MODULE MCThreadPool ----------------------------
(***************************************************************************)
(* Small instances of ThreadPool for TLC: the threads are model values,    *)
(* the ring is shorter than the number of calls of push(), so that it      *)
(* wraps and fills.                                                        *)
(***************************************************************************)
EXTENDS ThreadPool
=============================================================================
