----------------------------- MODULE MCReactor ------------------------------
(***************************************************************************)
(* Instances of Reactor for TLC: two descriptors, so that events interact  *)
(* and a descriptor is used again by a later client, and two workers.      *)
(***************************************************************************)
EXTENDS Reactor
=============================================================================
