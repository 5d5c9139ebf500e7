---------------------------- MODULE MCCloudFiles ----------------------------
(***************************************************************************)
(* Instances of CloudFiles for TLC.  Users are interchangeable.            *)
(***************************************************************************)
EXTENDS CloudFiles, TLC

UserSymmetry == Permutations(User)
=============================================================================
