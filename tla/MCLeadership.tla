---------------------------- MODULE MCLeadership ----------------------------
(***************************************************************************)
(* Small instances of Leadership, with interchangeable replicas.           *)
(***************************************************************************)
EXTENDS Leadership, TLC

ReplicaSymmetry == Permutations(Replicas)
=============================================================================
