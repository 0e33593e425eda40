---------------------------- MODULE MCReconciler ----------------------------
(***************************************************************************)
(* Small instances of Reconciler: the second spec of the resource is the   *)
(* invalid one, and an edit mends it.                                      *)
(***************************************************************************)
EXTENDS Reconciler

MCValidSpecs == (1..MaxGeneration) \ {2}
=============================================================================
