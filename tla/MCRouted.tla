------------------------------ MODULE MCRouted ------------------------------
(***************************************************************************)
(* The graph of MCReconciler, with what its router has been given.         *)
(***************************************************************************)
EXTENDS MCReconciler, GMCRouted
=============================================================================
