----------------------------- MODULE MCSessions -----------------------------
(***************************************************************************)
(* Values for model-checking Sessions.                                     *)
(***************************************************************************)
EXTENDS Sessions, TLC

Symmetry == Permutations(Runs) \cup Permutations(Gcs)
=============================================================================
