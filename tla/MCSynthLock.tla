----------------------------- MODULE MCSynthLock -----------------------------
(***************************************************************************)
(* Values for model-checking SynthLock.                                    *)
(***************************************************************************)
EXTENDS SynthLock, TLC

Symmetry == Permutations(Procs)
=============================================================================
