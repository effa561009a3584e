----------------------------- MODULE MCProfiles -----------------------------
(***************************************************************************)
(* Values for model-checking Profiles.                                     *)
(***************************************************************************)
EXTENDS Profiles, TLC

\* Two fingerprints with purges run apart from other commands; one with
\* everything overlapping.
ApartAndFree ==
  {[purgeAlone |-> TRUE, fps |-> Fps]}
    \cup {[purgeAlone |-> FALSE, fps |-> {f}] : f \in Fps}

Symmetry == Permutations(Procs) \cup Permutations(Fps)
=============================================================================
