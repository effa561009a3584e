----------------------------- MODULE MCBlobStore -----------------------------
(***************************************************************************)
(* Values for model-checking BlobStore.                                    *)
(***************************************************************************)
EXTENDS BlobStore, TLC

\* Puts alone; puts beside puts only; everything beside everything.
PutsAloneOverlap == {"release", "gc"} \X {"release", "gc"}
PutsApartOverlap == PutsAloneOverlap \cup {<<"put", "put">>}
AnyOverlap       == Ops \X Ops

EveryDiscipline == {PutsAloneOverlap, PutsApartOverlap, AnyOverlap}
NoDiscipline    == {AnyOverlap}
=============================================================================
