---------------------------- MODULE SynthPromise -----------------------------
(***************************************************************************)
(* What the auto-synthesis of one fingerprint promises, said without the   *)
(* lock file that keeps it (crates/nid-cli/src/cmd/run.rs, module          *)
(* SynthLock): at most one process at a time works on the fingerprint, and *)
(* it begins only while there is no profile.  What other commands do to    *)
(* the profile the promise leaves open.  Once it is void anything may      *)
(* happen.                                                                 *)
(***************************************************************************)
CONSTANT Procs

VARIABLES
  learners,  \* the processes at work on a profile of the fingerprint
  learned,   \* the fingerprint has an active profile
  voided     \* the promise does not bind any more

vars == <<learners, learned, voided>>

Init ==
  /\ learners = {}
  /\ learned = FALSE
  /\ voided = FALSE

Begin(p) ==
  /\ learners = {}
  /\ ~learned
  /\ learners' = {p}
  /\ UNCHANGED <<learned, voided>>

\* With a profile, or without.
Leave(p) ==
  /\ p \in learners
  /\ learners' = learners \ {p}
  /\ learned' \in {learned, TRUE}
  /\ UNCHANGED voided

Elsewhere ==
  /\ learned' = ~learned
  /\ UNCHANGED <<learners, voided>>

Void ==
  /\ voided' = TRUE
  /\ UNCHANGED <<learners, learned>>

Unbound ==
  /\ voided /\ voided'
  /\ learners' \in SUBSET Procs
  /\ learned' \in BOOLEAN

Next ==
  \/ \E p \in Procs : Begin(p) \/ Leave(p)
  \/ Elsewhere
  \/ Void
  \/ Unbound

Spec == Init /\ [][Next]_vars
=============================================================================
