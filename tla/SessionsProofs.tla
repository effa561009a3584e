--------------------------- MODULE SessionsProofs ---------------------------
(***************************************************************************)
(* Theorems about Sessions, for any number of runs and of `nid gc`, any    *)
(* weights, warm-up and threshold.                                         *)
(*                                                                         *)
(* Two facts carry the proofs.  A run records its events before it has a   *)
(* session row, so the foreign key leaves the events of sessions empty.    *)
(* And the outputs of a run are handed from the run to its row by one      *)
(* UPDATE, and from the row to one sweep by one transaction, so that at no *)
(* time two of them answer for the same references.                        *)
(***************************************************************************)
EXTENDS Sessions, FiniteSetTheorems, TLAPS

BeforeRow == {"idle", "record", "judge", "create"}

\* There is no session row until the step that inserts it.
NoRowYet == \A r \in Runs : pc[r] \in BeforeRow => row[r] = "none"

\* No event names a session.
NoSessionEvents == events = {}

\* A run that is under way holds its outputs, and so does a finalized row; a
\* run that has not begun is in no sweep.
RunHolds == \A r \in Runs :
  pc[r] \in RunSteps => /\ refs[r] = 1
                        /\ row[r] # "final"
                        /\ \A p \in Procs : r \notin todo[p]
RowHolds == \A r \in Runs :
  row[r] = "final" => refs[r] = 1 /\ \A p \in Procs : r \notin todo[p]
NotBegun == \A r \in Runs : pc[r] = "idle" => \A p \in Procs : r \notin todo[p]

\* What a sweep has still to release is held, and in no other sweep.
SweepHolds == \A p \in Procs : \A r \in todo[p] :
  /\ pc[p] = "release"
  /\ refs[r] = 1
  /\ \A q \in Procs : r \in todo[q] => p = q

IInv ==
  /\ TypeOK
  /\ NoRowYet
  /\ NoSessionEvents
  /\ RunHolds
  /\ RowHolds
  /\ NotBegun
  /\ SweepHolds

-----------------------------------------------------------------------------
LEMMA TypeInit == Init => TypeOK
  BY DEF Init, TypeOK

LEMMA TypeStep == TypeOK /\ [Next]_vars => TypeOK'
<1> SUFFICES ASSUME TypeOK, [Next]_vars PROVE TypeOK'
  OBVIOUS
<1>. USE ProcsAssumption, SumsAssumption
<1>. USE DEF TypeOK, Procs, Busy, RunSteps, SweepSteps, Goto, Leave, tables, sweeps
<1>1. ASSUME NEW r \in Runs, Start(r) PROVE TypeOK'
  BY <1>1 DEF Start, Capped
<1>2. ASSUME NEW r \in Runs, Record(r) PROVE TypeOK'
  BY <1>2 DEF Record
<1>3. ASSUME NEW r \in Runs, Judge(r) PROVE TypeOK'
  BY <1>3 DEF Judge
<1>4. ASSUME NEW r \in Runs, Create(r) PROVE TypeOK'
  BY <1>4 DEF Create
<1>5. ASSUME NEW r \in Runs, Finalize(r) PROVE TypeOK'
  BY <1>5 DEF Finalize
<1>6. ASSUME NEW r \in Runs, SkipSweep(r) PROVE TypeOK'
  BY <1>6 DEF SkipSweep
<1>7. ASSUME NEW r \in Runs, Expire(r) PROVE TypeOK'
  BY <1>7 DEF Expire
<1>8. ASSUME NEW g \in Gcs, BeginGc(g) PROVE TypeOK'
  BY <1>8 DEF BeginGc
<1>9. ASSUME NEW p \in Procs, Sweep(p) PROVE TypeOK'
  BY <1>9 DEF Sweep, Purged, Present
<1>10. ASSUME NEW p \in Procs, Release(p) PROVE TypeOK'
  BY <1>10 DEF Release
<1>11. ASSUME NEW p \in Procs, EndSweep(p) PROVE TypeOK'
  BY <1>11 DEF EndSweep
<1>12. ASSUME NEW p \in Procs, Abort(p) PROVE TypeOK'
  BY <1>12 DEF Abort
<1>13. CASE UNCHANGED vars
  BY <1>13 DEF vars
<1>14. QED
  BY <1>1, <1>2, <1>3, <1>4, <1>5, <1>6, <1>7, <1>8, <1>9, <1>10, <1>11, <1>12, <1>13
     DEF Next

\* Every variable keeps its type; in particular no reference count of a run's
\* outputs leaves 0 .. 1 and no weight exceeds 1.0.
THEOREM TypeCorrect == Spec => []TypeOK
  BY TypeInit, TypeStep, PTL DEF Spec

-----------------------------------------------------------------------------
LEMMA InitInv == Init => IInv
<1> SUFFICES ASSUME Init PROVE IInv
  OBVIOUS
<1>1. TypeOK
  BY TypeInit
<1>2. NoRowYet /\ NoSessionEvents /\ RunHolds /\ RowHolds /\ NotBegun /\ SweepHolds
  BY DEF Init, NoRowYet, NoSessionEvents, RunHolds, RowHolds, NotBegun, SweepHolds,
         RunSteps, Procs
<1>3. QED
  BY <1>1, <1>2 DEF IInv

LEMMA StepInv == IInv /\ [Next]_vars => IInv'
<1> SUFFICES ASSUME IInv, [Next]_vars PROVE IInv'
  OBVIOUS
<1>. USE ProcsAssumption
<1>. USE DEF IInv, Procs, Goto, Leave, tables, sweeps, RunSteps, SweepSteps, Busy, BeforeRow,
             NoRowYet, NoSessionEvents, RunHolds, RowHolds, NotBegun, SweepHolds
<1>0. TypeOK'
  BY TypeStep
<1>1. ASSUME NEW r \in Runs, Start(r) PROVE IInv'
  BY <1>0, <1>1 DEF Start, TypeOK
<1>2. ASSUME NEW r \in Runs, Record(r) PROVE IInv'
  BY <1>0, <1>2 DEF Record, TypeOK
<1>3. ASSUME NEW r \in Runs, Judge(r) PROVE IInv'
  BY <1>0, <1>3 DEF Judge, TypeOK
<1>4. ASSUME NEW r \in Runs, Create(r) PROVE IInv'
  BY <1>0, <1>4 DEF Create, TypeOK
<1>5. ASSUME NEW r \in Runs, Finalize(r) PROVE IInv'
  BY <1>0, <1>5 DEF Finalize, TypeOK
<1>6. ASSUME NEW r \in Runs, SkipSweep(r) PROVE IInv'
  BY <1>0, <1>6 DEF SkipSweep, TypeOK
<1>7. ASSUME NEW r \in Runs, Expire(r) PROVE IInv'
  BY <1>0, <1>7 DEF Expire, TypeOK
<1>8. ASSUME NEW g \in Gcs, BeginGc(g) PROVE IInv'
  BY <1>0, <1>8 DEF BeginGc, TypeOK
<1>9. ASSUME NEW p \in Procs, Sweep(p) PROVE IInv'
  BY <1>0, <1>9 DEF Sweep, TypeOK
<1>10. ASSUME NEW p \in Procs, Release(p) PROVE IInv'
  BY <1>0, <1>10 DEF Release, TypeOK
<1>11. ASSUME NEW p \in Procs, EndSweep(p) PROVE IInv'
  BY <1>0, <1>11 DEF EndSweep, TypeOK
<1>12. ASSUME NEW p \in Procs, Abort(p) PROVE IInv'
  BY <1>0, <1>12 DEF Abort, TypeOK
<1>13. CASE UNCHANGED vars
  BY <1>0, <1>13 DEF vars, TypeOK
<1>14. QED
  BY <1>1, <1>2, <1>3, <1>4, <1>5, <1>6, <1>7, <1>8, <1>9, <1>10, <1>11, <1>12, <1>13
     DEF Next

LEMMA Invariance == Spec => []IInv
  BY InitInv, StepInv, PTL DEF Spec

-----------------------------------------------------------------------------
\* The references of a run's outputs have one owner at a time, whatever sweeps
\* overlap and whoever is killed: no sweep releases what another one released.
THEOREM OneOwnerHolds == Spec => []OneOwner
<1>1. IInv => OneOwner
  <2> SUFFICES ASSUME IInv, NEW r \in Runs
              PROVE  /\ \A p, q \in Owners(r) : p = q
                     /\ Owners(r) # {} => refs[r] = 1
    BY DEF OneOwner
  <2>1. CASE row[r] = "final" \/ pc[r] \in RunSteps
    <3>1. \A p \in Procs : r \notin todo[p]
      BY <2>1 DEF IInv, RunHolds, RowHolds
    <3>2. Owners(r) \subseteq {r}
      BY <3>1 DEF Owners
    <3>3. refs[r] = 1
      BY <2>1 DEF IInv, RunHolds, RowHolds
    <3>4. QED
      BY <3>2, <3>3
  <2>2. CASE ~ (row[r] = "final" \/ pc[r] \in RunSteps)
    <3>1. \A p \in Owners(r) : p \in Procs /\ r \in todo[p]
      BY <2>2 DEF Owners
    <3>2. QED
      BY <3>1 DEF IInv, SweepHolds
  <2>3. QED
    BY <2>1, <2>2
<1>2. QED
  BY <1>1, Invariance, PTL

\* No retention sweep is undone by the foreign key of fidelity_events.
THEOREM RetentionNeverBlockedHolds == Spec => []RetentionNeverBlocked
<1>1. IInv => RetentionNeverBlocked
  BY DEF IInv, NoSessionEvents, RetentionNeverBlocked
<1>2. QED
  BY <1>1, Invariance, PTL

\* The score never quarantines a profile, for any warm-up, threshold and
\* weights: distinct_sessions_for finds no session.  The run SessionsBypass
\* shows a history in which it should.
THEOREM ScoreNeverQuarantines == Spec => []~Gamed(events)
<1>1. IInv => ~Gamed(events)
  <2> SUFFICES ASSUME IInv PROVE ~ (Cardinality(events) > Warmup)
    BY DEF Gamed
  <2>1. Cardinality(events) = 0
    BY FS_EmptySet DEF IInv, NoSessionEvents
  <2>2. QED
    BY <2>1, SumsAssumption
<1>2. QED
  BY <1>1, Invariance, PTL

-----------------------------------------------------------------------------
\* As long as nobody was killed and no command outlasts the retention period:
\* a run's row is open from create to finalize only, a sweep finds rows of runs
\* that are over only, and references have somebody who answers for them.
Answered ==
  (~longRuns /\ aborts = 0) =>
    /\ \A r \in expired : pc[r] = "done"
    /\ \A r \in Runs : /\ pc[r] = "finalize" <=> row[r] = "open"
                       /\ refs[r] = 1 => Owners(r) # {}

LEMMA AnsweredStep == IInv /\ Answered /\ [Next]_vars => Answered'
<1> SUFFICES ASSUME IInv, Answered, [Next]_vars, ~longRuns', aborts' = 0 PROVE Answered'
  BY DEF Answered
<1>. USE ProcsAssumption
<1>0. TypeOK /\ TypeOK' /\ NoRowYet /\ SweepHolds /\ IInv'
  BY TypeStep, StepInv DEF IInv
<1>a. /\ ~longRuns /\ aborts = 0
      /\ \A p \in Procs : ~Abort(p)
  <2>1. longRuns' = longRuns /\ (aborts' = aborts \/ \E p \in Procs : Abort(p))
    BY DEF Next, vars, Start, Record, Judge, Create, Finalize, SkipSweep, Expire, BeginGc,
           Sweep, Release, EndSweep, Abort, sweeps
  <2>2. \A p \in Procs : ~Abort(p)
    BY <1>0 DEF Abort, TypeOK
  <2>3. QED
    BY <2>1, <2>2
<1>b. /\ \A r \in expired : pc[r] = "done"
      /\ \A r \in Runs : /\ pc[r] = "finalize" <=> row[r] = "open"
                         /\ refs[r] = 1 => Owners(r) # {}
  BY <1>a DEF Answered
<1>. USE DEF Procs, Goto, Leave, tables, sweeps, RunSteps, TypeOK
<1>c. SUFFICES ASSUME NEW r \in Runs
               PROVE  /\ r \in expired' => pc'[r] = "done"
                      /\ pc'[r] = "finalize" <=> row'[r] = "open"
                      /\ refs'[r] = 1 => \/ \E p \in Procs : r \in todo'[p]
                                         \/ row'[r] = "final" \/ pc'[r] \in RunSteps
  BY <1>0 DEF Answered, Owners
<1>d. refs[r] = 1 => \/ \E p \in Procs : r \in todo[p]
                     \/ row[r] = "final" \/ pc[r] \in RunSteps
  BY <1>b DEF Owners
<1>1. ASSUME NEW s \in Runs, Start(s) \/ Record(s) \/ Judge(s) \/ Create(s)
      PROVE  /\ r \in expired' => pc'[r] = "done"
             /\ pc'[r] = "finalize" <=> row'[r] = "open"
             /\ refs'[r] = 1 => \/ \E p \in Procs : r \in todo'[p]
                                \/ row'[r] = "final" \/ pc'[r] \in RunSteps
  BY <1>0, <1>1, <1>b, <1>d DEF Start, Record, Judge, Create, NoRowYet, BeforeRow
<1>2. ASSUME NEW s \in Runs, Finalize(s)
      PROVE  /\ r \in expired' => pc'[r] = "done"
             /\ pc'[r] = "finalize" <=> row'[r] = "open"
             /\ refs'[r] = 1 => \/ \E p \in Procs : r \in todo'[p]
                                \/ row'[r] = "final" \/ pc'[r] \in RunSteps
  BY <1>0, <1>2, <1>b, <1>d DEF Finalize
<1>3. ASSUME NEW s \in Runs, SkipSweep(s) \/ Expire(s)
      PROVE  /\ r \in expired' => pc'[r] = "done"
             /\ pc'[r] = "finalize" <=> row'[r] = "open"
             /\ refs'[r] = 1 => \/ \E p \in Procs : r \in todo'[p]
                                \/ row'[r] = "final" \/ pc'[r] \in RunSteps
  BY <1>0, <1>3, <1>a, <1>b, <1>d DEF SkipSweep, Expire, SweepHolds
<1>4. ASSUME NEW g \in Gcs, BeginGc(g)
      PROVE  /\ r \in expired' => pc'[r] = "done"
             /\ pc'[r] = "finalize" <=> row'[r] = "open"
             /\ refs'[r] = 1 => \/ \E p \in Procs : r \in todo'[p]
                                \/ row'[r] = "final" \/ pc'[r] \in RunSteps
  BY <1>4, <1>b, <1>d DEF BeginGc
<1>5. ASSUME NEW p \in Procs, Sweep(p)
      PROVE  /\ r \in expired' => pc'[r] = "done"
             /\ pc'[r] = "finalize" <=> row'[r] = "open"
             /\ refs'[r] = 1 => \/ \E q \in Procs : r \in todo'[q]
                                \/ row'[r] = "final" \/ pc'[r] \in RunSteps
  <2>1. PICK old \in SUBSET expired :
          /\ row' = [s \in Runs |-> IF s \in Purged(old) THEN "none" ELSE row[s]]
          /\ todo' = [todo EXCEPT ![p] = {s \in Purged(old) : row[s] = "final"}]
    BY <1>5 DEF Sweep
  <2>2. /\ pc[p] = "sweep" /\ pc' = [pc EXCEPT ![p] = "release"]
        /\ UNCHANGED <<refs, expired>>
    BY <1>5 DEF Sweep
  <2>3. Purged(old) \subseteq expired
    BY DEF Purged, Present
  <2>4. todo[p] = {}
    BY <1>0, <2>2 DEF SweepHolds
  <2>5. CASE r \in Purged(old)
    <3>1. pc[r] = "done" /\ row'[r] = "none" /\ r # p
      BY <1>b, <2>1, <2>2, <2>3, <2>5
    <3>2. row[r] = "final" => r \in todo'[p]
      BY <1>0, <2>1, <2>5
    <3>3. QED
      BY <1>b, <1>d, <2>1, <2>2, <2>4, <3>1, <3>2
  <2>6. CASE r \notin Purged(old)
    BY <1>0, <1>b, <1>d, <2>1, <2>2, <2>4, <2>6
  <2>7. QED
    BY <2>5, <2>6
<1>6. ASSUME NEW p \in Procs, Release(p)
      PROVE  /\ r \in expired' => pc'[r] = "done"
             /\ pc'[r] = "finalize" <=> row'[r] = "open"
             /\ refs'[r] = 1 => \/ \E q \in Procs : r \in todo'[q]
                                \/ row'[r] = "final" \/ pc'[r] \in RunSteps
  <2>1. PICK s \in todo[p] : /\ refs' = [refs EXCEPT ![s] = IF @ > 0 THEN @ - 1 ELSE @]
                             /\ todo' = [todo EXCEPT ![p] = @ \ {s}]
    BY <1>6 DEF Release
  <2>2. CASE r = s
    <3>1. refs'[r] = 0
      BY <1>0, <2>1, <2>2
    <3>2. QED
      BY <1>6, <1>b, <3>1 DEF Release
  <2>3. CASE r # s
    BY <1>6, <1>b, <1>d, <2>1, <2>3 DEF Release
  <2>4. QED
    BY <2>2, <2>3
<1>7. ASSUME NEW p \in Procs, EndSweep(p)
      PROVE  /\ r \in expired' => pc'[r] = "done"
             /\ pc'[r] = "finalize" <=> row'[r] = "open"
             /\ refs'[r] = 1 => \/ \E q \in Procs : r \in todo'[q]
                                \/ row'[r] = "final" \/ pc'[r] \in RunSteps
  BY <1>7, <1>b, <1>d DEF EndSweep
<1>8. CASE UNCHANGED vars
  BY <1>8, <1>b, <1>d DEF vars
<1>9. QED
  BY <1>1, <1>2, <1>3, <1>4, <1>5, <1>6, <1>7, <1>8, <1>a DEF Next

\* No reference is left behind: unless a process was killed, or a command
\* outlasted the retention period, what is still stored once all processes are
\* through are the outputs of the finalized rows, for any number of runs and
\* overlapping sweeps.
THEOREM OutputsOwnedHolds == Spec => []OutputsOwned
<1>1. Init => Answered
  <2> SUFFICES ASSUME Init PROVE Answered
    OBVIOUS
  <2>1. \A r \in Runs : pc[r] # "finalize" /\ row[r] # "open" /\ refs[r] = 0
    BY DEF Init, Procs
  <2>2. QED
    BY <2>1 DEF Init, Answered
<1>2. IInv /\ Answered => OutputsOwned
  <2> SUFFICES ASSUME IInv, Answered, ~longRuns, aborts = 0,
                      \A p \in Procs : pc[p] \in {"idle", "done"},
                      NEW r \in Runs
               PROVE  row[r] # "open" /\ (refs[r] = 1 <=> row[r] = "final")
    BY DEF OutputsOwned
  <2>1. row[r] # "open" /\ pc[r] \notin RunSteps
    BY DEF Answered, Procs, RunSteps
  <2>2. row[r] = "final" => refs[r] = 1
    BY DEF IInv, RowHolds
  <2>3. \A p \in Procs : r \notin todo[p]
    BY DEF IInv, SweepHolds
  <2>4. refs[r] = 1 => row[r] = "final"
    BY <2>1, <2>3 DEF Answered, Owners
  <2>5. QED
    BY <2>1, <2>2, <2>4
<1>3. QED
  BY <1>1, <1>2, AnsweredStep, Invariance, PTL DEF Spec
=============================================================================
