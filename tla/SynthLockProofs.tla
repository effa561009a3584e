--------------------------- MODULE SynthLockProofs ---------------------------
(***************************************************************************)
(* Theorems about SynthLock, for any number of processes and of crashes.   *)
(*                                                                         *)
(* The safety properties follow from one inductive invariant: until some   *)
(* lock file has reached ten minutes, nobody is about to remove a file it  *)
(* has seen stale, and whoever runs the code under the lock finds the file *)
(* it made itself.  It is the second half that excludes two holders, the   *)
(* lock being one file with one owner.                                     *)
(***************************************************************************)
EXTENDS SynthLock, TLAPS

\* No file is stale, so no process can have decided to remove one.
NothingStale == ~wentStale => lock.age # "stale" /\ \A p \in Procs : pc[p] # "remove"

IInv ==
  /\ TypeOK
  /\ NothingStale
  /\ DropsItsOwn

-----------------------------------------------------------------------------
LEMMA TypeInit == Init => TypeOK
<1> SUFFICES ASSUME Init PROVE TypeOK
  OBVIOUS
<1>1. lock = NoLock /\ lock \in [owner : Procs \cup {NoProc}, age : {"none", "fresh", "stale"}]
  BY DEF Init, NoLock
<1>2. pc \in [Procs -> Steps \cup {"idle"}]
  BY DEF Init
<1>3. QED
  BY <1>1, <1>2 DEF Init, TypeOK

LEMMA TypeStep == TypeOK /\ [Next]_vars => TypeOK'
<1>. USE ProcsAssumption, BoundsAssumption
<1> SUFFICES ASSUME TypeOK, [Next]_vars PROVE TypeOK'
  OBVIOUS
<1>. USE DEF TypeOK, NoLock, Steps, Goto, history
<1>1. ASSUME NEW p \in Procs, Start(p) PROVE TypeOK'
  BY <1>1 DEF Start
<1>a. ASSUME NEW p \in Procs, CountSamples(p) PROVE TypeOK'
  BY <1>a DEF CountSamples
<1>b. ASSUME NEW p \in Procs, Capture(p) PROVE TypeOK'
  <2>1. samples' \in Nat
    BY <1>b DEF Capture
  <2>2. QED
    BY <1>b, <2>1 DEF Capture
<1>c. ASSUME NEW p \in Procs, LockIn(p) PROVE TypeOK'
  BY <1>c DEF LockIn
<1>d. ASSUME NEW p \in Procs, Look(p) PROVE TypeOK'
  BY <1>d DEF Look
<1>2. ASSUME NEW p \in Procs, Stat(p) PROVE TypeOK'
  BY <1>2 DEF Stat
<1>3. ASSUME NEW p \in Procs, Remove(p) PROVE TypeOK'
  BY <1>3 DEF Remove
<1>4. ASSUME NEW p \in Procs, Create(p) PROVE TypeOK'
  <2>1. pc' \in [Procs -> Steps \cup {"idle"}]
    BY <1>4 DEF Create
  <2>2. lock' \in {lock, [owner |-> p, age |-> "fresh"]}
    BY <1>4 DEF Create
  <2>3. /\ lock' \in [owner : Procs \cup {NoProc}, age : {"none", "fresh", "stale"}]
        /\ lock'.age = "none" => lock' = NoLock
    BY <2>2
  <2>4. QED
    BY <1>4, <2>1, <2>3 DEF Create
<1>5. ASSUME NEW p \in Procs, Recheck(p) PROVE TypeOK'
  BY <1>5 DEF Recheck
<1>6. ASSUME NEW p \in Procs, Synthesize(p) PROVE TypeOK'
  BY <1>6 DEF Synthesize
<1>7. ASSUME NEW p \in Procs, Persist(p) PROVE TypeOK'
  BY <1>7 DEF Persist
<1>8. ASSUME NEW p \in Procs, Drop(p) PROVE TypeOK'
  <2>1. pc' \in [Procs -> Steps \cup {"idle"}]
    BY <1>8 DEF Drop
  <2>2. QED
    BY <1>8, <2>1 DEF Drop
<1>9. ASSUME NEW p \in Procs, Crash(p) PROVE TypeOK'
  BY <1>9 DEF Crash
<1>10. ASSUME Age PROVE TypeOK'
  BY <1>10 DEF Age
<1>11. ASSUME OtherCommand PROVE TypeOK'
  BY <1>11 DEF OtherCommand
<1>12. CASE UNCHANGED vars
  BY <1>12 DEF vars
<1>13. QED
  BY <1>1, <1>a, <1>b, <1>c, <1>d, <1>2, <1>3, <1>4, <1>5, <1>6, <1>7, <1>8, <1>9, <1>10, <1>11, <1>12
     DEF Next, Step

\* Every variable keeps its type, and a file that is gone has no owner on
\* record.
THEOREM TypeCorrect == Spec => []TypeOK
  BY TypeInit, TypeStep, PTL DEF Spec

-----------------------------------------------------------------------------
\* At most one process holds when every holder owns the file.
LEMMA OneFileOneHolder == DropsItsOwn /\ ~wentStale => MutualExclusion
  BY DEF DropsItsOwn, MutualExclusion

LEMMA InitInv == Init => IInv
<1> SUFFICES ASSUME Init PROVE IInv
  OBVIOUS
<1>1. TypeOK
  BY TypeInit
<1>2. NothingStale /\ DropsItsOwn
  BY DEF Init, NoLock, NothingStale, DropsItsOwn, Holding
<1>3. QED
  BY <1>1, <1>2 DEF IInv

\* One step of the specification keeps the invariant.
LEMMA StepInv == IInv /\ [Next]_vars => IInv'
<1> SUFFICES ASSUME IInv, [Next]_vars PROVE IInv'
  OBVIOUS
<1>. USE ProcsAssumption
<1>. USE DEF IInv, Goto, history
<1>0. TypeOK'
  BY TypeStep
<1>1. ASSUME NEW p \in Procs, Start(p) PROVE IInv'
  BY <1>0, <1>1 DEF TypeOK, Start, NothingStale, DropsItsOwn, Holding
<1>a. ASSUME NEW p \in Procs, CountSamples(p) PROVE IInv'
  BY <1>0, <1>a DEF TypeOK, CountSamples, NothingStale, DropsItsOwn, Holding
<1>b. ASSUME NEW p \in Procs, Capture(p) PROVE IInv'
  BY <1>0, <1>b DEF TypeOK, Capture, NothingStale, DropsItsOwn, Holding
<1>c. ASSUME NEW p \in Procs, LockIn(p) PROVE IInv'
  BY <1>0, <1>c DEF TypeOK, LockIn, NothingStale, DropsItsOwn, Holding
<1>d. ASSUME NEW p \in Procs, Look(p) PROVE IInv'
  BY <1>0, <1>d DEF TypeOK, Look, NothingStale, DropsItsOwn, Holding
<1>2. ASSUME NEW p \in Procs, Stat(p) PROVE IInv'
  BY <1>0, <1>2 DEF TypeOK, Stat, NothingStale, DropsItsOwn, Holding
<1>3. ASSUME NEW p \in Procs, Remove(p) PROVE IInv'
  BY <1>0, <1>3 DEF TypeOK, Remove, NothingStale, DropsItsOwn, Holding
<1>4. ASSUME NEW p \in Procs, Create(p) PROVE IInv'
  \* A file is made only where there is none, so nobody else holds.
  <2>1. NothingStale'
    BY <1>4 DEF TypeOK, Create, NothingStale, NoLock
  <2>2. DropsItsOwn'
    BY <1>4 DEF TypeOK, Create, DropsItsOwn, Holding, NoLock
  <2>3. QED
    BY <1>0, <2>1, <2>2
<1>5. ASSUME NEW p \in Procs, Recheck(p) PROVE IInv'
  BY <1>0, <1>5 DEF TypeOK, Recheck, NothingStale, DropsItsOwn, Holding
<1>6. ASSUME NEW p \in Procs, Synthesize(p) PROVE IInv'
  BY <1>0, <1>6 DEF TypeOK, Synthesize, NothingStale, DropsItsOwn, Holding
<1>7. ASSUME NEW p \in Procs, Persist(p) PROVE IInv'
  BY <1>0, <1>7 DEF TypeOK, Persist, NothingStale, DropsItsOwn, Holding
<1>8. ASSUME NEW p \in Procs, Drop(p) PROVE IInv'
  \* The file that is removed is the one p made; nobody else holds one.
  <2>1. NothingStale'
    BY <1>8 DEF TypeOK, Drop, NothingStale, NoLock
  <2>2. ASSUME ~wentStale, NEW q \in Procs, q # p PROVE ~Holding(q)
    BY <1>8, <2>2, OneFileOneHolder DEF Drop, MutualExclusion, Holding
  <2>3. DropsItsOwn'
    BY <1>8, <2>2 DEF TypeOK, Drop, DropsItsOwn, Holding
  <2>4. QED
    BY <1>0, <2>1, <2>3
<1>9. ASSUME NEW p \in Procs, Crash(p) PROVE IInv'
  <2>1. NothingStale'
    BY <1>9 DEF TypeOK, Crash, NothingStale
  <2>2. DropsItsOwn'
    BY <1>9 DEF TypeOK, Crash, DropsItsOwn, Holding
  <2>3. QED
    BY <1>0, <2>1, <2>2
<1>10. ASSUME Age PROVE IInv'
  BY <1>0, <1>10 DEF TypeOK, Age, NothingStale, DropsItsOwn
<1>11. ASSUME OtherCommand PROVE IInv'
  BY <1>0, <1>11 DEF TypeOK, OtherCommand, NothingStale, DropsItsOwn, Holding
<1>12. CASE UNCHANGED vars
  BY <1>0, <1>12 DEF TypeOK, vars, NothingStale, DropsItsOwn, Holding
<1>13. QED
  BY <1>1, <1>a, <1>b, <1>c, <1>d, <1>2, <1>3, <1>4, <1>5, <1>6, <1>7, <1>8, <1>9, <1>10, <1>11, <1>12
     DEF Next, Step

LEMMA Invariance == Spec => []IInv
  BY InitInv, StepInv, PTL DEF Spec

-----------------------------------------------------------------------------
\* Two processes never run the synthesis of a fingerprint at once before some
\* lock file has gone stale: crashes and other commands do not break the lock.
THEOREM MutualExclusionHolds == Spec => []MutualExclusionUnlessStale
<1>1. IInv => MutualExclusionUnlessStale
  BY OneFileOneHolder DEF IInv, MutualExclusionUnlessStale
<1>2. QED
  BY <1>1, Invariance, PTL

\* The guard a process drops removes its own file, under the same condition.
THEOREM DropsItsOwnHolds == Spec => []DropsItsOwn
<1>1. IInv => DropsItsOwn
  BY DEF IInv
<1>2. QED
  BY <1>1, Invariance, PTL

-----------------------------------------------------------------------------
(* The lock implements the promise.  Once a lock has gone stale every step *)
(* is one of Unbound; before that each step of the lock is the step of the *)
(* promise it is meant to be, or changes nothing of it.                    *)

\* Whoever works on a profile holds, so a process that is about to begin is
\* alone.
LEMMA LearnersHold ==
  ASSUME IInv, ~wentStale, NEW p \in Procs, Holding(p)
  PROVE  Learners \subseteq {p}
<1>1. \A q \in Learners : q \in Procs /\ Holding(q)
  BY DEF Learners, Holding
<1>2. QED
  BY <1>1, OneFileOneHolder DEF IInv, MutualExclusion

\* A step that moves p from one place outside the work to another.
LEMMA NoLearnerMoved ==
  ASSUME TypeOK, NEW p \in Procs, NEW step, pc' = [pc EXCEPT ![p] = step],
         pc[p] \notin {"synthesize", "persist"}, step \notin {"synthesize", "persist"}
  PROVE  Learners' = Learners
  BY DEF TypeOK, Learners

\* A step in which p leaves the work.
LEMMA LearnerLeft ==
  ASSUME TypeOK, NEW p \in Procs, NEW step, pc' = [pc EXCEPT ![p] = step],
         step \notin {"synthesize", "persist"}
  PROVE  Learners' = Learners \ {p}
  BY DEF TypeOK, Learners

LEMMA VoidStep ==
  ASSUME TypeOK, TypeOK', wentStale, wentStale'
  PROVE  Promise!Unbound
  BY DEF TypeOK, Promise!Unbound, Learners

LEMMA BoundStep ==
  ASSUME IInv, IInv', ~wentStale, [Next]_vars
  PROVE  [Promise!Next]_Promise!vars
<1>. USE DEF IInv, Goto, history, Promise!Next, Promise!vars
<1>1. ASSUME NEW p \in Procs, Start(p) PROVE UNCHANGED Promise!vars
  BY <1>1, NoLearnerMoved DEF Start
<1>a. ASSUME NEW p \in Procs, CountSamples(p) PROVE UNCHANGED Promise!vars
  <2>1. PICK step \in {"capture", "idle"} : pc' = [pc EXCEPT ![p] = step]
    BY <1>a DEF CountSamples
  <2>2. QED
    BY <1>a, <2>1, NoLearnerMoved DEF CountSamples
<1>b. ASSUME NEW p \in Procs, Capture(p) PROVE UNCHANGED Promise!vars
  BY <1>b, NoLearnerMoved DEF Capture
<1>c. ASSUME NEW p \in Procs, LockIn(p) PROVE UNCHANGED Promise!vars
  <2>1. PICK step \in {"look", "idle"} : pc' = [pc EXCEPT ![p] = step]
    BY <1>c DEF LockIn
  <2>2. QED
    BY <1>c, <2>1, NoLearnerMoved DEF LockIn
<1>d. ASSUME NEW p \in Procs, Look(p) PROVE UNCHANGED Promise!vars
  <2>1. PICK step \in {"idle", "stat"} : pc' = [pc EXCEPT ![p] = step]
    BY <1>d DEF Look
  <2>2. QED
    BY <1>d, <2>1, NoLearnerMoved DEF Look
<1>2. ASSUME NEW p \in Procs, Stat(p) PROVE UNCHANGED Promise!vars
  <2>1. PICK step \in {"remove", "create"} : pc' = [pc EXCEPT ![p] = step]
    BY <1>2 DEF Stat
  <2>2. QED
    BY <1>2, <2>1, NoLearnerMoved DEF Stat
<1>3. ASSUME NEW p \in Procs, Remove(p) PROVE UNCHANGED Promise!vars
  BY <1>3, NoLearnerMoved DEF Remove
<1>4. ASSUME NEW p \in Procs, Create(p) PROVE UNCHANGED Promise!vars
  <2>1. PICK step \in {"recheck", "idle"} : pc' = [pc EXCEPT ![p] = step]
    BY <1>4 DEF Create
  <2>2. QED
    BY <1>4, <2>1, NoLearnerMoved DEF Create
<1>5. ASSUME NEW p \in Procs, Recheck(p) PROVE Promise!Begin(p) \/ UNCHANGED Promise!vars
  <2>1. CASE active
    BY <1>5, <2>1, NoLearnerMoved DEF Recheck
  <2>2. CASE ~active
    \* The one that goes on holds, and is not yet at work itself.
    <3>1. Learners = {}
      BY <1>5, LearnersHold DEF Recheck, Holding, Learners
    <3>2. Learners' = {p}
      BY <1>5, <2>2, <3>1 DEF Recheck, Learners, TypeOK
    <3>3. QED
      BY <1>5, <2>2, <3>1, <3>2 DEF Recheck, Promise!Begin
  <2>3. QED
    BY <2>1, <2>2
<1>6. ASSUME NEW p \in Procs, Synthesize(p) PROVE Promise!Leave(p) \/ UNCHANGED Promise!vars
  <2>1. CASE pc' = [pc EXCEPT ![p] = "persist"]
    BY <1>6, <2>1 DEF Synthesize, Learners, TypeOK
  <2>2. CASE pc' = [pc EXCEPT ![p] = "drop"]
    BY <1>6, <2>2, LearnerLeft DEF Synthesize, Learners, Promise!Leave
  <2>3. QED
    BY <1>6, <2>1, <2>2 DEF Synthesize
<1>7. ASSUME NEW p \in Procs, Persist(p) PROVE Promise!Leave(p)
  <2>1. p \in Learners /\ Learners' = Learners \ {p}
    BY <1>7 DEF Persist, Learners, TypeOK
  <2>2. QED
    BY <1>7, <2>1 DEF Persist, Promise!Leave, TypeOK
<1>8. ASSUME NEW p \in Procs, Drop(p) PROVE UNCHANGED Promise!vars
  BY <1>8, NoLearnerMoved DEF Drop
<1>9. ASSUME NEW p \in Procs, Crash(p) PROVE Promise!Leave(p) \/ UNCHANGED Promise!vars
  <2>1. pc' = [pc EXCEPT ![p] = "idle"]
    BY <1>9 DEF Crash
  <2>2. Learners' = Learners \ {p}
    BY <2>1, LearnerLeft
  <2>3. QED
    BY <1>9, <2>2 DEF Crash, Promise!Leave
<1>10. ASSUME Age PROVE Promise!Void
  BY <1>10 DEF Age, Promise!Void, Learners
<1>11. ASSUME OtherCommand PROVE Promise!Elsewhere
  BY <1>11 DEF OtherCommand, Promise!Elsewhere, Learners
<1>12. CASE UNCHANGED vars
  BY <1>12 DEF vars, Learners
<1>13. QED
  BY <1>1, <1>a, <1>b, <1>c, <1>d, <1>2, <1>3, <1>4, <1>5, <1>6, <1>7, <1>8, <1>9, <1>10, <1>11, <1>12
     DEF Next, Step

\* The lock file implements the promise of auto-synthesis, whatever number of
\* processes run the command, crash in it, or outlast the ten minutes, which
\* voids the promise, and whatever other commands promote or take away meanwhile.
THEOREM LockKeepsPromise == Spec => KeepsPromise
<1>1. Init => Promise!Init
  BY DEF Init, Promise!Init, Learners
<1>2. IInv /\ IInv' /\ [Next]_vars => [Promise!Next]_Promise!vars
  <2> SUFFICES ASSUME IInv, IInv', [Next]_vars PROVE [Promise!Next]_Promise!vars
    OBVIOUS
  <2>1. CASE ~wentStale
    BY <2>1, BoundStep
  <2>2. CASE wentStale
    <3>1. wentStale'
      BY <2>2 DEF Next, Step, Start, CountSamples, Capture, LockIn, Look, Stat, Remove, Create, Recheck, Synthesize, Persist, Drop,
                  Crash, Age, OtherCommand, vars, history
    <3>2. QED
      BY <2>2, <3>1, VoidStep DEF IInv, Promise!Next
  <2>3. QED
    BY <2>1, <2>2 DEF IInv, TypeOK
<1>3. QED
  BY <1>1, <1>2, Invariance, PTL DEF Spec, KeepsPromise, Promise!Spec
=============================================================================
