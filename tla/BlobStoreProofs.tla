--------------------------- MODULE BlobStoreProofs ---------------------------
(***************************************************************************)
(* Theorems about BlobStore, for any number of processes and contents: in  *)
(* the first part under any overlap of the operations, in the second under *)
(* the discipline that a put overlaps nothing.                             *)
(***************************************************************************)
EXTENDS BlobStore, FiniteSetTheorems, TLAPS

-----------------------------------------------------------------------------
(* How the program counters and the locals keep their types.               *)

LEMMA LeaveType ==
  ASSUME CallsOK, NEW p \in Procs, NEW step \in {"idle", "failed"},
         Goto(p, step), call' = [call EXCEPT ![p] = NoCall]
  PROVE  CallsOK'
<1>1. NoCall \in Calls
  BY DEF NoCall, Calls, Kinds
<1>2. step \notin OnContent
  BY DEF OnContent, PutSteps, ReleaseSteps
<1>3. QED
  BY <1>1, <1>2 DEF CallsOK, Goto

\* A step within an operation, which may choose the content it works on.
LEMMA MoveType ==
  ASSUME CallsOK, NEW p \in Procs, NEW step \in Busy \cup {"idle"}, Goto(p, step),
         NEW c \in Calls, step \in OnContent => c.sha \in Shas,
         call' = [call EXCEPT ![p] = c]
  PROVE  CallsOK'
  BY DEF CallsOK, Goto

LEMMA GotoType ==
  ASSUME CallsOK, NEW p \in Procs, pc[p] \in OnContent, NEW step \in Busy, Goto(p, step),
         UNCHANGED call
  PROVE  CallsOK'
  BY DEF CallsOK, Goto

LEMMA StepsBusy ==
  /\ PutSteps \subseteq OnContent /\ ReleaseSteps \subseteq OnContent /\ OnContent \subseteq Busy
  /\ GcSteps \subseteq Busy /\ "sweepDelete" \in OnContent
  BY DEF OnContent, Busy, PutSteps, ReleaseSteps, GcSteps

LEMMA CallOf ==
  ASSUME CallsOK, NEW p \in Procs
  PROVE  /\ call[p] \in Calls /\ call[p].todo \subseteq Shas
         /\ pc[p] \in OnContent => call[p].sha \in Shas
  BY DEF CallsOK, Calls

-----------------------------------------------------------------------------
LEMMA TypeInit == Init => TypeOK
<1>1. NoCall \in Calls
  BY DEF NoCall, Calls, Kinds
<1>2. "idle" \notin OnContent
  BY DEF OnContent, PutSteps, ReleaseSteps
<1>3. QED
  BY <1>1, <1>2 DEF Init, TypeOK, CallsOK, Content

LEMMA PutTypes ==
  ASSUME TypeOK, NEW p \in Procs,
         \/ PutCount(p) \/ PutBump(p) \/ PutCreate(p) \/ PutWrite(p) \/ PutRename(p)
         \/ PutInsert(p) \/ PutRecord(p) \/ Exit(p)
  PROVE  TypeOK'
<1>. USE DEF TypeOK, Content, store, disk, owners, bounds
<1>a. pc[p] \in PutSteps => call[p].sha \in Shas
  BY CallOf, StepsBusy
<1>1. CASE PutCount(p)
  <2>1. pc[p] \in PutSteps /\ call[p].sha \in Shas
    BY <1>1, <1>a DEF PutCount, PutSteps
  <2>2. CallsOK'
    BY <1>1, <2>1, StepsBusy, GotoType, LeaveType DEF PutCount, PutSteps, Leave
  <2>3. QED
    BY <1>1, <2>1, <2>2 DEF PutCount, Leave
<1>2. CASE PutBump(p)
  <2>1. pc[p] \in PutSteps /\ call[p].sha \in Shas
    BY <1>2, <1>a DEF PutBump, PutSteps
  <2>2. CallsOK'
    BY <1>2, <2>1, StepsBusy, GotoType, LeaveType DEF PutBump, PutSteps, Leave
  <2>3. QED
    BY <1>2, <2>1, <2>2 DEF PutBump, Leave
<1>3. CASE PutCreate(p)
  <2>1. pc[p] \in PutSteps /\ call[p].sha \in Shas
    BY <1>3, <1>a DEF PutCreate, PutSteps
  <2>2. CallsOK'
    BY <1>3, <2>1, StepsBusy, GotoType, LeaveType DEF PutCreate, PutSteps, Leave
  <2>3. QED
    BY <1>3, <2>1, <2>2 DEF PutCreate, Leave
<1>4. CASE PutWrite(p)
  <2>1. pc[p] \in PutSteps /\ call[p].sha \in Shas
    BY <1>4, <1>a DEF PutWrite, PutSteps
  <2>2. CallsOK'
    BY <1>4, <2>1, StepsBusy, GotoType, LeaveType DEF PutWrite, PutSteps, Leave
  <2>3. QED
    BY <1>4, <2>1, <2>2 DEF PutWrite, Leave
<1>5. CASE PutRename(p)
  <2>1. pc[p] \in PutSteps /\ call[p].sha \in Shas
    BY <1>5, <1>a DEF PutRename, PutSteps
  <2>2. CallsOK'
    BY <1>5, <2>1, StepsBusy, GotoType, LeaveType DEF PutRename, PutSteps, Leave
  <2>3. QED
    BY <1>5, <2>1, <2>2 DEF PutRename, Leave, AfterRename
<1>6. CASE PutInsert(p)
  <2>1. pc[p] \in PutSteps /\ call[p].sha \in Shas
    BY <1>6, <1>a DEF PutInsert, PutSteps
  <2>2. CallsOK'
    BY <1>6, <2>1, StepsBusy, GotoType, LeaveType DEF PutInsert, PutSteps, Leave
  <2>3. QED
    BY <1>6, <2>1, <2>2 DEF PutInsert, Leave
<1>7. CASE PutRecord(p)
  <2>1. pc[p] \in PutSteps /\ call[p].sha \in Shas
    BY <1>7, <1>a DEF PutRecord, PutSteps
  <2>2. CallsOK'
    BY <1>7, <2>1, StepsBusy, GotoType, LeaveType DEF PutRecord, PutSteps, Leave
  <2>3. QED
    BY <1>7, <2>1, <2>2 DEF PutRecord, Leave
<1>8. CASE Exit(p)
  <2>1. CallsOK'
    BY <1>8, MoveType, CallOf, StepsBusy DEF Exit, OnContent, PutSteps, ReleaseSteps, CallsOK, Goto
  <2>2. QED
    BY <1>8, <2>1 DEF Exit
<1>9. QED
  BY <1>1, <1>2, <1>3, <1>4, <1>5, <1>6, <1>7, <1>8

LEMMA ReleaseTypes ==
  ASSUME TypeOK, NEW p \in Procs,
         \/ ReleaseDec(p) \/ ReleaseCheck(p) \/ ReleaseDelete(p) \/ ReleaseUnlink(p)
         \/ GcUnlink(p) \/ GcDelete(p) \/ GcDone(p) \/ Abort(p)
  PROVE  TypeOK'
<1>. USE DEF TypeOK, Content, store, disk, owners, bounds
<1>a. pc[p] \in ReleaseSteps \cup {"sweepDelete"} => call[p].sha \in Shas
  BY CallOf, StepsBusy
<1>1. CASE ReleaseDec(p)
  <2>1. pc[p] \in ReleaseSteps /\ call[p].sha \in Shas
    BY <1>1, <1>a DEF ReleaseDec, ReleaseSteps
  <2>2. CallsOK'
    BY <1>1, <2>1, StepsBusy, GotoType, LeaveType DEF ReleaseDec, ReleaseSteps, Leave
  <2>3. QED
    BY <1>1, <2>1, <2>2 DEF ReleaseDec, Leave
<1>2. CASE ReleaseCheck(p)
  <2>1. pc[p] \in ReleaseSteps /\ call[p].sha \in Shas
    BY <1>2, <1>a DEF ReleaseCheck, ReleaseSteps
  <2>2. CallsOK'
    BY <1>2, <2>1, StepsBusy, GotoType, LeaveType DEF ReleaseCheck, ReleaseSteps, Leave
  <2>3. QED
    BY <1>2, <2>1, <2>2 DEF ReleaseCheck, Leave
<1>3. CASE ReleaseDelete(p)
  <2>1. pc[p] \in ReleaseSteps /\ call[p].sha \in Shas
    BY <1>3, <1>a DEF ReleaseDelete, ReleaseSteps
  <2>2. CallsOK'
    BY <1>3, <2>1, StepsBusy, GotoType, LeaveType DEF ReleaseDelete, ReleaseSteps, Leave
  <2>3. QED
    BY <1>3, <2>1, <2>2 DEF ReleaseDelete, Leave, DeleteRow
<1>4. CASE ReleaseUnlink(p)
  <2>1. pc[p] \in ReleaseSteps /\ call[p].sha \in Shas
    BY <1>4, <1>a DEF ReleaseUnlink, ReleaseSteps
  <2>2. CallsOK'
    BY <1>4, <2>1, StepsBusy, GotoType, LeaveType DEF ReleaseUnlink, ReleaseSteps, Leave
  <2>3. QED
    BY <1>4, <2>1, <2>2 DEF ReleaseUnlink, Leave, AfterUnlink
<1>5. CASE GcUnlink(p)
  <2>1. PICK s \in call[p].todo : /\ file' = [file EXCEPT ![s] = "none"]
                                  /\ fd' = AfterUnlink(s)
                                  /\ call' = [call EXCEPT ![p].sha = s]
    BY <1>5 DEF GcUnlink
  <2> DEFINE c == [call[p] EXCEPT !.sha = s]
  <2>2. c \in Calls /\ c.sha = s /\ s \in Shas
    BY CallOf DEF Calls
  <2>3. call' = [call EXCEPT ![p] = c]
    BY <2>1
  <2> HIDE DEF c
  <2>4. CallsOK'
    BY <1>5, <2>2, <2>3, MoveType, StepsBusy DEF GcUnlink
  <2>5. QED
    BY <1>5, <2>1, <2>4 DEF GcUnlink, AfterUnlink
<1>6. CASE GcDelete(p)
  <2>1. call[p].sha \in Shas
    BY <1>6, <1>a DEF GcDelete
  <2> DEFINE c == [call[p] EXCEPT !.sha = NoSha, !.todo = @ \ {call[p].sha}]
  <2>2. c \in Calls
    BY CallOf DEF Calls
  <2>3. CallsOK'
    <3>1. CASE Goto(p, "sweep") /\ call' = [call EXCEPT ![p] = c]
      <4>1. "sweep" \in Busy /\ "sweep" \notin OnContent
        BY DEF Busy, GcSteps, OnContent, PutSteps, ReleaseSteps
      <4> HIDE DEF c
      <4>2. QED
        BY <2>2, <3>1, <4>1, MoveType
    <3>2. CASE Leave(p, "idle")
      BY <3>2, LeaveType DEF Leave
    <3>3. QED
      BY <1>6, <3>1, <3>2 DEF GcDelete
  <2>4. QED
    BY <1>6, <2>1, <2>3 DEF GcDelete, DeleteRow, Leave
<1>7. CASE GcDone(p)
  BY <1>7, LeaveType DEF GcDone, Leave
<1>8. CASE Abort(p)
  <2>1. CallsOK'
    BY <1>8, LeaveType DEF Abort, Leave
  <2>2. fd' \in [Procs -> {"none", "tmp", "file", "gone"}] /\ aborts' \in Nat
    BY <1>8 DEF Abort, Leave
  <2>3. UNCHANGED <<store, file, tmp, owners, overlap>>
    BY <1>8 DEF Abort
  <2>4. QED
    BY <2>1, <2>2, <2>3
<1>9. QED
  BY <1>1, <1>2, <1>3, <1>4, <1>5, <1>6, <1>7, <1>8

LEMMA BeginTypes ==
  ASSUME TypeOK, NEW p \in Procs,
         \/ \E s \in Shas, k \in Kinds : BeginPut(p, s, k)
         \/ \E s \in Shas : BeginRelease(p, s)
         \/ BeginGc(p)
  PROVE  TypeOK'
<1>. USE DEF TypeOK, store, disk, owners, bounds
<1>1. ASSUME NEW s \in Shas, NEW k \in Kinds, BeginPut(p, s, k) PROVE TypeOK'
  <2> DEFINE c == [op |-> "put", sha |-> s, kind |-> k, todo |-> {}]
  <2>1. c \in Calls /\ c.sha \in Shas
    BY DEF Calls, Ops
  <2>2. Goto(p, "count") /\ call' = [call EXCEPT ![p] = c] /\ "count" \in Busy
    BY <1>1 DEF BeginPut, Busy, PutSteps
  <2> HIDE DEF c
  <2>3. CallsOK'
    BY <2>1, <2>2, MoveType
  <2>4. QED
    BY <1>1, <2>3 DEF BeginPut
<1>2. ASSUME NEW s \in Shas, BeginRelease(p, s) PROVE TypeOK'
  <2> DEFINE c == [op |-> "release", sha |-> s, kind |-> "session", todo |-> {}]
  <2>1. c \in Calls /\ c.sha \in Shas
    BY DEF Calls, Ops, Kinds
  <2>2. Goto(p, "dec") /\ call' = [call EXCEPT ![p] = c] /\ "dec" \in Busy
    BY <1>2 DEF BeginRelease, Busy, ReleaseSteps
  <2> HIDE DEF c
  <2>3. CallsOK'
    BY <2>1, <2>2, MoveType
  <2>4. holders' \in [Shas -> Nat]
    BY <1>2 DEF BeginRelease
  <2>5. QED
    BY <1>2, <2>3, <2>4 DEF BeginRelease
<1>3. CASE BeginGc(p)
  <2> DEFINE c == [op |-> "gc", sha |-> NoSha, kind |-> "session", todo |-> Unreferenced]
  <2>1. c \in Calls
    BY DEF Calls, Ops, Kinds, Unreferenced
  <2>2. Goto(p, "sweep") /\ call' = [call EXCEPT ![p] = c]
    BY <1>3 DEF BeginGc
  <2>3. "sweep" \in Busy /\ "sweep" \notin OnContent
    BY DEF Busy, GcSteps, OnContent, PutSteps, ReleaseSteps
  <2> HIDE DEF c
  <2>4. CallsOK'
    BY <2>1, <2>2, <2>3, MoveType
  <2>5. QED
    BY <1>3, <2>4 DEF BeginGc
<1>4. QED
  BY <1>1, <1>2, <1>3

LEMMA TypeStep == TypeOK /\ [Next]_vars => TypeOK'
<1> SUFFICES ASSUME TypeOK, [Next]_vars PROVE TypeOK'
  OBVIOUS
<1>1. CASE UNCHANGED vars
  BY <1>1 DEF vars, TypeOK, CallsOK
<1>2. CASE Next
  BY <1>2, PutTypes, ReleaseTypes, BeginTypes DEF Next, Step
<1>3. QED
  BY <1>1, <1>2

\* Every variable keeps its type: no reference count falls below zero, and an
\* operation knows the content it works on.
THEOREM TypeCorrect == Spec => []TypeOK
  BY TypeInit, TypeStep, PTL DEF Spec

-----------------------------------------------------------------------------
LEMMA SamplesStep == TypeOK /\ SamplesKeepRow /\ [Next]_vars => SamplesKeepRow'
<1> SUFFICES ASSUME TypeOK, SamplesKeepRow, [Next]_vars PROVE SamplesKeepRow'
  OBVIOUS
<1>. USE DEF TypeOK, SamplesKeepRow
<1>a. rows \subseteq rows' /\ UNCHANGED samples => SamplesKeepRow'
  OBVIOUS
<1>b. ASSUME NEW s, ~Pinned(s), DeleteRow(s), UNCHANGED samples PROVE SamplesKeepRow'
  \* The foreign key: the row that goes is not the one of a sample.
  BY <1>b DEF Pinned, DeleteRow
<1>1. ASSUME NEW p \in Procs, PutInsert(p) PROVE SamplesKeepRow'
  BY <1>a, <1>1 DEF PutInsert, store, owners
<1>2. ASSUME NEW p \in Procs, PutRecord(p) PROVE SamplesKeepRow'
  BY <1>2 DEF PutRecord, store
<1>3. ASSUME NEW p \in Procs, ReleaseDelete(p) PROVE SamplesKeepRow'
  BY <1>a, <1>b, <1>3 DEF ReleaseDelete, store, owners
<1>4. ASSUME NEW p \in Procs, GcDelete(p) PROVE SamplesKeepRow'
  BY <1>a, <1>b, <1>4 DEF GcDelete, store, owners
<1>5. ASSUME NEW p \in Procs,
             \/ PutCount(p) \/ PutBump(p) \/ PutCreate(p) \/ PutWrite(p) \/ PutRename(p)
             \/ Exit(p) \/ ReleaseDec(p) \/ ReleaseCheck(p) \/ ReleaseUnlink(p)
             \/ GcUnlink(p) \/ GcDone(p) \/ BeginGc(p) \/ Abort(p)
      PROVE  UNCHANGED <<rows, samples>>
  BY <1>5 DEF PutCount, PutBump, PutCreate, PutWrite, PutRename, Exit, ReleaseDec,
              ReleaseCheck, ReleaseUnlink, GcUnlink, GcDone, BeginGc, Abort, store, owners
<1>6. ASSUME NEW p \in Procs, NEW s \in Shas,
             BeginRelease(p, s) \/ \E k \in Kinds : BeginPut(p, s, k)
      PROVE  UNCHANGED <<rows, samples>>
  BY <1>6 DEF BeginPut, BeginRelease, store, owners
<1>7. UNCHANGED vars => UNCHANGED <<rows, samples>>
  BY DEF vars
<1>8. QED
  BY <1>a, <1>1, <1>2, <1>3, <1>4, <1>5, <1>6, <1>7 DEF Next, Step

\* Under every interleaving and whatever is cut short, a sample names a blob
\* that has its row.
THEOREM SamplesKeepRowHolds == Spec => []SamplesKeepRow
<1>1. Init => SamplesKeepRow
  BY DEF Init, SamplesKeepRow
<1>2. QED
  BY <1>1, SamplesStep, TypeCorrect, PTL DEF Spec

-----------------------------------------------------------------------------
(* The reference counts cover their owners when no put runs beside a       *)
(* release or a sweep, whatever is cut short.                              *)
(*                                                                         *)
(* RefsCovered is not inductive.  Between the count and the row that owns  *)
(* it a reference is in flight: a put that has counted and not yet written *)
(* its row, a release whose caller has deleted the row and which has not   *)
(* yet counted down.  The inductive form counts these processes too; that  *)
(* a row is deleted only at zero then needs the decisions of release and   *)
(* of the sweep to be still true when they are acted upon, which is what   *)
(* keeping puts apart gives.                                               *)

InFlight(s) == {p \in Procs : pc[p] \in {"record", "dec"} /\ call[p].sha = s}

Linked == \A p \in Procs :
  /\ pc[p] \in PutSteps => call[p].op = "put"
  /\ pc[p] \in ReleaseSteps => call[p].op = "release"
  /\ pc[p] \in GcSteps => call[p].op = "gc"

NoRowNoCount == \A s \in Shas : s \notin rows => refCount[s] = 0

\* What holds while puts are kept apart from releases and sweeps.
Excluded == \A p, q \in Procs : ~ (call[p].op = "put" /\ call[q].op \in {"release", "gc"})
BumpHasRow == \A p \in Procs : pc[p] = "bump" => call[p].sha \in rows
DeleteAtZero == \A p \in Procs : pc[p] = "delete" => refCount[call[p].sha] = 0
SweepAtZero == \A p \in Procs :
  /\ pc[p] \in GcSteps => \A s \in call[p].todo : refCount[s] = 0
  /\ pc[p] = "sweepDelete" => call[p].sha \in call[p].todo
Counted == \A s \in Shas : Refs(s) + Cardinality(InFlight(s)) <= refCount[s]

Apart == Excluded /\ BumpHasRow /\ DeleteAtZero /\ SweepAtZero /\ Counted

IInv == TypeOK /\ Linked /\ NoRowNoCount /\ (PutsApart => Apart)

-----------------------------------------------------------------------------
LEMMA LinkedStep == TypeOK /\ Linked /\ [Next]_vars => Linked'
<1> SUFFICES ASSUME TypeOK, Linked, [Next]_vars PROVE Linked'
  OBVIOUS
<1>. USE DEF TypeOK, CallsOK, Calls, Linked, PutSteps, ReleaseSteps, GcSteps, Goto
<1>1. ASSUME NEW p \in Procs, PutCount(p) PROVE Linked'
  BY <1>1 DEF PutCount, Leave, NoCall, bounds, store, disk, owners
<1>2. ASSUME NEW p \in Procs, PutBump(p) PROVE Linked'
  BY <1>2 DEF PutBump, Leave, NoCall, bounds, store, disk, owners
<1>3. ASSUME NEW p \in Procs, PutCreate(p) PROVE Linked'
  BY <1>3 DEF PutCreate, Leave, NoCall, bounds, store, disk, owners
<1>4. ASSUME NEW p \in Procs, PutWrite(p) PROVE Linked'
  BY <1>4 DEF PutWrite, Leave, NoCall, bounds, store, disk, owners
<1>5. ASSUME NEW p \in Procs, PutRename(p) PROVE Linked'
  BY <1>5 DEF PutRename, Leave, NoCall, bounds, store, disk, owners
<1>6. ASSUME NEW p \in Procs, PutInsert(p) PROVE Linked'
  BY <1>6 DEF PutInsert, Leave, NoCall, bounds, store, disk, owners
<1>7. ASSUME NEW p \in Procs, PutRecord(p) PROVE Linked'
  BY <1>7 DEF PutRecord, Leave, NoCall, bounds, store, disk, owners
<1>8. ASSUME NEW p \in Procs, Exit(p) PROVE Linked'
  BY <1>8 DEF Exit, Leave, NoCall, bounds, store, disk, owners
<1>9. ASSUME NEW p \in Procs, ReleaseDec(p) PROVE Linked'
  BY <1>9 DEF ReleaseDec, Leave, NoCall, bounds, store, disk, owners
<1>10. ASSUME NEW p \in Procs, ReleaseCheck(p) PROVE Linked'
  BY <1>10 DEF ReleaseCheck, Leave, NoCall, bounds, store, disk, owners
<1>11. ASSUME NEW p \in Procs, ReleaseDelete(p) PROVE Linked'
  BY <1>11 DEF ReleaseDelete, Leave, NoCall, bounds, store, disk, owners
<1>12. ASSUME NEW p \in Procs, ReleaseUnlink(p) PROVE Linked'
  BY <1>12 DEF ReleaseUnlink, Leave, NoCall, bounds, store, disk, owners
<1>13. ASSUME NEW p \in Procs, GcUnlink(p) PROVE Linked'
  BY <1>13 DEF GcUnlink, Leave, NoCall, bounds, store, disk, owners
<1>14. ASSUME NEW p \in Procs, GcDelete(p) PROVE Linked'
  BY <1>14 DEF GcDelete, Leave, NoCall, bounds, store, disk, owners
<1>15. ASSUME NEW p \in Procs, GcDone(p) PROVE Linked'
  BY <1>15 DEF GcDone, Leave, NoCall, bounds, store, disk, owners
<1>16. ASSUME NEW p \in Procs, Abort(p) PROVE Linked'
  BY <1>16 DEF Abort, Leave, NoCall, bounds, store, disk, owners
<1>17. ASSUME NEW p \in Procs, NEW s \in Shas, NEW k \in Kinds, BeginPut(p, s, k) PROVE Linked'
  BY <1>17 DEF BeginPut, Leave, NoCall, bounds, store, disk, owners
<1>18. ASSUME NEW p \in Procs, NEW s \in Shas, BeginRelease(p, s) PROVE Linked'
  BY <1>18 DEF BeginRelease, Leave, NoCall, bounds, store, disk, owners
<1>19. ASSUME NEW p \in Procs, BeginGc(p) PROVE Linked'
  BY <1>19 DEF BeginGc, Leave, NoCall, bounds, store, disk, owners
<1>20. CASE UNCHANGED vars
  BY <1>20 DEF vars, Leave, NoCall, bounds, store, disk, owners
<1>21. QED
  BY <1>1, <1>2, <1>3, <1>4, <1>5, <1>6, <1>7, <1>8, <1>9, <1>10,
     <1>11, <1>12, <1>13, <1>14, <1>15, <1>16, <1>17, <1>18, <1>19, <1>20
     DEF Next, Step

LEMMA NoRowStep == TypeOK /\ NoRowNoCount /\ [Next]_vars => NoRowNoCount'
<1> SUFFICES ASSUME TypeOK, NoRowNoCount, [Next]_vars PROVE NoRowNoCount'
  OBVIOUS
<1>. USE DEF TypeOK, NoRowNoCount, store
<1>1. ASSUME NEW p \in Procs, PutCount(p) PROVE NoRowNoCount'
  BY <1>1 DEF PutCount, DeleteRow
<1>2. ASSUME NEW p \in Procs, PutBump(p) PROVE NoRowNoCount'
  BY <1>2 DEF PutBump, DeleteRow
<1>3. ASSUME NEW p \in Procs, PutCreate(p) PROVE NoRowNoCount'
  BY <1>3 DEF PutCreate, DeleteRow
<1>4. ASSUME NEW p \in Procs, PutWrite(p) PROVE NoRowNoCount'
  BY <1>4 DEF PutWrite, DeleteRow
<1>5. ASSUME NEW p \in Procs, PutRename(p) PROVE NoRowNoCount'
  BY <1>5 DEF PutRename, DeleteRow
<1>6. ASSUME NEW p \in Procs, PutInsert(p) PROVE NoRowNoCount'
  BY <1>6 DEF PutInsert, DeleteRow
<1>7. ASSUME NEW p \in Procs, PutRecord(p) PROVE NoRowNoCount'
  BY <1>7 DEF PutRecord, DeleteRow
<1>8. ASSUME NEW p \in Procs, Exit(p) PROVE NoRowNoCount'
  BY <1>8 DEF Exit, DeleteRow
<1>9. ASSUME NEW p \in Procs, ReleaseDec(p) PROVE NoRowNoCount'
  BY <1>9 DEF ReleaseDec, DeleteRow
<1>10. ASSUME NEW p \in Procs, ReleaseCheck(p) PROVE NoRowNoCount'
  BY <1>10 DEF ReleaseCheck, DeleteRow
<1>11. ASSUME NEW p \in Procs, ReleaseDelete(p) PROVE NoRowNoCount'
  BY <1>11 DEF ReleaseDelete, DeleteRow
<1>12. ASSUME NEW p \in Procs, ReleaseUnlink(p) PROVE NoRowNoCount'
  BY <1>12 DEF ReleaseUnlink, DeleteRow
<1>13. ASSUME NEW p \in Procs, GcUnlink(p) PROVE NoRowNoCount'
  BY <1>13 DEF GcUnlink, DeleteRow
<1>14. ASSUME NEW p \in Procs, GcDelete(p) PROVE NoRowNoCount'
  BY <1>14 DEF GcDelete, DeleteRow
<1>15. ASSUME NEW p \in Procs, GcDone(p) PROVE NoRowNoCount'
  BY <1>15 DEF GcDone, DeleteRow
<1>16. ASSUME NEW p \in Procs, Abort(p) PROVE NoRowNoCount'
  BY <1>16 DEF Abort, DeleteRow
<1>17. ASSUME NEW p \in Procs, NEW s \in Shas, NEW k \in Kinds, BeginPut(p, s, k) PROVE NoRowNoCount'
  BY <1>17 DEF BeginPut, DeleteRow
<1>18. ASSUME NEW p \in Procs, NEW s \in Shas, BeginRelease(p, s) PROVE NoRowNoCount'
  BY <1>18 DEF BeginRelease, DeleteRow
<1>19. ASSUME NEW p \in Procs, BeginGc(p) PROVE NoRowNoCount'
  BY <1>19 DEF BeginGc, DeleteRow
<1>20. CASE UNCHANGED vars
  BY <1>20 DEF vars, DeleteRow
<1>21. QED
  BY <1>1, <1>2, <1>3, <1>4, <1>5, <1>6, <1>7, <1>8, <1>9, <1>10,
     <1>11, <1>12, <1>13, <1>14, <1>15, <1>16, <1>17, <1>18, <1>19, <1>20
     DEF Next, Step

\* An operation keeps its kind until it ends.
LEMMA StepKeepsOp ==
  ASSUME NEW p \in Procs, call \in [Procs -> Calls], Step(p) \/ Abort(p)
  PROVE  \A q \in Procs : call'[q].op \in {call[q].op, "none"}
<1>. DEFINE Kept == \A q \in Procs : call'[q].op \in {call[q].op, "none"}
<1>. USE DEF Calls
<1>0. ASSUME UNCHANGED call \/ call' = [call EXCEPT ![p] = NoCall] PROVE Kept
  BY <1>0 DEF NoCall
<1>1. ASSUME PutCount(p) PROVE Kept
  BY <1>1, <1>0 DEF PutCount
<1>2. ASSUME PutBump(p) PROVE Kept
  BY <1>2, <1>0 DEF PutBump
<1>3. ASSUME PutCreate(p) PROVE Kept
  BY <1>3, <1>0 DEF PutCreate
<1>4. ASSUME PutWrite(p) PROVE Kept
  BY <1>4, <1>0 DEF PutWrite
<1>5. ASSUME PutRename(p) PROVE Kept
  BY <1>5, <1>0 DEF PutRename, Leave
<1>6. ASSUME PutInsert(p) PROVE Kept
  BY <1>6, <1>0 DEF PutInsert, Leave
<1>7. ASSUME PutRecord(p) PROVE Kept
  BY <1>7, <1>0 DEF PutRecord, Leave
<1>8. ASSUME Exit(p) PROVE Kept
  BY <1>8, <1>0 DEF Exit
<1>9. ASSUME ReleaseDec(p) PROVE Kept
  BY <1>9, <1>0 DEF ReleaseDec
<1>10. ASSUME ReleaseCheck(p) PROVE Kept
  BY <1>10, <1>0 DEF ReleaseCheck, Leave
<1>11. ASSUME ReleaseDelete(p) PROVE Kept
  BY <1>11, <1>0 DEF ReleaseDelete, Leave
<1>12. ASSUME ReleaseUnlink(p) PROVE Kept
  BY <1>12, <1>0 DEF ReleaseUnlink
<1>13. ASSUME GcUnlink(p) PROVE Kept
  <2>1. PICK s : call' = [call EXCEPT ![p].sha = s]
    BY <1>13 DEF GcUnlink
  <2>. QED
    BY <2>1
<1>14. ASSUME GcDelete(p) PROVE Kept
  <2>1. CASE call' = [call EXCEPT ![p].sha = NoSha, ![p].todo = @ \ {call[p].sha}]
    BY <2>1
  <2>. QED
    BY <1>14, <1>0, <2>1 DEF GcDelete, Leave
<1>15. ASSUME GcDone(p) PROVE Kept
  BY <1>15, <1>0 DEF GcDone, Leave
<1>16. ASSUME Abort(p) PROVE Kept
  BY <1>16, <1>0 DEF Abort, Leave
<1>. QED
  BY <1>1, <1>2, <1>3, <1>4, <1>5, <1>6, <1>7, <1>8,
     <1>9, <1>10, <1>11, <1>12, <1>13, <1>14, <1>15, <1>16 DEF Step

LEMMA ExcludedStep ==
  TypeOK /\ PutsApart /\ Excluded /\ [Next]_vars => Excluded'
<1> SUFFICES ASSUME TypeOK, PutsApart, Excluded, [Next]_vars PROVE Excluded'
  OBVIOUS
<1>1. call \in [Procs -> Calls]
  BY DEF TypeOK, CallsOK
<1>2. ASSUME NEW p \in Procs, Step(p) \/ Abort(p) PROVE Excluded'
  <2>1. \A q \in Procs : call'[q].op \in {call[q].op, "none"}
    BY <1>1, <1>2, StepKeepsOp
  <2>. QED
    BY <2>1 DEF Excluded
<1>. USE DEF TypeOK, CallsOK, Calls, Excluded
<1>3. ASSUME NEW p \in Procs, NEW s \in Shas, NEW k \in Kinds, BeginPut(p, s, k) PROVE Excluded'
  BY <1>3 DEF BeginPut, MayStart, PutsApart, Ops
<1>4. ASSUME NEW p \in Procs, NEW s \in Shas, BeginRelease(p, s) PROVE Excluded'
  BY <1>4 DEF BeginRelease, MayStart, PutsApart, Ops
<1>5. ASSUME NEW p \in Procs, BeginGc(p) PROVE Excluded'
  BY <1>5 DEF BeginGc, MayStart, PutsApart, Ops
<1>6. CASE UNCHANGED vars
  BY <1>6 DEF vars
<1>7. QED
  BY <1>2, <1>3, <1>4, <1>5, <1>6 DEF Next

\* A put that has seen the row of its content still finds it.
LEMMA BumpStep ==
  TypeOK /\ Linked /\ Excluded /\ BumpHasRow /\ [Next]_vars => BumpHasRow'
<1> SUFFICES ASSUME TypeOK, Linked, Excluded, BumpHasRow, [Next]_vars PROVE BumpHasRow'
  OBVIOUS
<1>. USE DEF TypeOK, CallsOK, Calls, BumpHasRow, Goto, store
<1>1. ASSUME NEW p \in Procs, PutCount(p) PROVE BumpHasRow'
  BY <1>1 DEF PutCount, Leave
<1>2. ASSUME NEW p \in Procs, PutBump(p) PROVE BumpHasRow'
  BY <1>2 DEF PutBump, Leave
<1>3. ASSUME NEW p \in Procs, PutCreate(p) PROVE BumpHasRow'
  BY <1>3 DEF PutCreate, Leave
<1>4. ASSUME NEW p \in Procs, PutWrite(p) PROVE BumpHasRow'
  BY <1>4 DEF PutWrite, Leave
<1>5. ASSUME NEW p \in Procs, PutRename(p) PROVE BumpHasRow'
  <2>1. /\ rows \subseteq rows'
        /\ \A q \in Procs : pc'[q] = "bump" => pc[q] = "bump" /\ call'[q] = call[q]
    BY <1>5 DEF PutRename, Leave
  <2>2. QED
    BY <2>1
<1>6. ASSUME NEW p \in Procs, PutInsert(p) PROVE BumpHasRow'
  <2>1. /\ rows \subseteq rows'
        /\ \A q \in Procs : pc'[q] = "bump" => pc[q] = "bump" /\ call'[q] = call[q]
    BY <1>6 DEF PutInsert, Leave
  <2>2. QED
    BY <2>1
<1>7. ASSUME NEW p \in Procs, PutRecord(p) PROVE BumpHasRow'
  <2>1. /\ rows \subseteq rows'
        /\ \A q \in Procs : pc'[q] = "bump" => pc[q] = "bump" /\ call'[q] = call[q]
    BY <1>7 DEF PutRecord, Leave
  <2>2. QED
    BY <2>1
<1>8. ASSUME NEW p \in Procs, Exit(p) PROVE BumpHasRow'
  BY <1>8 DEF Exit, Leave
<1>9. ASSUME NEW p \in Procs, ReleaseDec(p) PROVE BumpHasRow'
  BY <1>9 DEF ReleaseDec, Leave
<1>10. ASSUME NEW p \in Procs, ReleaseCheck(p) PROVE BumpHasRow'
  <2>1. /\ rows \subseteq rows'
        /\ \A q \in Procs : pc'[q] = "bump" => pc[q] = "bump" /\ call'[q] = call[q]
    BY <1>10 DEF ReleaseCheck, Leave
  <2>2. QED
    BY <2>1
<1>11. ASSUME NEW p \in Procs, ReleaseDelete(p) PROVE BumpHasRow'
  <2>1. \A q \in Procs : pc[q] # "bump"
    BY <1>11 DEF ReleaseDelete, Linked, Excluded, PutSteps, ReleaseSteps, GcSteps
  <2>2. \A q \in Procs : pc'[q] # "bump"
    BY <1>11, <2>1 DEF ReleaseDelete, Leave
  <2>3. QED
    BY <2>2
<1>12. ASSUME NEW p \in Procs, ReleaseUnlink(p) PROVE BumpHasRow'
  BY <1>12 DEF ReleaseUnlink, Leave
<1>13. ASSUME NEW p \in Procs, GcUnlink(p) PROVE BumpHasRow'
  <2>1. /\ rows \subseteq rows'
        /\ \A q \in Procs : pc'[q] = "bump" => pc[q] = "bump" /\ call'[q] = call[q]
    BY <1>13 DEF GcUnlink, Leave
  <2>2. QED
    BY <2>1
<1>14. ASSUME NEW p \in Procs, GcDelete(p) PROVE BumpHasRow'
  <2>1. \A q \in Procs : pc[q] # "bump"
    BY <1>14 DEF GcDelete, Linked, Excluded, PutSteps, ReleaseSteps, GcSteps
  <2>2. \A q \in Procs : pc'[q] # "bump"
    BY <1>14, <2>1 DEF GcDelete, Leave
  <2>3. QED
    BY <2>2
<1>15. ASSUME NEW p \in Procs, GcDone(p) PROVE BumpHasRow'
  <2>1. /\ rows \subseteq rows'
        /\ \A q \in Procs : pc'[q] = "bump" => pc[q] = "bump" /\ call'[q] = call[q]
    BY <1>15 DEF GcDone, Leave
  <2>2. QED
    BY <2>1
<1>16. ASSUME NEW p \in Procs, Abort(p) PROVE BumpHasRow'
  <2>1. /\ rows \subseteq rows'
        /\ \A q \in Procs : pc'[q] = "bump" => pc[q] = "bump" /\ call'[q] = call[q]
    BY <1>16 DEF Abort, Leave
  <2>2. QED
    BY <2>1
<1>17. ASSUME NEW p \in Procs, NEW s \in Shas, NEW k \in Kinds, BeginPut(p, s, k) PROVE BumpHasRow'
  <2>1. /\ rows \subseteq rows'
        /\ \A q \in Procs : pc'[q] = "bump" => pc[q] = "bump" /\ call'[q] = call[q]
    BY <1>17 DEF BeginPut, Leave
  <2>2. QED
    BY <2>1
<1>18. ASSUME NEW p \in Procs, NEW s \in Shas, BeginRelease(p, s) PROVE BumpHasRow'
  <2>1. /\ rows \subseteq rows'
        /\ \A q \in Procs : pc'[q] = "bump" => pc[q] = "bump" /\ call'[q] = call[q]
    BY <1>18 DEF BeginRelease, Leave
  <2>2. QED
    BY <2>1
<1>19. ASSUME NEW p \in Procs, BeginGc(p) PROVE BumpHasRow'
  <2>1. /\ rows \subseteq rows'
        /\ \A q \in Procs : pc'[q] = "bump" => pc[q] = "bump" /\ call'[q] = call[q]
    BY <1>19 DEF BeginGc, Leave
  <2>2. QED
    BY <2>1
<1>20. CASE UNCHANGED vars
  BY <1>20 DEF vars, Leave
<1>21. QED
  BY <1>1, <1>2, <1>3, <1>4, <1>5, <1>6, <1>7, <1>8, <1>9, <1>10,
     <1>11, <1>12, <1>13, <1>14, <1>15, <1>16, <1>17, <1>18, <1>19, <1>20
     DEF Next, Step

\* Counts rise only by puts, so what a release or a sweep has found at zero is
\* still at zero when it deletes.
LEMMA ZeroStep ==
  TypeOK /\ Linked /\ Excluded /\ DeleteAtZero /\ SweepAtZero /\ [Next]_vars
    => DeleteAtZero' /\ SweepAtZero'
<1> SUFFICES ASSUME TypeOK, Linked, Excluded, DeleteAtZero, SweepAtZero, [Next]_vars
             PROVE  DeleteAtZero' /\ SweepAtZero'
  OBVIOUS
<1>. USE DEF TypeOK, CallsOK, Calls, Goto
<1>a. ASSUME \A s \in Shas : refCount[s] = 0 => refCount'[s] = 0,
             \A q \in Procs : pc'[q] \in {"delete"} \cup GcSteps =>
                                pc'[q] = pc[q] /\ call'[q] = call[q]
      PROVE  DeleteAtZero' /\ SweepAtZero'
  <2>1. DeleteAtZero'
    BY <1>a DEF DeleteAtZero, OnContent, ReleaseSteps
  <2>2. SweepAtZero'
    BY <1>a DEF SweepAtZero, GcSteps
  <2>3. QED
    BY <2>1, <2>2
<1>1. ASSUME NEW p \in Procs, PutCount(p) PROVE DeleteAtZero' /\ SweepAtZero'
  <2>1. \A s \in Shas : refCount[s] = 0 => refCount'[s] = 0
    BY <1>1 DEF PutCount, DeleteRow, store
  <2>2. \A q \in Procs : pc'[q] \in {"delete"} \cup GcSteps =>
                           pc'[q] = pc[q] /\ call'[q] = call[q]
    BY <1>1 DEF PutCount, Leave, GcSteps
  <2>3. QED
    BY <1>a, <2>1, <2>2
<1>2. ASSUME NEW p \in Procs, PutBump(p) PROVE DeleteAtZero' /\ SweepAtZero'
  <2>1. \A q \in Procs : pc[q] \notin {"delete"} \cup GcSteps
    BY <1>2 DEF PutBump, Linked, Excluded, PutSteps, ReleaseSteps
  <2>2. \A q \in Procs : pc'[q] \notin {"delete"} \cup GcSteps
    BY <1>2, <2>1 DEF PutBump, Leave, GcSteps
  <2>3. QED
    BY <2>2 DEF DeleteAtZero, SweepAtZero, GcSteps
<1>3. ASSUME NEW p \in Procs, PutCreate(p) PROVE DeleteAtZero' /\ SweepAtZero'
  <2>1. \A s \in Shas : refCount[s] = 0 => refCount'[s] = 0
    BY <1>3 DEF PutCreate, DeleteRow, store
  <2>2. \A q \in Procs : pc'[q] \in {"delete"} \cup GcSteps =>
                           pc'[q] = pc[q] /\ call'[q] = call[q]
    BY <1>3 DEF PutCreate, Leave, GcSteps
  <2>3. QED
    BY <1>a, <2>1, <2>2
<1>4. ASSUME NEW p \in Procs, PutWrite(p) PROVE DeleteAtZero' /\ SweepAtZero'
  <2>1. \A s \in Shas : refCount[s] = 0 => refCount'[s] = 0
    BY <1>4 DEF PutWrite, DeleteRow, store
  <2>2. \A q \in Procs : pc'[q] \in {"delete"} \cup GcSteps =>
                           pc'[q] = pc[q] /\ call'[q] = call[q]
    BY <1>4 DEF PutWrite, Leave, GcSteps
  <2>3. QED
    BY <1>a, <2>1, <2>2
<1>5. ASSUME NEW p \in Procs, PutRename(p) PROVE DeleteAtZero' /\ SweepAtZero'
  <2>1. \A s \in Shas : refCount[s] = 0 => refCount'[s] = 0
    BY <1>5 DEF PutRename, DeleteRow, store
  <2>2. \A q \in Procs : pc'[q] \in {"delete"} \cup GcSteps =>
                           pc'[q] = pc[q] /\ call'[q] = call[q]
    BY <1>5 DEF PutRename, Leave, GcSteps
  <2>3. QED
    BY <1>a, <2>1, <2>2
<1>6. ASSUME NEW p \in Procs, PutInsert(p) PROVE DeleteAtZero' /\ SweepAtZero'
  <2>1. \A q \in Procs : pc[q] \notin {"delete"} \cup GcSteps
    BY <1>6 DEF PutInsert, Linked, Excluded, PutSteps, ReleaseSteps
  <2>2. \A q \in Procs : pc'[q] \notin {"delete"} \cup GcSteps
    BY <1>6, <2>1 DEF PutInsert, Leave, GcSteps
  <2>3. QED
    BY <2>2 DEF DeleteAtZero, SweepAtZero, GcSteps
<1>7. ASSUME NEW p \in Procs, PutRecord(p) PROVE DeleteAtZero' /\ SweepAtZero'
  <2>1. \A s \in Shas : refCount[s] = 0 => refCount'[s] = 0
    BY <1>7 DEF PutRecord, DeleteRow, store
  <2>2. \A q \in Procs : pc'[q] \in {"delete"} \cup GcSteps =>
                           pc'[q] = pc[q] /\ call'[q] = call[q]
    BY <1>7 DEF PutRecord, Leave, GcSteps
  <2>3. QED
    BY <1>a, <2>1, <2>2
<1>8. ASSUME NEW p \in Procs, Exit(p) PROVE DeleteAtZero' /\ SweepAtZero'
  <2>1. \A s \in Shas : refCount[s] = 0 => refCount'[s] = 0
    BY <1>8 DEF Exit, DeleteRow, store
  <2>2. \A q \in Procs : pc'[q] \in {"delete"} \cup GcSteps =>
                           pc'[q] = pc[q] /\ call'[q] = call[q]
    BY <1>8 DEF Exit, Leave, GcSteps
  <2>3. QED
    BY <1>a, <2>1, <2>2
<1>9. ASSUME NEW p \in Procs, ReleaseDec(p) PROVE DeleteAtZero' /\ SweepAtZero'
  <2>1. \A s \in Shas : refCount[s] = 0 => refCount'[s] = 0
    BY <1>9 DEF ReleaseDec, DeleteRow, store
  <2>2. \A q \in Procs : pc'[q] \in {"delete"} \cup GcSteps =>
                           pc'[q] = pc[q] /\ call'[q] = call[q]
    BY <1>9 DEF ReleaseDec, Leave, GcSteps
  <2>3. QED
    BY <1>a, <2>1, <2>2
<1>10. ASSUME NEW p \in Procs, ReleaseCheck(p) PROVE DeleteAtZero' /\ SweepAtZero'
  <2>1. UNCHANGED refCount
    BY <1>10 DEF ReleaseCheck, store
  <2>2. \A q \in Procs \ {p} : pc'[q] = pc[q] /\ call'[q] = call[q]
    BY <1>10 DEF ReleaseCheck, Leave
  <2>3. /\ pc'[p] = "delete" => refCount[call[p].sha] = 0 /\ call'[p] = call[p]
        /\ pc'[p] \notin GcSteps
    BY <1>10 DEF ReleaseCheck, Leave, GcSteps
  <2>4. DeleteAtZero'
    BY <2>1, <2>2, <2>3 DEF DeleteAtZero
  <2>5. SweepAtZero'
    BY <2>1, <2>2, <2>3 DEF SweepAtZero, GcSteps
  <2>6. QED
    BY <2>4, <2>5
<1>11. ASSUME NEW p \in Procs, ReleaseDelete(p) PROVE DeleteAtZero' /\ SweepAtZero'
  <2>1. \A s \in Shas : refCount[s] = 0 => refCount'[s] = 0
    BY <1>11 DEF ReleaseDelete, DeleteRow, store
  <2>2. \A q \in Procs : pc'[q] \in {"delete"} \cup GcSteps =>
                           pc'[q] = pc[q] /\ call'[q] = call[q]
    BY <1>11 DEF ReleaseDelete, Leave, GcSteps
  <2>3. QED
    BY <1>a, <2>1, <2>2
<1>12. ASSUME NEW p \in Procs, ReleaseUnlink(p) PROVE DeleteAtZero' /\ SweepAtZero'
  <2>1. \A s \in Shas : refCount[s] = 0 => refCount'[s] = 0
    BY <1>12 DEF ReleaseUnlink, DeleteRow, store
  <2>2. \A q \in Procs : pc'[q] \in {"delete"} \cup GcSteps =>
                           pc'[q] = pc[q] /\ call'[q] = call[q]
    BY <1>12 DEF ReleaseUnlink, Leave, GcSteps
  <2>3. QED
    BY <1>a, <2>1, <2>2
<1>13. ASSUME NEW p \in Procs, GcUnlink(p) PROVE DeleteAtZero' /\ SweepAtZero'
  <2>1. PICK s \in call[p].todo : call' = [call EXCEPT ![p].sha = s]
    BY <1>13 DEF GcUnlink
  <2>2. /\ UNCHANGED refCount
        /\ \A q \in Procs \ {p} : pc'[q] = pc[q] /\ call'[q] = call[q]
        /\ pc[p] = "sweep" /\ pc'[p] = "sweepDelete"
        /\ call'[p].sha = s /\ call'[p].todo = call[p].todo
    BY <1>13, <2>1 DEF GcUnlink, store
  <2>3. DeleteAtZero'
    BY <2>2 DEF DeleteAtZero
  <2>4. SweepAtZero'
    BY <2>2 DEF SweepAtZero, GcSteps
  <2>5. QED
    BY <2>3, <2>4
<1>14. ASSUME NEW p \in Procs, GcDelete(p) PROVE DeleteAtZero' /\ SweepAtZero'
  <2>1. \A s \in Shas : refCount[s] = 0 => refCount'[s] = 0
    BY <1>14 DEF GcDelete, DeleteRow, store
  <2>2. /\ \A q \in Procs \ {p} : pc'[q] = pc[q] /\ call'[q] = call[q]
        /\ pc[p] = "sweepDelete" /\ pc'[p] \in {"sweep", "idle"}
        /\ call'[p].todo \subseteq call[p].todo /\ call[p].todo \subseteq Shas
    BY <1>14 DEF GcDelete, Leave, NoCall
  <2>3. DeleteAtZero'
    BY <2>1, <2>2 DEF DeleteAtZero, OnContent, ReleaseSteps
  <2>4. SweepAtZero'
    BY <2>1, <2>2 DEF SweepAtZero, GcSteps
  <2>5. QED
    BY <2>3, <2>4
<1>15. ASSUME NEW p \in Procs, GcDone(p) PROVE DeleteAtZero' /\ SweepAtZero'
  <2>1. \A s \in Shas : refCount[s] = 0 => refCount'[s] = 0
    BY <1>15 DEF GcDone, DeleteRow, store
  <2>2. \A q \in Procs : pc'[q] \in {"delete"} \cup GcSteps =>
                           pc'[q] = pc[q] /\ call'[q] = call[q]
    BY <1>15 DEF GcDone, Leave, GcSteps
  <2>3. QED
    BY <1>a, <2>1, <2>2
<1>16. ASSUME NEW p \in Procs, Abort(p) PROVE DeleteAtZero' /\ SweepAtZero'
  <2>1. \A s \in Shas : refCount[s] = 0 => refCount'[s] = 0
    BY <1>16 DEF Abort, DeleteRow, store
  <2>2. \A q \in Procs : pc'[q] \in {"delete"} \cup GcSteps =>
                           pc'[q] = pc[q] /\ call'[q] = call[q]
    BY <1>16 DEF Abort, Leave, GcSteps
  <2>3. QED
    BY <1>a, <2>1, <2>2
<1>17. ASSUME NEW p \in Procs, NEW s \in Shas, NEW k \in Kinds, BeginPut(p, s, k) PROVE DeleteAtZero' /\ SweepAtZero'
  <2>1. \A c \in Shas : refCount[c] = 0 => refCount'[c] = 0
    BY <1>17 DEF BeginPut, DeleteRow, store
  <2>2. \A q \in Procs : pc'[q] \in {"delete"} \cup GcSteps =>
                           pc'[q] = pc[q] /\ call'[q] = call[q]
    BY <1>17 DEF BeginPut, Leave, GcSteps
  <2>3. QED
    BY <1>a, <2>1, <2>2
<1>18. ASSUME NEW p \in Procs, NEW s \in Shas, BeginRelease(p, s) PROVE DeleteAtZero' /\ SweepAtZero'
  <2>1. \A c \in Shas : refCount[c] = 0 => refCount'[c] = 0
    BY <1>18 DEF BeginRelease, DeleteRow, store
  <2>2. \A q \in Procs : pc'[q] \in {"delete"} \cup GcSteps =>
                           pc'[q] = pc[q] /\ call'[q] = call[q]
    BY <1>18 DEF BeginRelease, Leave, GcSteps
  <2>3. QED
    BY <1>a, <2>1, <2>2
<1>19. ASSUME NEW p \in Procs, BeginGc(p) PROVE DeleteAtZero' /\ SweepAtZero'
  <2>1. /\ UNCHANGED refCount
        /\ \A q \in Procs \ {p} : pc'[q] = pc[q] /\ call'[q] = call[q]
        /\ pc'[p] = "sweep" /\ call'[p].todo = Unreferenced
    BY <1>19 DEF BeginGc, store
  <2>2. DeleteAtZero'
    BY <2>1 DEF DeleteAtZero
  <2>3. SweepAtZero'
    BY <2>1 DEF SweepAtZero, Unreferenced
  <2>4. QED
    BY <2>2, <2>3
<1>20. CASE UNCHANGED vars
  <2>1. \A s \in Shas : refCount[s] = 0 => refCount'[s] = 0
    BY <1>20 DEF vars, DeleteRow, store
  <2>2. \A q \in Procs : pc'[q] \in {"delete"} \cup GcSteps =>
                           pc'[q] = pc[q] /\ call'[q] = call[q]
    BY <1>20 DEF vars, Leave, GcSteps
  <2>3. QED
    BY <1>a, <2>1, <2>2
<1>21. QED
  BY <1>1, <1>2, <1>3, <1>4, <1>5, <1>6, <1>7, <1>8, <1>9, <1>10,
     <1>11, <1>12, <1>13, <1>14, <1>15, <1>16, <1>17, <1>18, <1>19, <1>20
     DEF Next, Step

-----------------------------------------------------------------------------
(* The processes in flight, counted.                                       *)

LEMMA FlightFinite ==
  ASSUME NEW s
  PROVE  IsFiniteSet(InFlight(s)) /\ Cardinality(InFlight(s)) \in Nat
<1>1. IsFiniteSet(InFlight(s))
  BY ProcsAssumption, FS_Subset DEF InFlight
<1>2. QED
  BY <1>1, FS_CardinalityType

LEMMA FlightFiniteNext ==
  ASSUME NEW s
  PROVE  IsFiniteSet(InFlight(s)') /\ Cardinality(InFlight(s)') \in Nat
<1>1. IsFiniteSet(InFlight(s)')
  BY ProcsAssumption, FS_Subset DEF InFlight
<1>2. QED
  BY <1>1, FS_CardinalityType

\* Process p enters the flight of s, and no other flight changes.
LEMMA EnterFlight ==
  ASSUME NEW p \in Procs, NEW s, p \notin InFlight(s),
         InFlight(s)' = InFlight(s) \cup {p}
  PROVE  Cardinality(InFlight(s)') = Cardinality(InFlight(s)) + 1
  BY FlightFinite, FS_AddElement

LEMMA LeaveFlight ==
  ASSUME NEW p \in Procs, NEW s, p \in InFlight(s),
         InFlight(s)' = InFlight(s) \ {p}
  PROVE  Cardinality(InFlight(s)') = Cardinality(InFlight(s)) - 1
  BY FlightFinite, FS_RemoveElement

LEMMA ShrinkFlight ==
  ASSUME NEW s, InFlight(s)' \subseteq InFlight(s)
  PROVE  Cardinality(InFlight(s)') <= Cardinality(InFlight(s))
  BY FlightFinite, FS_Subset

\* A step that takes nobody into a flight, no owner more and no count away.
LEMMA StayCounted ==
  ASSUME TypeOK, TypeOK', Counted,
         \A s \in Shas : /\ Refs(s)' <= Refs(s)
                          /\ refCount'[s] >= refCount[s]
                          /\ InFlight(s)' \subseteq InFlight(s)
  PROVE  Counted'
<1> SUFFICES ASSUME NEW s \in Shas
             PROVE  Refs(s)' + Cardinality(InFlight(s)') <= refCount'[s]
  BY DEF Counted
<1>1. Cardinality(InFlight(s)') <= Cardinality(InFlight(s))
  BY ShrinkFlight
<1>2. /\ Refs(s) \in Nat /\ Refs(s)' \in Nat
      /\ refCount[s] \in Nat /\ refCount'[s] \in Nat
  BY DEF TypeOK, Refs
<1>3. QED
  BY <1>1, <1>2, FlightFinite, FlightFiniteNext DEF Counted

LEMMA CountedStep ==
  /\ TypeOK /\ TypeOK' /\ NoRowNoCount /\ BumpHasRow /\ DeleteAtZero /\ SweepAtZero
  /\ Counted /\ [Next]_vars
  => Counted'
<1> SUFFICES ASSUME TypeOK, TypeOK', NoRowNoCount, BumpHasRow, DeleteAtZero, SweepAtZero,
                    Counted, [Next]_vars
             PROVE  Counted'
  OBVIOUS
<1>a. /\ pc \in [Procs -> Busy \cup {"idle", "failed"}] /\ call \in [Procs -> Calls]
      /\ refCount \in [Shas -> Nat] /\ holders \in [Shas -> Nat] /\ samples \in [Shas -> Nat]
      /\ \A p \in Procs : pc[p] \in OnContent => call[p].sha \in Shas
  BY DEF TypeOK, CallsOK
<1>b. \A s \in Shas : /\ Refs(s) \in Nat /\ Cardinality(InFlight(s)) \in Nat
                       /\ Refs(s) + Cardinality(InFlight(s)) <= refCount[s]
  BY <1>a, FlightFinite DEF Counted, Refs
<1>1. ASSUME NEW p \in Procs, PutCount(p) PROVE Counted'
  <2>1. \A s \in Shas : InFlight(s)' \subseteq InFlight(s)
    BY <1>1, <1>a DEF PutCount, InFlight, Leave, Goto, NoCall, Calls
  <2>2. \A s \in Shas : Refs(s)' = Refs(s) /\ refCount'[s] = refCount[s]
    BY <1>1, <1>a DEF PutCount, Refs, store, owners
  <2>3. QED
    BY <1>a, <1>b, <2>1, <2>2, StayCounted
<1>2. ASSUME NEW p \in Procs, PutBump(p) PROVE Counted'
  <2> DEFINE t == call[p].sha
  <2>1. /\ t \in Shas /\ t \in rows
        /\ refCount' = [refCount EXCEPT ![t] = @ + 1] /\ UNCHANGED <<holders, samples>>
    BY <1>2, <1>a DEF PutBump, BumpHasRow, OnContent, PutSteps, owners
  <2>2. /\ p \notin InFlight(t)
        /\ \A s \in Shas : InFlight(s)' = IF s = t THEN InFlight(s) \cup {p} ELSE InFlight(s)
    BY <1>2, <1>a DEF PutBump, InFlight, Goto
  <2>3. QED
    BY <1>a, <1>b, <2>1, <2>2, EnterFlight DEF Counted, Refs
<1>3. ASSUME NEW p \in Procs, PutCreate(p) PROVE Counted'
  <2>1. \A s \in Shas : InFlight(s)' \subseteq InFlight(s)
    BY <1>3, <1>a DEF PutCreate, InFlight, Leave, Goto, NoCall, Calls
  <2>2. \A s \in Shas : Refs(s)' = Refs(s) /\ refCount'[s] = refCount[s]
    BY <1>3, <1>a DEF PutCreate, Refs, store, owners
  <2>3. QED
    BY <1>a, <1>b, <2>1, <2>2, StayCounted
<1>4. ASSUME NEW p \in Procs, PutWrite(p) PROVE Counted'
  <2>1. \A s \in Shas : InFlight(s)' \subseteq InFlight(s)
    BY <1>4, <1>a DEF PutWrite, InFlight, Leave, Goto, NoCall, Calls
  <2>2. \A s \in Shas : Refs(s)' = Refs(s) /\ refCount'[s] = refCount[s]
    BY <1>4, <1>a DEF PutWrite, Refs, store, owners
  <2>3. QED
    BY <1>a, <1>b, <2>1, <2>2, StayCounted
<1>5. ASSUME NEW p \in Procs, PutRename(p) PROVE Counted'
  <2>1. \A s \in Shas : InFlight(s)' \subseteq InFlight(s)
    BY <1>5, <1>a DEF PutRename, InFlight, Leave, Goto, NoCall, Calls
  <2>2. \A s \in Shas : Refs(s)' = Refs(s) /\ refCount'[s] = refCount[s]
    BY <1>5, <1>a DEF PutRename, Refs, store, owners
  <2>3. QED
    BY <1>a, <1>b, <2>1, <2>2, StayCounted
<1>6. ASSUME NEW p \in Procs, PutInsert(p) PROVE Counted'
  <2> DEFINE t == call[p].sha
  <2>1. t \in Shas
    BY <1>6, <1>a DEF PutInsert, OnContent, PutSteps
  <2>2. CASE t \notin rows
    <3>1. refCount[t] = 0 /\ refCount' = [refCount EXCEPT ![t] = 1]
      BY <1>6, <2>1, <2>2 DEF PutInsert, NoRowNoCount
    <3>2. /\ p \notin InFlight(t)
          /\ \A s \in Shas : InFlight(s)' = IF s = t THEN InFlight(s) \cup {p} ELSE InFlight(s)
      BY <1>6, <2>2, <1>a DEF PutInsert, InFlight, Goto
    <3>3. UNCHANGED <<holders, samples>>
      BY <1>6 DEF PutInsert, owners
    <3>4. QED
      BY <1>a, <1>b, <2>1, <3>1, <3>2, <3>3, EnterFlight DEF Counted, Refs
  <2>3. CASE t \in rows
    <3>1. \A s \in Shas : InFlight(s)' \subseteq InFlight(s)
      BY <1>6, <2>3, <1>a DEF PutInsert, InFlight, Leave, Goto, NoCall, Calls
    <3>2. \A s \in Shas : Refs(s)' = Refs(s) /\ refCount'[s] = refCount[s]
      BY <1>6, <2>3, <1>a DEF PutInsert, Refs, store, owners
    <3>3. QED
      BY <1>a, <1>b, <3>1, <3>2, StayCounted
  <2>4. QED
    BY <2>2, <2>3
<1>7. ASSUME NEW p \in Procs, PutRecord(p) PROVE Counted'
  <2> DEFINE t == call[p].sha
  <2>1. t \in Shas /\ t # NoSha
    BY <1>7, <1>a, ShasAssumption DEF PutRecord, OnContent, PutSteps
  <2>2. /\ p \in InFlight(t)
        /\ \A s \in Shas : InFlight(s)' = IF s = t THEN InFlight(s) \ {p} ELSE InFlight(s)
    BY <1>7, <1>a, <2>1 DEF PutRecord, InFlight, Leave, Goto, NoCall
  <2>3. /\ UNCHANGED refCount
        /\ \A s \in Shas : Refs(s)' <= IF s = t THEN Refs(s) + 1 ELSE Refs(s)
        /\ \A s \in Shas : Refs(s)' \in Nat
    BY <1>7, <1>a, <2>1 DEF PutRecord, Refs, store
  <2>4. QED
    BY <1>a, <1>b, <2>1, <2>2, <2>3, LeaveFlight DEF Counted
<1>8. ASSUME NEW p \in Procs, Exit(p) PROVE Counted'
  <2>1. \A s \in Shas : InFlight(s)' \subseteq InFlight(s)
    BY <1>8, <1>a DEF Exit, InFlight, Leave, Goto, NoCall, Calls
  <2>2. \A s \in Shas : Refs(s)' = Refs(s) /\ refCount'[s] = refCount[s]
    BY <1>8, <1>a DEF Exit, Refs, store, owners
  <2>3. QED
    BY <1>a, <1>b, <2>1, <2>2, StayCounted
<1>9. ASSUME NEW p \in Procs, ReleaseDec(p) PROVE Counted'
  <2>1. PICK t \in Shas : t = call[p].sha
    BY <1>9, <1>a DEF ReleaseDec, OnContent, ReleaseSteps
  <2>2. /\ p \in InFlight(t)
        /\ \A s \in Shas : InFlight(s)' = IF s = t THEN InFlight(s) \ {p} ELSE InFlight(s)
    BY <1>9, <1>a, <2>1 DEF ReleaseDec, InFlight, Goto
  <2>3. /\ refCount' = [refCount EXCEPT ![t] = IF @ > 0 THEN @ - 1 ELSE @]
        /\ UNCHANGED <<holders, samples>>
    BY <1>9, <2>1 DEF ReleaseDec, owners
  <2>4. Cardinality(InFlight(t)') = Cardinality(InFlight(t)) - 1
    BY <2>1, <2>2, LeaveFlight
  <2>5. Cardinality(InFlight(t)') \in Nat
    BY FlightFiniteNext
  <2>6. refCount[t] > 0
    BY <1>a, <1>b, <2>1, <2>4, <2>5
  <2>7. QED
    BY <1>a, <1>b, <2>1, <2>2, <2>3, <2>4, <2>6 DEF Counted, Refs
<1>10. ASSUME NEW p \in Procs, ReleaseCheck(p) PROVE Counted'
  <2>1. \A s \in Shas : InFlight(s)' \subseteq InFlight(s)
    BY <1>10, <1>a DEF ReleaseCheck, InFlight, Leave, Goto, NoCall, Calls
  <2>2. \A s \in Shas : Refs(s)' = Refs(s) /\ refCount'[s] = refCount[s]
    BY <1>10, <1>a DEF ReleaseCheck, Refs, store, owners
  <2>3. QED
    BY <1>a, <1>b, <2>1, <2>2, StayCounted
<1>11. ASSUME NEW p \in Procs, ReleaseDelete(p) PROVE Counted'
  <2>1. call[p].sha \in Shas /\ refCount[call[p].sha] = 0
    BY <1>11, <1>a DEF ReleaseDelete, DeleteAtZero, OnContent, ReleaseSteps
  <2>2. \A s \in Shas : Refs(s)' = Refs(s) /\ refCount'[s] = refCount[s]
    BY <1>11, <1>a, <2>1 DEF ReleaseDelete, DeleteRow, Refs, store, owners
  <2>3. \A s \in Shas : InFlight(s)' \subseteq InFlight(s)
    BY <1>11, <1>a DEF ReleaseDelete, InFlight, Leave, Goto, NoCall, Calls
  <2>4. QED
    BY <1>a, <1>b, <2>2, <2>3, StayCounted
<1>12. ASSUME NEW p \in Procs, ReleaseUnlink(p) PROVE Counted'
  <2>1. \A s \in Shas : InFlight(s)' \subseteq InFlight(s)
    BY <1>12, <1>a DEF ReleaseUnlink, InFlight, Leave, Goto, NoCall, Calls
  <2>2. \A s \in Shas : Refs(s)' = Refs(s) /\ refCount'[s] = refCount[s]
    BY <1>12, <1>a DEF ReleaseUnlink, Refs, store, owners
  <2>3. QED
    BY <1>a, <1>b, <2>1, <2>2, StayCounted
<1>13. ASSUME NEW p \in Procs, GcUnlink(p) PROVE Counted'
  <2>1. /\ \A q \in Procs \ {p} : pc'[q] = pc[q] /\ call'[q] = call[q]
        /\ pc'[p] = "sweepDelete"
    BY <1>13, <1>a DEF GcUnlink, Goto
  <2>2. \A s \in Shas : InFlight(s)' \subseteq InFlight(s)
    BY <2>1 DEF InFlight
  <2>3. \A s \in Shas : Refs(s)' = Refs(s) /\ refCount'[s] = refCount[s]
    BY <1>13, <1>a DEF GcUnlink, Refs, store, owners
  <2>4. QED
    BY <1>a, <1>b, <2>2, <2>3, StayCounted
<1>14. ASSUME NEW p \in Procs, GcDelete(p) PROVE Counted'
  <2>1. call[p].sha \in Shas /\ refCount[call[p].sha] = 0
    BY <1>14, <1>a DEF GcDelete, SweepAtZero, OnContent, GcSteps
  <2>2. \A s \in Shas : Refs(s)' = Refs(s) /\ refCount'[s] = refCount[s]
    BY <1>14, <1>a, <2>1 DEF GcDelete, DeleteRow, Refs, store, owners
  <2>3. \A s \in Shas : InFlight(s)' \subseteq InFlight(s)
    BY <1>14, <1>a DEF GcDelete, InFlight, Leave, Goto, NoCall, Calls
  <2>4. QED
    BY <1>a, <1>b, <2>2, <2>3, StayCounted
<1>15. ASSUME NEW p \in Procs, GcDone(p) PROVE Counted'
  <2>1. \A s \in Shas : InFlight(s)' \subseteq InFlight(s)
    BY <1>15, <1>a DEF GcDone, InFlight, Leave, Goto, NoCall, Calls
  <2>2. \A s \in Shas : Refs(s)' = Refs(s) /\ refCount'[s] = refCount[s]
    BY <1>15, <1>a DEF GcDone, Refs, store, owners
  <2>3. QED
    BY <1>a, <1>b, <2>1, <2>2, StayCounted
<1>16. ASSUME NEW p \in Procs, Abort(p) PROVE Counted'
  <2>1. \A s \in Shas : InFlight(s)' \subseteq InFlight(s)
    BY <1>16, <1>a DEF Abort, InFlight, Leave, Goto, NoCall, Calls
  <2>2. \A s \in Shas : Refs(s)' = Refs(s) /\ refCount'[s] = refCount[s]
    BY <1>16, <1>a DEF Abort, Refs, store, owners
  <2>3. QED
    BY <1>a, <1>b, <2>1, <2>2, StayCounted
<1>17. ASSUME NEW p \in Procs, NEW s \in Shas, NEW k \in Kinds, BeginPut(p, s, k) PROVE Counted'
  <2>1. \A u \in Shas : InFlight(u)' \subseteq InFlight(u)
    BY <1>17, <1>a DEF BeginPut, MayStart, InFlight, Leave, Goto, NoCall, Calls
  <2>2. \A u \in Shas : Refs(u)' = Refs(u) /\ refCount'[u] = refCount[u]
    BY <1>17, <1>a DEF BeginPut, MayStart, Refs, store, owners
  <2>3. QED
    BY <1>a, <1>b, <2>1, <2>2, StayCounted
<1>18. ASSUME NEW p \in Procs, NEW s \in Shas, BeginRelease(p, s) PROVE Counted'
  <2>1. /\ UNCHANGED <<refCount, samples>> /\ holders[s] > 0
        /\ holders' = [holders EXCEPT ![s] = @ - 1]
    BY <1>18 DEF BeginRelease, store
  <2>2. /\ p \notin InFlight(s)
        /\ \A u \in Shas : InFlight(u)' = IF u = s THEN InFlight(u) \cup {p} ELSE InFlight(u)
    BY <1>18, <1>a DEF BeginRelease, MayStart, InFlight, Goto
  <2>3. QED
    BY <1>a, <1>b, <2>1, <2>2, EnterFlight DEF Counted, Refs
<1>19. ASSUME NEW p \in Procs, BeginGc(p) PROVE Counted'
  <2>1. \A s \in Shas : InFlight(s)' \subseteq InFlight(s)
    BY <1>19, <1>a DEF BeginGc, InFlight, Leave, Goto, NoCall, Calls
  <2>2. \A s \in Shas : Refs(s)' = Refs(s) /\ refCount'[s] = refCount[s]
    BY <1>19, <1>a DEF BeginGc, Refs, store, owners
  <2>3. QED
    BY <1>a, <1>b, <2>1, <2>2, StayCounted
<1>20. CASE UNCHANGED vars
  <2>1. \A s \in Shas : InFlight(s)' \subseteq InFlight(s)
    BY <1>20, <1>a DEF vars, InFlight, Leave, Goto, NoCall, Calls
  <2>2. \A s \in Shas : Refs(s)' = Refs(s) /\ refCount'[s] = refCount[s]
    BY <1>20, <1>a DEF vars, Refs, store, owners
  <2>3. QED
    BY <1>a, <1>b, <2>1, <2>2, StayCounted
<1>21. QED
  BY <1>1, <1>2, <1>3, <1>4, <1>5, <1>6, <1>7, <1>8, <1>9, <1>10,
     <1>11, <1>12, <1>13, <1>14, <1>15, <1>16, <1>17, <1>18, <1>19, <1>20
     DEF Next, Step

-----------------------------------------------------------------------------
LEMMA InitInv == Init => IInv
<1> SUFFICES ASSUME Init PROVE IInv
  OBVIOUS
<1>1. TypeOK
  BY TypeInit
<1>2. Linked /\ NoRowNoCount /\ Excluded /\ BumpHasRow /\ DeleteAtZero /\ SweepAtZero
  BY DEF Init, Linked, NoRowNoCount, Excluded, BumpHasRow, DeleteAtZero, SweepAtZero,
         NoCall, PutSteps, ReleaseSteps, GcSteps
<1>3. \A s \in Shas : InFlight(s) = {} /\ Refs(s) = 0 /\ refCount[s] = 0
  BY DEF Init, InFlight, Refs
<1>4. Counted
  BY <1>3, FS_EmptySet DEF Counted
<1>5. QED
  BY <1>1, <1>2, <1>4 DEF IInv, Apart

LEMMA OverlapKept == [Next]_vars => UNCHANGED overlap
<1> SUFFICES ASSUME [Next]_vars PROVE UNCHANGED overlap
  OBVIOUS
<1>. USE DEF bounds
<1>1. ASSUME NEW p \in Procs, PutCount(p) PROVE UNCHANGED overlap
  BY <1>1 DEF PutCount
<1>2. ASSUME NEW p \in Procs, PutBump(p) PROVE UNCHANGED overlap
  BY <1>2 DEF PutBump
<1>3. ASSUME NEW p \in Procs, PutCreate(p) PROVE UNCHANGED overlap
  BY <1>3 DEF PutCreate
<1>4. ASSUME NEW p \in Procs, PutWrite(p) PROVE UNCHANGED overlap
  BY <1>4 DEF PutWrite
<1>5. ASSUME NEW p \in Procs, PutRename(p) PROVE UNCHANGED overlap
  BY <1>5 DEF PutRename
<1>6. ASSUME NEW p \in Procs, PutInsert(p) PROVE UNCHANGED overlap
  BY <1>6 DEF PutInsert
<1>7. ASSUME NEW p \in Procs, PutRecord(p) PROVE UNCHANGED overlap
  BY <1>7 DEF PutRecord
<1>8. ASSUME NEW p \in Procs, Exit(p) PROVE UNCHANGED overlap
  BY <1>8 DEF Exit
<1>9. ASSUME NEW p \in Procs, ReleaseDec(p) PROVE UNCHANGED overlap
  BY <1>9 DEF ReleaseDec
<1>10. ASSUME NEW p \in Procs, ReleaseCheck(p) PROVE UNCHANGED overlap
  BY <1>10 DEF ReleaseCheck
<1>11. ASSUME NEW p \in Procs, ReleaseDelete(p) PROVE UNCHANGED overlap
  BY <1>11 DEF ReleaseDelete
<1>12. ASSUME NEW p \in Procs, ReleaseUnlink(p) PROVE UNCHANGED overlap
  BY <1>12 DEF ReleaseUnlink
<1>13. ASSUME NEW p \in Procs, GcUnlink(p) PROVE UNCHANGED overlap
  BY <1>13 DEF GcUnlink
<1>14. ASSUME NEW p \in Procs, GcDelete(p) PROVE UNCHANGED overlap
  BY <1>14 DEF GcDelete
<1>15. ASSUME NEW p \in Procs, GcDone(p) PROVE UNCHANGED overlap
  BY <1>15 DEF GcDone
<1>16. ASSUME NEW p \in Procs, Abort(p) PROVE UNCHANGED overlap
  BY <1>16 DEF Abort
<1>17. ASSUME NEW p \in Procs, NEW s \in Shas, NEW k \in Kinds, BeginPut(p, s, k) PROVE UNCHANGED overlap
  BY <1>17 DEF BeginPut
<1>18. ASSUME NEW p \in Procs, NEW s \in Shas, BeginRelease(p, s) PROVE UNCHANGED overlap
  BY <1>18 DEF BeginRelease
<1>19. ASSUME NEW p \in Procs, BeginGc(p) PROVE UNCHANGED overlap
  BY <1>19 DEF BeginGc
<1>20. CASE UNCHANGED vars
  BY <1>20 DEF vars
<1>21. QED
  BY <1>1, <1>2, <1>3, <1>4, <1>5, <1>6, <1>7, <1>8, <1>9, <1>10,
     <1>11, <1>12, <1>13, <1>14, <1>15, <1>16, <1>17, <1>18, <1>19, <1>20
     DEF Next, Step

LEMMA StepInv == IInv /\ [Next]_vars => IInv'
<1> SUFFICES ASSUME IInv, [Next]_vars PROVE IInv'
  OBVIOUS
<1>1. TypeOK'
  BY TypeStep DEF IInv
<1>2. Linked' /\ NoRowNoCount'
  BY LinkedStep, NoRowStep DEF IInv
<1>3. ASSUME PutsApart' PROVE Apart'
  <2>1. PutsApart /\ Apart
    BY <1>3, OverlapKept DEF PutsApart, IInv
  <2>2. Excluded' /\ BumpHasRow' /\ DeleteAtZero' /\ SweepAtZero'
    BY <2>1, ExcludedStep, BumpStep, ZeroStep DEF IInv, Apart
  <2>3. Counted'
    BY <2>1, <1>1, CountedStep DEF IInv, Apart
  <2>4. QED
    BY <2>2, <2>3 DEF Apart
<1>4. QED
  BY <1>1, <1>2, <1>3 DEF IInv

\* As long as no put runs beside a release or a sweep of another process, no
\* row of sessions, profiles or samples ever names a blob with fewer
\* references than rows that name it; operations may be cut short anywhere.
THEOREM RefsCoveredApartHolds == Spec => []RefsCoveredApart
<1>1. IInv => RefsCoveredApart
  <2> SUFFICES ASSUME IInv, PutsApart, NEW s \in Shas PROVE Refs(s) <= refCount[s]
    BY DEF RefsCoveredApart, RefsCovered
  <2>1. Refs(s) + Cardinality(InFlight(s)) <= refCount[s]
    BY DEF IInv, Apart, Counted
  <2>2. Refs(s) \in Nat /\ refCount[s] \in Nat
    BY DEF IInv, TypeOK, Refs
  <2>3. QED
    BY <2>1, <2>2, FlightFinite
<1>2. QED
  BY <1>1, InitInv, StepInv, PTL DEF Spec

-----------------------------------------------------------------------------
(***************************************************************************)
(* The second part.  BlobStore under the discipline of people who run one  *)
(* nid at a time as far as put is concerned: releases and sweeps overlap   *)
(* one another, a put overlaps nothing.  Any number of processes and       *)
(* contents.                                                               *)
(*                                                                         *)
(* The invariant says what each operation at work knows and how far the    *)
(* table and the files may disagree meanwhile: a row without references is *)
(* about to be deleted by a release (ZeroReleased), a row without its file *)
(* has no reference and somebody is about to delete it (FilesKept).  One   *)
(* interrupted operation leaves the other party of the two; the second     *)
(* may leave a row whose file is gone, which the next put would count      *)
(* upon, so the bound of OwnedReadable is exact.                           *)
(***************************************************************************)

\* A put overlaps nothing.
PutAlone == \A p, q \in Procs : p # q /\ call[p].op = "put" => call[q].op = "none"

\* What a put at work knows: the content has no row yet, its own tmp file and
\* then its final file are complete; once counted, the row is there.
PutKnows == \A p \in Procs :
  /\ pc[p] \in {"create", "write", "rename", "insert"} => call[p].sha \notin rows
  /\ pc[p] = "write" => fd[p] = "tmp"
  /\ pc[p] = "rename" => tmp[call[p].sha] = "full"
  /\ pc[p] = "insert" => file[call[p].sha] = "full"
  /\ pc[p] = "record" => call[p].sha \in rows

RemoverKnows == \A p \in Procs :
  /\ pc[p] = "unlink" => call[p].sha \notin rows
  /\ pc[p] = "sweepDelete" => file[call[p].sha] = "none"

At(steps, s) == \E p \in Procs : pc[p] \in steps /\ call[p].sha = s
Sweeping(s)  == At({"sweepDelete"}, s)
Releasing(s) == At({"check", "delete"}, s)
Shelved(s)   == At({"insert", "unlink"}, s)
Spooled(s)   == At({"write", "rename"}, s)

ZeroReleased == aborts = 0 => \A s \in rows : refCount[s] = 0 => Releasing(s)

FilesKept ==
  aborts <= 1 => \A s \in rows : file[s] # "full" =>
    /\ refCount[s] = 0
    /\ Sweeping(s) \/ (aborts = 1 /\ Releasing(s))

Kept == PutAlone /\ PutKnows /\ RemoverKnows /\ ZeroReleased /\ FilesKept

\* What holds besides as long as nothing is cut short: every count has its
\* owner, at work or in the table; every file without a row, and every tmp
\* file, its operation.
CountedExact == \A s \in Shas : refCount[s] <= Refs(s) + Cardinality(InFlight(s))
NoFileLeft == \A s \in Shas : file[s] # "none" /\ s \notin rows => Shelved(s)
NoTmpLeft == \A s \in Shas : tmp[s] # "none" => Spooled(s)

Exact == CountedExact /\ NoFileLeft /\ NoTmpLeft

EInv == IInv /\ (PutsAlone => Kept /\ (aborts = 0 => Exact))

\* The steps by what they do; in each, only one process moves.
Puts(p) ==
  \/ PutCount(p) \/ PutBump(p) \/ PutCreate(p) \/ PutWrite(p) \/ PutRename(p)
  \/ PutInsert(p) \/ PutRecord(p)
Removes(p) ==
  \/ ReleaseDec(p) \/ ReleaseCheck(p) \/ ReleaseDelete(p) \/ ReleaseUnlink(p)
  \/ GcUnlink(p) \/ GcDelete(p) \/ GcDone(p)
Begins(p) ==
  \/ BeginGc(p) \/ \E s \in Shas : BeginRelease(p, s)
  \/ \E s \in Shas, k \in Kinds : BeginPut(p, s, k)

OwnStep(p) == \A q \in Procs : q # p => pc'[q] = pc[q] /\ call'[q] = call[q]

-----------------------------------------------------------------------------
LEMMA StepOwn ==
  ASSUME TypeOK, NEW p \in Procs,
         \/ Step(p) \/ Abort(p) \/ BeginGc(p) \/ \E s \in Shas : BeginRelease(p, s)
         \/ \E s \in Shas, k \in Kinds : BeginPut(p, s, k)
  PROVE  OwnStep(p)
<1>. USE DEF OwnStep, Goto, Leave
<1>1. pc \in [Procs -> Busy \cup {"idle", "failed"}] /\ call \in [Procs -> Calls]
  BY DEF TypeOK, CallsOK

<1>2. ASSUME PutCount(p) PROVE OwnStep(p)
  BY <1>1, <1>2 DEF PutCount
<1>3. ASSUME PutBump(p) PROVE OwnStep(p)
  BY <1>1, <1>3 DEF PutBump
<1>4. ASSUME PutCreate(p) PROVE OwnStep(p)
  BY <1>1, <1>4 DEF PutCreate
<1>5. ASSUME PutWrite(p) PROVE OwnStep(p)
  BY <1>1, <1>5 DEF PutWrite
<1>6. ASSUME PutRename(p) PROVE OwnStep(p)
  BY <1>1, <1>6 DEF PutRename
<1>7. ASSUME PutInsert(p) PROVE OwnStep(p)
  BY <1>1, <1>7 DEF PutInsert
<1>8. ASSUME PutRecord(p) PROVE OwnStep(p)
  BY <1>1, <1>8 DEF PutRecord
<1>9. ASSUME Exit(p) PROVE OwnStep(p)
  BY <1>1, <1>9 DEF Exit
<1>10. ASSUME ReleaseDec(p) PROVE OwnStep(p)
  BY <1>1, <1>10 DEF ReleaseDec
<1>11. ASSUME ReleaseCheck(p) PROVE OwnStep(p)
  BY <1>1, <1>11 DEF ReleaseCheck
<1>12. ASSUME ReleaseDelete(p) PROVE OwnStep(p)
  BY <1>1, <1>12 DEF ReleaseDelete
<1>13. ASSUME ReleaseUnlink(p) PROVE OwnStep(p)
  BY <1>1, <1>13 DEF ReleaseUnlink
<1>14. ASSUME GcUnlink(p) PROVE OwnStep(p)
  BY <1>1, <1>14 DEF GcUnlink
<1>15. ASSUME GcDelete(p) PROVE OwnStep(p)
  BY <1>1, <1>15 DEF GcDelete
<1>16. ASSUME GcDone(p) PROVE OwnStep(p)
  BY <1>1, <1>16 DEF GcDone
<1>17. ASSUME Abort(p) PROVE OwnStep(p)
  BY <1>1, <1>17 DEF Abort
<1>18. QED
  BY <1>1, <1>2, <1>3, <1>4, <1>5, <1>6, <1>7, <1>8, <1>9, <1>10, <1>11, <1>12, <1>13, <1>14, <1>15, <1>16, <1>17 DEF Step, BeginGc, BeginRelease, BeginPut


\* While a put runs alone nobody else is within an operation.
LEMMA OnlyPut ==
  ASSUME TypeOK, Linked, PutAlone, NEW p \in Procs, call[p].op = "put"
  PROVE  \A q \in Procs : q # p => pc[q] \notin Busy
  BY DEF Linked, PutAlone, Busy

\* While a release or a sweep runs nobody is within a put.
LEMMA NoPut ==
  ASSUME TypeOK, Linked, PutAlone, NEW p \in Procs, pc[p] \in ReleaseSteps \cup GcSteps
  PROVE  \A q \in Procs : pc[q] \notin PutSteps /\ call[q].op # "put"
<1>1. call[p].op \in {"release", "gc"}
  BY DEF Linked
<1>2. QED
  BY <1>1 DEF Linked, PutAlone

LEMMA PutAloneStep == TypeOK /\ PutsAlone /\ PutAlone /\ [Next]_vars => PutAlone'
<1> SUFFICES ASSUME TypeOK, PutsAlone, PutAlone, [Next]_vars PROVE PutAlone'
  OBVIOUS
<1>1. call \in [Procs -> Calls]
  BY DEF TypeOK, CallsOK
<1>2. ASSUME NEW p \in Procs, Step(p) \/ Abort(p) PROVE PutAlone'
  <2>1. \A q \in Procs : call'[q].op \in {call[q].op, "none"}
    BY <1>1, <1>2, StepKeepsOp
  <2>. QED
    BY <2>1 DEF PutAlone
<1>. USE DEF Calls, PutAlone, MayStart, PutsAlone, PutsApart, Ops
<1>3. ASSUME NEW p \in Procs, NEW s \in Shas, NEW k \in Kinds, BeginPut(p, s, k) PROVE PutAlone'
  BY <1>1, <1>3 DEF BeginPut
<1>4. ASSUME NEW p \in Procs, NEW s \in Shas, BeginRelease(p, s) PROVE PutAlone'
  BY <1>1, <1>4 DEF BeginRelease
<1>5. ASSUME NEW p \in Procs, BeginGc(p) PROVE PutAlone'
  BY <1>1, <1>5 DEF BeginGc
<1>6. CASE UNCHANGED vars
  BY <1>6 DEF vars
<1>7. QED
  BY <1>2, <1>3, <1>4, <1>5, <1>6 DEF Next

LEMMA StepKinds ==
  ASSUME [Next]_vars
  PROVE  \/ \E p \in Procs : Removes(p) \/ Puts(p) \/ Begins(p) \/ Exit(p) \/ Abort(p)
         \/ UNCHANGED vars
  BY DEF Next, Step, Removes, Puts, Begins

\* A step of a release or of a sweep: rows and files only go.
LEMMA RemovesEffect ==
  ASSUME TypeOK, NEW p \in Procs, Removes(p)
  PROVE  /\ rows' \subseteq rows
         /\ \A s \in Shas : file'[s] \in {file[s], "none"}
         /\ UNCHANGED <<tmp, aborts, holders, samples>>
         /\ pc[p] \in ReleaseSteps \cup GcSteps
         /\ pc'[p] \in ReleaseSteps \cup GcSteps \cup {"idle"}
<1>. USE DEF TypeOK, CallsOK, Goto, store, disk, owners, bounds, ReleaseSteps, GcSteps
<1>1. CASE ReleaseDec(p)
  BY <1>1 DEF ReleaseDec
<1>2. CASE ReleaseCheck(p)
  BY <1>2 DEF ReleaseCheck, Leave
<1>3. CASE ReleaseDelete(p)
  BY <1>3 DEF ReleaseDelete, Leave, DeleteRow
<1>4. CASE ReleaseUnlink(p)
  BY <1>4 DEF ReleaseUnlink
<1>5. CASE GcUnlink(p)
  BY <1>5 DEF GcUnlink
<1>6. CASE GcDelete(p)
  BY <1>6 DEF GcDelete, Leave, DeleteRow
<1>7. CASE GcDone(p)
  BY <1>7 DEF GcDone, Leave
<1>8. QED
  BY <1>1, <1>2, <1>3, <1>4, <1>5, <1>6, <1>7 DEF Removes

\* A put that begins, and any operation that begins, leaves store and disk.
LEMMA BeginsEffect ==
  ASSUME TypeOK, NEW p \in Procs, Begins(p)
  PROVE  /\ UNCHANGED <<rows, refCount, file, tmp, fd, aborts, samples>>
         /\ pc[p] = "idle" /\ pc'[p] \in {"count", "dec", "sweep"}
  BY DEF TypeOK, CallsOK, Begins, BeginGc, BeginRelease, BeginPut, MayStart, Goto,
         store, disk, owners, bounds

LEMMA EndsEffect ==
  ASSUME TypeOK, NEW p \in Procs, Exit(p) \/ Abort(p)
  PROVE  /\ UNCHANGED <<rows, refCount, file, tmp, holders, samples>>
         /\ pc'[p] = "idle"
         /\ \A q \in Procs : q # p => fd'[q] = fd[q]
         /\ Exit(p) => pc[p] = "failed" /\ UNCHANGED aborts
         /\ Abort(p) => pc[p] \in Busy /\ aborts' = aborts + 1
  BY DEF TypeOK, CallsOK, Exit, Abort, Leave, Goto, store, disk, owners, bounds

LEMMA PutsEffect ==
  ASSUME TypeOK, NEW p \in Procs, Puts(p)
  PROVE  /\ pc[p] \in PutSteps /\ pc'[p] \in PutSteps \cup {"idle", "failed"}
         /\ UNCHANGED aborts
<1>. USE DEF TypeOK, CallsOK, Goto, Leave, bounds, PutSteps
<1>1. CASE PutCount(p)
  BY <1>1 DEF PutCount
<1>2. CASE PutBump(p)
  BY <1>2 DEF PutBump
<1>3. CASE PutCreate(p)
  BY <1>3 DEF PutCreate
<1>4. CASE PutWrite(p)
  BY <1>4 DEF PutWrite
<1>5. CASE PutRename(p)
  BY <1>5 DEF PutRename
<1>6. CASE PutInsert(p)
  BY <1>6 DEF PutInsert
<1>7. CASE PutRecord(p)
  BY <1>7 DEF PutRecord
<1>8. QED
  BY <1>1, <1>2, <1>3, <1>4, <1>5, <1>6, <1>7 DEF Puts

LEMMA OwnSteps ==
  ASSUME TypeOK, NEW p \in Procs, Removes(p) \/ Puts(p) \/ Begins(p) \/ Exit(p) \/ Abort(p)
  PROVE  OwnStep(p)
  BY StepOwn DEF Removes, Puts, Begins, Step

\* What a put at work knows of the content it writes.
LEMMA PutKnowsStep ==
  TypeOK /\ Linked /\ PutAlone /\ BumpHasRow /\ PutKnows /\ [Next]_vars => PutKnows'
<1> SUFFICES ASSUME TypeOK, Linked, PutAlone, BumpHasRow, PutKnows, [Next]_vars
             PROVE  PutKnows'
  OBVIOUS
<1>a. /\ pc \in [Procs -> Busy \cup {"idle", "failed"}] /\ call \in [Procs -> Calls]
      /\ file \in [Shas -> Content] /\ tmp \in [Shas -> Content]
      /\ fd \in [Procs -> {"none", "tmp", "file", "gone"}]
      /\ \A p \in Procs : pc[p] \in OnContent => call[p].sha \in Shas
  BY DEF TypeOK, CallsOK
<1>b. PutSteps = {"count", "bump", "create", "write", "rename", "insert", "record"}
  BY DEF PutSteps
<1>1. ASSUME NEW p \in Procs, Puts(p) PROVE PutKnows'
  <2>1. pc[p] \in PutSteps /\ pc'[p] \in PutSteps \cup {"idle", "failed"} /\ call[p].sha \in Shas
    BY <1>1, <1>a, PutsEffect DEF OnContent
  <2>2. OwnStep(p) /\ \A q \in Procs : q # p => pc'[q] \notin PutSteps
    BY <1>1, <2>1, OwnSteps, OnlyPut DEF OwnStep, Linked, Busy
  <2>3. SUFFICES
          /\ pc'[p] \in {"create", "write", "rename", "insert"} => call'[p].sha \notin rows'
          /\ pc'[p] = "write" => fd'[p] = "tmp"
          /\ pc'[p] = "rename" => tmp'[call'[p].sha] = "full"
          /\ pc'[p] = "insert" => file'[call'[p].sha] = "full"
          /\ pc'[p] = "record" => call'[p].sha \in rows'
    BY <2>2, <1>b DEF PutKnows
  <2>. USE DEF PutKnows, Goto, Leave, store, disk, owners
  <2>4. CASE PutCount(p)
    BY <2>4, <1>a DEF PutCount
  <2>5. CASE PutBump(p)
    BY <2>5, <1>a DEF PutBump, BumpHasRow
  <2>6. CASE PutCreate(p)
    BY <2>6, <1>a DEF PutCreate
  <2>7. CASE PutWrite(p)
    BY <2>7, <2>1, <1>a DEF PutWrite
  <2>8. CASE PutRename(p)
    BY <2>8, <2>1, <1>a DEF PutRename
  <2>9. CASE PutInsert(p)
    BY <2>9, <1>a DEF PutInsert
  <2>10. CASE PutRecord(p)
    BY <2>10, <1>a DEF PutRecord
  <2>11. QED
    BY <1>1, <2>4, <2>5, <2>6, <2>7, <2>8, <2>9, <2>10 DEF Puts
<1>2. ASSUME NEW p \in Procs, Removes(p) PROVE PutKnows'
  <2>1. \A q \in Procs : pc'[q] \notin PutSteps
    BY <1>2, RemovesEffect, NoPut, OwnSteps DEF OwnStep, PutSteps, ReleaseSteps, GcSteps
  <2>2. QED
    BY <2>1, <1>b DEF PutKnows
<1>3. ASSUME NEW p \in Procs, Begins(p) \/ Exit(p) \/ Abort(p) PROVE PutKnows'
  <2>1. /\ UNCHANGED <<rows, file, tmp>> /\ \A q \in Procs : q # p => fd'[q] = fd[q]
        /\ pc'[p] \in {"idle", "count", "dec", "sweep"} /\ OwnStep(p)
    BY <1>3, BeginsEffect, EndsEffect, OwnSteps
  <2>2. QED
    BY <2>1, <1>a DEF PutKnows, OwnStep
<1>4. CASE UNCHANGED vars
  BY <1>4 DEF vars, PutKnows
<1>5. QED
  BY <1>1, <1>2, <1>3, <1>4, StepKinds

\* What a release and a sweep at work know of the content they remove.
LEMMA RemoverKnowsStep ==
  TypeOK /\ Linked /\ PutAlone /\ RemoverKnows /\ [Next]_vars => RemoverKnows'
<1> SUFFICES ASSUME TypeOK, Linked, PutAlone, RemoverKnows, [Next]_vars
             PROVE  RemoverKnows'
  OBVIOUS
<1>a. /\ pc \in [Procs -> Busy \cup {"idle", "failed"}] /\ call \in [Procs -> Calls]
      /\ file \in [Shas -> Content]
      /\ \A p \in Procs : pc[p] \in OnContent => call[p].sha \in Shas
  BY DEF TypeOK, CallsOK
<1>b. "unlink" \in OnContent /\ "sweepDelete" \in OnContent
      /\ "unlink" \in Busy /\ "sweepDelete" \in Busy
      /\ "unlink" \notin PutSteps /\ "sweepDelete" \notin PutSteps
  BY DEF OnContent, Busy, ReleaseSteps, PutSteps, GcSteps
<1>1. ASSUME NEW p \in Procs, Removes(p) PROVE RemoverKnows'
  <2>1. /\ rows' \subseteq rows /\ \A s \in Shas : file'[s] \in {file[s], "none"}
        /\ OwnStep(p)
    BY <1>1, RemovesEffect, OwnSteps
  <2>2. SUFFICES /\ pc'[p] = "unlink" => call'[p].sha \notin rows'
                 /\ pc'[p] = "sweepDelete" => file'[call'[p].sha] = "none"
    BY <2>1, <1>a, <1>b DEF RemoverKnows, OwnStep
  <2>. USE DEF Goto, Leave
  <2>3. CASE ReleaseDec(p)
    BY <2>3, <1>a DEF ReleaseDec
  <2>4. CASE ReleaseCheck(p)
    BY <2>4, <1>a DEF ReleaseCheck
  <2>5. CASE ReleaseDelete(p)
    BY <2>5, <1>a DEF ReleaseDelete, DeleteRow
  <2>6. CASE ReleaseUnlink(p)
    BY <2>6, <1>a DEF ReleaseUnlink
  <2>7. CASE GcUnlink(p)
    <3>1. PICK s \in call[p].todo : /\ file' = [file EXCEPT ![s] = "none"]
                                    /\ call' = [call EXCEPT ![p].sha = s]
      BY <2>7 DEF GcUnlink
    <3>2. s \in Shas /\ call'[p].sha = s
      BY <3>1, <1>a DEF Calls
    <3>3. QED
      BY <2>7, <3>1, <3>2, <1>a DEF GcUnlink
  <2>8. CASE GcDelete(p)
    BY <2>8, <1>a DEF GcDelete
  <2>9. CASE GcDone(p)
    BY <2>9, <1>a DEF GcDone
  <2>10. QED
    BY <1>1, <2>3, <2>4, <2>5, <2>6, <2>7, <2>8, <2>9 DEF Removes
<1>2. ASSUME NEW p \in Procs, Puts(p) PROVE RemoverKnows'
  <2>1. \A q \in Procs : pc'[q] \notin {"unlink", "sweepDelete"}
    BY <1>2, <1>b, PutsEffect, OnlyPut, OwnSteps DEF OwnStep, Linked
  <2>2. QED
    BY <2>1 DEF RemoverKnows
<1>3. ASSUME NEW p \in Procs, Begins(p) \/ Exit(p) \/ Abort(p) PROVE RemoverKnows'
  <2>1. /\ UNCHANGED <<rows, file>>
        /\ pc'[p] \in {"idle", "count", "dec", "sweep"} /\ OwnStep(p)
    BY <1>3, BeginsEffect, EndsEffect, OwnSteps
  <2>2. QED
    BY <2>1, <1>a DEF RemoverKnows, OwnStep
<1>4. CASE UNCHANGED vars
  BY <1>4 DEF vars, RemoverKnows
<1>5. QED
  BY <1>1, <1>2, <1>3, <1>4, StepKinds


\* A process that stays where it is keeps what it marks.
LEMMA AtStays ==
  ASSUME NEW p \in Procs, OwnStep(p), NEW steps, NEW s, At(steps, s),
         pc[p] \in steps /\ call[p].sha = s => pc'[p] \in steps /\ call'[p].sha = s
  PROVE  At(steps, s)'
  BY DEF At, OwnStep

LEMMA SweepingStays ==
  ASSUME NEW p \in Procs, OwnStep(p), NEW s, Sweeping(s),
         pc[p] = "sweepDelete" /\ call[p].sha = s =>
           pc'[p] = "sweepDelete" /\ call'[p].sha = s
  PROVE  Sweeping(s)'
  BY AtStays DEF Sweeping

LEMMA ReleasingStays ==
  ASSUME NEW p \in Procs, OwnStep(p), NEW s, Releasing(s),
         pc[p] \in {"check", "delete"} /\ call[p].sha = s =>
           pc'[p] \in {"check", "delete"} /\ call'[p].sha = s
  PROVE  Releasing(s)'
  BY AtStays DEF Releasing

LEMMA ShelvedStays ==
  ASSUME NEW p \in Procs, OwnStep(p), NEW s, Shelved(s),
         pc[p] \in {"insert", "unlink"} /\ call[p].sha = s =>
           pc'[p] \in {"insert", "unlink"} /\ call'[p].sha = s
  PROVE  Shelved(s)'
  BY AtStays DEF Shelved

LEMMA SpooledStays ==
  ASSUME NEW p \in Procs, OwnStep(p), NEW s, Spooled(s),
         pc[p] \in {"write", "rename"} /\ call[p].sha = s =>
           pc'[p] \in {"write", "rename"} /\ call'[p].sha = s
  PROVE  Spooled(s)'
  BY AtStays DEF Spooled

LEMMA CoveredFacts ==
  ASSUME TypeOK, Counted, NEW s \in Shas, refCount[s] = 0
  PROVE  /\ Refs(s) = 0 /\ samples[s] = 0 /\ ~Pinned(s)
         /\ \A p \in Procs : pc[p] \in {"record", "dec"} => call[p].sha # s
<1>1. /\ holders[s] \in Nat /\ samples[s] \in Nat
      /\ IsFiniteSet(InFlight(s)) /\ Cardinality(InFlight(s)) \in Nat
      /\ Refs(s) + Cardinality(InFlight(s)) <= 0
  BY FlightFinite DEF Counted, TypeOK
<1>2. Refs(s) = 0 /\ samples[s] = 0 /\ Cardinality(InFlight(s)) = 0
  BY <1>1 DEF Refs
<1>3. InFlight(s) = {}
  BY <1>1, <1>2, FS_EmptySet
<1>4. QED
  BY <1>2, <1>3 DEF InFlight, Pinned

\* As long as nothing is cut short, a row without references is about to be
\* deleted by the release that counted it down.
LEMMA ZeroStepReleased ==
  /\ TypeOK /\ Linked /\ PutAlone /\ PutKnows /\ BumpHasRow /\ Counted /\ ZeroReleased /\ [Next]_vars
  => ZeroReleased'
<1> SUFFICES ASSUME TypeOK, Linked, PutAlone, PutKnows, BumpHasRow, Counted, ZeroReleased, [Next]_vars,
                    aborts' = 0, NEW s \in rows', refCount'[s] = 0
             PROVE  Releasing(s)'
  BY DEF ZeroReleased, At, Sweeping, Releasing
<1>a. /\ pc \in [Procs -> Busy \cup {"idle", "failed"}] /\ call \in [Procs -> Calls]
      /\ rows \subseteq Shas /\ refCount \in [Shas -> Nat] /\ aborts \in Nat
      /\ \A p \in Procs : pc[p] \in OnContent => call[p].sha \in Shas
  BY DEF TypeOK, CallsOK
<1>b. PutSteps \subseteq OnContent /\ ReleaseSteps \subseteq OnContent
      /\ "check" \in Busy /\ "delete" \in Busy
      /\ "check" \notin PutSteps /\ "delete" \notin PutSteps
      /\ "check" \notin GcSteps /\ "delete" \notin GcSteps
  BY DEF OnContent, Busy, PutSteps, ReleaseSteps, GcSteps
<1>1. ASSUME NEW p \in Procs, Puts(p) PROVE Releasing(s)'
  <2>1. aborts = 0 /\ pc[p] \in PutSteps /\ call[p].sha \in Shas
    BY <1>1, <1>a, <1>b, PutsEffect
  <2>2. \A q \in Procs : pc[q] \notin {"check", "delete"}
    BY <2>1, <1>b, OnlyPut DEF Linked
  <2>3. \A u \in rows : refCount[u] # 0
    BY <2>1, <2>2 DEF ZeroReleased, At, Sweeping, Releasing
  <2>4. CASE PutBump(p)
    BY <2>4, <2>3, <1>a DEF PutBump
  <2>5. CASE PutInsert(p)
    BY <2>5, <2>3, <2>1, <1>a DEF PutInsert, store
  <2>6. CASE PutCount(p) \/ PutCreate(p) \/ PutWrite(p) \/ PutRename(p) \/ PutRecord(p)
    BY <2>6, <2>3 DEF PutCount, PutCreate, PutWrite, PutRename, PutRecord, store
  <2>7. QED
    BY <1>1, <2>4, <2>5, <2>6 DEF Puts
<1>2. ASSUME NEW p \in Procs, Removes(p) PROVE Releasing(s)'
  <2>1. aborts = 0 /\ s \in rows /\ s \in Shas /\ OwnStep(p)
    BY <1>2, <1>a, RemovesEffect, OwnSteps
  <2>. USE DEF Goto, Leave
  <2>2. CASE ReleaseDec(p)
    <3>1. CASE refCount[s] = 0
      <4>1. Releasing(s)
        BY <2>1, <3>1 DEF ZeroReleased
      <4>2. QED
        BY <2>1, <2>2, <4>1, SweepingStays, ReleasingStays DEF ReleaseDec
    <3>2. CASE refCount[s] # 0
      <4>1. call[p].sha = s
        BY <2>1, <2>2, <3>2, <1>a DEF ReleaseDec
      <4>2. pc'[p] = "check" /\ call'[p].sha = s
        BY <2>2, <4>1, <1>a DEF ReleaseDec
      <4>3. QED
        BY <4>2 DEF At, Sweeping, Releasing
    <3>3. QED
      BY <3>1, <3>2
  <2>3. CASE ReleaseCheck(p)
    <3>1. Releasing(s) /\ refCount[s] = 0
      BY <2>1, <2>3 DEF ReleaseCheck, ZeroReleased, store
    <3>2. call[p].sha = s => pc'[p] = "delete" /\ call'[p].sha = s
      BY <2>3, <3>1, <1>a DEF ReleaseCheck
    <3>3. QED
      BY <2>1, <3>1, <3>2, SweepingStays, ReleasingStays
  <2>4. CASE ReleaseDelete(p)
    <3>1. call[p].sha \in Shas
      BY <2>4, <1>a, <1>b DEF ReleaseDelete, ReleaseSteps
    <3>2. refCount[s] = 0 /\ (call[p].sha = s => Pinned(s))
      <4>1. CASE ~Pinned(call[p].sha)
        BY <2>4, <4>1, <2>1, <1>a DEF ReleaseDelete, DeleteRow
      <4>2. CASE Pinned(call[p].sha)
        BY <2>4, <4>2 DEF ReleaseDelete, store
      <4>3. QED
        BY <4>1, <4>2
    <3>3. call[p].sha # s
      BY <3>2, <2>1, CoveredFacts
    <3>4. Releasing(s)
      BY <2>1, <3>2 DEF ZeroReleased
    <3>5. QED
      BY <2>1, <3>3, <3>4, SweepingStays, ReleasingStays
  <2>5. CASE ReleaseUnlink(p) \/ GcUnlink(p) \/ GcDone(p)
    <3>1. refCount[s] = 0 /\ pc[p] \notin {"check", "delete"}
      BY <2>5 DEF ReleaseUnlink, GcUnlink, GcDone, store
    <3>2. Releasing(s)
      BY <2>1, <3>1 DEF ZeroReleased
    <3>3. QED
      BY <2>1, <3>1, <3>2, SweepingStays, ReleasingStays
  <2>6. CASE GcDelete(p)
    <3>1. pc[p] = "sweepDelete" /\ call[p].sha \in Shas
      BY <2>6, <1>a DEF GcDelete, OnContent
    <3>2. refCount[s] = 0
      <4>1. CASE ~Pinned(call[p].sha)
        BY <2>6, <4>1, <2>1, <1>a DEF GcDelete, DeleteRow
      <4>2. CASE Pinned(call[p].sha)
        BY <2>6, <4>2 DEF GcDelete, store
      <4>3. QED
        BY <4>1, <4>2
    <3>3. Releasing(s)
      BY <2>1, <3>2 DEF ZeroReleased
    <3>4. QED
      BY <2>1, <3>1, <3>3, SweepingStays, ReleasingStays
  <2>7. QED
    BY <1>2, <2>2, <2>3, <2>4, <2>5, <2>6 DEF Removes
<1>3. ASSUME NEW p \in Procs, Begins(p) \/ Exit(p) \/ Abort(p) PROVE Releasing(s)'
  <2>1. /\ UNCHANGED <<rows, refCount>> /\ pc[p] \notin {"check", "delete"}
        /\ aborts = 0 /\ OwnStep(p)
    BY <1>3, <1>a, BeginsEffect, EndsEffect, OwnSteps
  <2>2. Releasing(s)
    BY <2>1 DEF ZeroReleased
  <2>3. QED
    BY <2>1, <2>2, SweepingStays, ReleasingStays
<1>4. CASE UNCHANGED vars
  BY <1>4 DEF vars, ZeroReleased, At, Sweeping, Releasing
<1>5. QED
  BY <1>1, <1>2, <1>3, <1>4, StepKinds

\* A row whose file is not there has no reference, and is about to be deleted
\* by a sweep, or by a release whose sweep was cut short.
LEMMA FilesStep ==
  /\ TypeOK /\ Linked /\ PutAlone /\ PutKnows /\ RemoverKnows /\ BumpHasRow /\ SweepAtZero
  /\ Counted /\ ZeroReleased /\ FilesKept /\ [Next]_vars
  => FilesKept'
<1> SUFFICES ASSUME TypeOK, Linked, PutAlone, PutKnows, RemoverKnows, BumpHasRow, SweepAtZero,
                    Counted, ZeroReleased, FilesKept, [Next]_vars,
                    aborts' <= 1, NEW s \in rows', file'[s] # "full"
             PROVE  /\ refCount'[s] = 0
                    /\ Sweeping(s)' \/ (aborts' = 1 /\ Releasing(s)')
  BY DEF FilesKept, At, Sweeping, Releasing
<1>. DEFINE Lost == /\ refCount[s] = 0
                    /\ Sweeping(s) \/ (aborts = 1 /\ Releasing(s))
<1>a. /\ pc \in [Procs -> Busy \cup {"idle", "failed"}] /\ call \in [Procs -> Calls]
      /\ rows \subseteq Shas /\ refCount \in [Shas -> Nat] /\ aborts \in Nat
      /\ file \in [Shas -> Content] /\ tmp \in [Shas -> Content]
      /\ fd \in [Procs -> {"none", "tmp", "file", "gone"}]
      /\ \A p \in Procs : pc[p] \in OnContent => call[p].sha \in Shas
  BY DEF TypeOK, CallsOK
<1>b. PutSteps \subseteq OnContent /\ ReleaseSteps \subseteq OnContent
      /\ {"check", "delete", "sweepDelete"} \subseteq Busy
      /\ {"check", "delete", "sweepDelete"} \cap PutSteps = {}
  BY DEF OnContent, Busy, PutSteps, ReleaseSteps, GcSteps
<1>c. aborts <= 1 /\ s \in rows /\ file[s] # "full" => Lost
  BY DEF FilesKept
<1>. HIDE DEF Lost
<1>1. ASSUME NEW p \in Procs, Puts(p) PROVE FALSE
  <2>1. aborts <= 1 /\ pc[p] \in PutSteps /\ call[p].sha \in Shas
    BY <1>1, <1>a, <1>b, PutsEffect
  <2>2. \A q \in Procs : pc[q] \notin {"check", "delete", "sweepDelete"}
    BY <2>1, <1>b, OnlyPut DEF Linked
  <2>3. s \notin rows \/ file[s] = "full"
    BY <2>1, <2>2, <1>c DEF At, Sweeping, Releasing, Lost
  <2>. USE DEF store
  <2>4. CASE PutBump(p) \/ PutCount(p) \/ PutCreate(p) \/ PutRecord(p)
    BY <2>4, <2>3 DEF PutBump, PutCount, PutCreate, PutRecord, disk
  <2>5. CASE PutInsert(p)
    <3>1. file[call[p].sha] = "full"
      BY <2>5 DEF PutInsert, PutKnows
    <3>2. QED
      BY <2>5, <2>3, <3>1 DEF PutInsert
  <2>6. CASE PutWrite(p)
    <3>1. file' = file
      BY <2>6, <1>a DEF PutWrite, PutKnows
    <3>2. QED
      BY <2>6, <2>3, <3>1 DEF PutWrite
  <2>7. CASE PutRename(p)
    <3>1. call[p].sha \notin rows
      BY <2>7 DEF PutRename, PutKnows
    <3>2. QED
      BY <2>7, <2>3, <3>1, <1>a DEF PutRename
  <2>8. QED
    BY <1>1, <2>4, <2>5, <2>6, <2>7 DEF Puts
<1>2. ASSUME NEW p \in Procs, Removes(p)
      PROVE  /\ refCount'[s] = 0
             /\ Sweeping(s)' \/ (aborts' = 1 /\ Releasing(s)')
  <2>1. aborts <= 1 /\ s \in rows /\ s \in Shas /\ OwnStep(p) /\ UNCHANGED aborts
    BY <1>2, <1>a, RemovesEffect, OwnSteps
  <2>. USE DEF Goto, Leave, Lost
  <2>2. ASSUME Lost, refCount'[s] = 0,
               pc[p] = "sweepDelete" /\ call[p].sha = s =>
                 pc'[p] = "sweepDelete" /\ call'[p].sha = s,
               pc[p] \in {"check", "delete"} /\ call[p].sha = s =>
                 pc'[p] \in {"check", "delete"} /\ call'[p].sha = s
        PROVE  /\ refCount'[s] = 0
               /\ Sweeping(s)' \/ (aborts' = 1 /\ Releasing(s)')
    <3>1. CASE Sweeping(s)
      BY <2>1, <2>2, <3>1, SweepingStays, ReleasingStays
    <3>2. CASE aborts = 1 /\ Releasing(s)
      BY <2>1, <2>2, <3>2, SweepingStays, ReleasingStays
    <3>3. QED
      BY <2>2, <3>1, <3>2
  <2>3. CASE ReleaseDec(p)
    <3>1. Lost
      BY <2>1, <2>3, <1>c DEF ReleaseDec, disk
    <3>2. refCount'[s] = 0
      BY <2>1, <2>3, <3>1, <1>a DEF ReleaseDec
    <3>3. QED
      BY <2>2, <2>3, <3>1, <3>2 DEF ReleaseDec
  <2>4. CASE ReleaseCheck(p)
    <3>1. Lost /\ refCount'[s] = 0
      BY <2>1, <2>4, <1>c DEF ReleaseCheck, store
    <3>2. call[p].sha = s => pc'[p] = "delete" /\ call'[p].sha = s
      BY <2>4, <3>1, <1>a DEF ReleaseCheck
    <3>3. QED
      BY <2>2, <2>4, <3>1, <3>2 DEF ReleaseCheck
  <2>5. CASE ReleaseDelete(p)
    <3>1. Lost
      BY <2>1, <2>5, <1>c DEF ReleaseDelete
    <3>2. ~Pinned(s)
      BY <2>1, <3>1, CoveredFacts
    <3>3. call[p].sha # s
      BY <2>5, <3>2 DEF ReleaseDelete, DeleteRow
    <3>4. refCount'[s] = 0
      BY <2>1, <2>5, <3>1, <3>3, <1>a DEF ReleaseDelete, DeleteRow, store
    <3>5. QED
      BY <2>2, <2>5, <3>1, <3>3, <3>4
  <2>6. CASE ReleaseUnlink(p)
    <3>1. call[p].sha # s /\ call[p].sha \in Shas
      BY <2>1, <2>6, <1>a, <1>b DEF ReleaseUnlink, RemoverKnows, ReleaseSteps
    <3>2. Lost /\ refCount'[s] = 0
      BY <2>1, <2>6, <3>1, <1>c, <1>a DEF ReleaseUnlink, store
    <3>3. QED
      BY <2>2, <2>6, <3>1, <3>2
  <2>7. CASE GcUnlink(p)
    <3>1. PICK u \in call[p].todo : /\ file' = [file EXCEPT ![u] = "none"]
                                    /\ call' = [call EXCEPT ![p].sha = u]
      BY <2>7 DEF GcUnlink
    <3>2. u \in Shas /\ call'[p].sha = u /\ pc'[p] = "sweepDelete" /\ refCount[u] = 0
      BY <2>7, <3>1, <1>a DEF Calls, GcUnlink, SweepAtZero, GcSteps
    <3>3. refCount' = refCount
      BY <2>7 DEF GcUnlink, store
    <3>4. CASE u = s
      BY <3>2, <3>3, <3>4 DEF At, Sweeping, Releasing
    <3>5. CASE u # s
      <4>1. Lost
        BY <2>1, <3>1, <3>5, <1>c, <1>a
      <4>2. QED
        BY <2>2, <2>7, <3>3, <4>1 DEF GcUnlink
    <3>6. QED
      BY <3>4, <3>5
  <2>8. CASE GcDelete(p)
    <3>1. Lost
      BY <2>1, <2>8, <1>c DEF GcDelete
    <3>2. ~Pinned(s)
      BY <2>1, <3>1, CoveredFacts
    <3>3. call[p].sha # s
      BY <2>8, <3>2 DEF GcDelete, DeleteRow
    <3>4. refCount'[s] = 0
      BY <2>1, <2>8, <3>1, <3>3, <1>a DEF GcDelete, DeleteRow, store
    <3>5. QED
      BY <2>2, <2>8, <3>1, <3>3, <3>4
  <2>9. CASE GcDone(p)
    <3>1. Lost /\ refCount'[s] = 0
      BY <2>1, <2>9, <1>c DEF GcDone, store
    <3>2. QED
      BY <2>2, <2>9, <3>1 DEF GcDone
  <2>10. QED
    BY <1>2, <2>3, <2>4, <2>5, <2>6, <2>7, <2>8, <2>9 DEF Removes
<1>3. ASSUME NEW p \in Procs, Begins(p) \/ Exit(p)
      PROVE  /\ refCount'[s] = 0
             /\ Sweeping(s)' \/ (aborts' = 1 /\ Releasing(s)')
  <2>1. /\ UNCHANGED <<rows, refCount, file, aborts>> /\ OwnStep(p)
        /\ pc[p] \notin {"check", "delete", "sweepDelete"}
    BY <1>3, BeginsEffect, EndsEffect, OwnSteps
  <2>2. Lost
    BY <2>1, <1>c
  <2>3. QED
    BY <2>1, <2>2, SweepingStays, ReleasingStays DEF Lost
<1>4. ASSUME NEW p \in Procs, Abort(p)
      PROVE  /\ refCount'[s] = 0
             /\ Sweeping(s)' \/ (aborts' = 1 /\ Releasing(s)')
  <2>1. /\ UNCHANGED <<rows, refCount, file>> /\ aborts = 0 /\ aborts' = 1 /\ OwnStep(p)
    BY <1>4, <1>a, EndsEffect, OwnSteps
  <2>2. refCount[s] = 0 /\ Sweeping(s)
    BY <2>1, <1>c DEF Lost
  <2>3. Releasing(s)
    BY <2>1, <2>2 DEF ZeroReleased
  <2>4. CASE pc[p] = "sweepDelete"
    BY <2>1, <2>2, <2>3, <2>4, SweepingStays, ReleasingStays
  <2>5. CASE pc[p] # "sweepDelete"
    BY <2>1, <2>2, <2>5, SweepingStays, ReleasingStays
  <2>6. QED
    BY <2>4, <2>5
<1>5. ASSUME UNCHANGED vars
      PROVE  /\ refCount'[s] = 0
             /\ Sweeping(s)' \/ (aborts' = 1 /\ Releasing(s)')
  <2>1. Lost /\ UNCHANGED <<refCount, aborts, pc, call>>
    BY <1>5, <1>c DEF vars
  <2>2. QED
    BY <2>1 DEF At, Sweeping, Releasing, Lost
<1>6. QED
  BY <1>1, <1>2, <1>3, <1>4, <1>5, StepKinds


-----------------------------------------------------------------------------
(* Nothing cut short: the counts, the files and the tmp files agree.       *)

LEMMA FlightSame ==
  ASSUME NEW p \in Procs, OwnStep(p), pc[p] \notin {"record", "dec"},
         pc'[p] \notin {"record", "dec"}
  PROVE  \A s : InFlight(s)' = InFlight(s)
  BY DEF OwnStep, InFlight

LEMMA FlightEntered ==
  ASSUME NEW p \in Procs, OwnStep(p), pc[p] \notin {"record", "dec"},
         pc'[p] \in {"record", "dec"}
  PROVE  \A s : Cardinality(InFlight(s)') =
                  IF s = call'[p].sha THEN Cardinality(InFlight(s)) + 1
                                      ELSE Cardinality(InFlight(s))
<1> SUFFICES ASSUME NEW s
             PROVE  Cardinality(InFlight(s)') =
                      IF s = call'[p].sha THEN Cardinality(InFlight(s)) + 1
                                          ELSE Cardinality(InFlight(s))
  OBVIOUS
<1>1. p \notin InFlight(s)
      /\ InFlight(s)' = IF s = call'[p].sha THEN InFlight(s) \cup {p} ELSE InFlight(s)
  BY DEF OwnStep, InFlight
<1>2. QED
  BY <1>1, EnterFlight

LEMMA FlightLeft ==
  ASSUME NEW p \in Procs, OwnStep(p), pc[p] \in {"record", "dec"},
         pc'[p] \notin {"record", "dec"}
  PROVE  \A s : Cardinality(InFlight(s)') =
                  IF s = call[p].sha THEN Cardinality(InFlight(s)) - 1
                                     ELSE Cardinality(InFlight(s))
<1> SUFFICES ASSUME NEW s
             PROVE  Cardinality(InFlight(s)') =
                      IF s = call[p].sha THEN Cardinality(InFlight(s)) - 1
                                         ELSE Cardinality(InFlight(s))
  OBVIOUS
<1>1. InFlight(s)' = (IF s = call[p].sha THEN InFlight(s) \ {p} ELSE InFlight(s))
      /\ (s = call[p].sha => p \in InFlight(s))
  BY DEF OwnStep, InFlight
<1>2. QED
  BY <1>1, LeaveFlight

\* No reference is lost on its way to the row that owns it.
LEMMA CountedExactStep ==
  /\ TypeOK /\ Linked /\ PutKnows /\ NoRowNoCount /\ BumpHasRow /\ DeleteAtZero /\ SweepAtZero
  /\ Counted /\ CountedExact /\ aborts' = 0 /\ [Next]_vars
  => CountedExact'
<1> SUFFICES ASSUME TypeOK, Linked, PutKnows, NoRowNoCount, BumpHasRow, DeleteAtZero,
                    SweepAtZero, Counted, CountedExact, aborts' = 0, [Next]_vars, NEW s \in Shas
             PROVE  refCount'[s] <= Refs(s)' + Cardinality(InFlight(s)')
  BY DEF CountedExact
<1>a. /\ pc \in [Procs -> Busy \cup {"idle", "failed"}] /\ call \in [Procs -> Calls]
      /\ rows \subseteq Shas /\ refCount \in [Shas -> Nat] /\ aborts \in Nat
      /\ holders \in [Shas -> Nat] /\ samples \in [Shas -> Nat]
      /\ \A p \in Procs : pc[p] \in OnContent => call[p].sha \in Shas
  BY DEF TypeOK, CallsOK
<1>b. PutSteps \subseteq OnContent /\ ReleaseSteps \subseteq OnContent
      /\ PutSteps = {"count", "bump", "create", "write", "rename", "insert", "record"}
      /\ ReleaseSteps = {"dec", "check", "delete", "unlink"}
  BY DEF OnContent, PutSteps, ReleaseSteps
<1>c. /\ refCount[s] <= Refs(s) + Cardinality(InFlight(s))
      /\ Refs(s) = holders[s] + samples[s] /\ Refs(s)' = holders'[s] + samples'[s]
      /\ holders[s] \in Nat /\ samples[s] \in Nat /\ refCount[s] \in Nat
      /\ Cardinality(InFlight(s)) \in Nat /\ Cardinality(InFlight(s)') \in Nat
  BY <1>a, FlightFinite, FlightFiniteNext DEF CountedExact, Refs
<1>d. ASSUME NEW p \in Procs, OwnStep(p), pc[p] \notin {"record", "dec"},
             pc'[p] \notin {"record", "dec"}, refCount'[s] = refCount[s],
             UNCHANGED <<holders, samples>>
      PROVE  refCount'[s] <= Refs(s)' + Cardinality(InFlight(s)')
  BY <1>c, <1>d, FlightSame
<1>. USE DEF Goto, Leave, store, owners
<1>1. ASSUME NEW p \in Procs, PutCount(p) \/ PutCreate(p) \/ PutWrite(p) \/ PutRename(p)
      PROVE  refCount'[s] <= Refs(s)' + Cardinality(InFlight(s)')
  <2>1. OwnStep(p)
    BY <1>1, OwnSteps DEF Puts
  <2>2. /\ pc[p] \notin {"record", "dec"} /\ pc'[p] \notin {"record", "dec"}
        /\ UNCHANGED <<refCount, holders, samples>>
    BY <1>1, <1>a DEF PutCount, PutCreate, PutWrite, PutRename
  <2>3. QED
    BY <2>1, <2>2, <1>d
<1>2. ASSUME NEW p \in Procs, PutBump(p)
      PROVE  refCount'[s] <= Refs(s)' + Cardinality(InFlight(s)')
  <2>1. OwnStep(p)
    BY <1>2, OwnSteps DEF Puts
  <2>2. /\ pc[p] = "bump" /\ pc'[p] = "record" /\ call'[p].sha = call[p].sha
        /\ refCount' = [refCount EXCEPT ![call[p].sha] = @ + 1]
        /\ UNCHANGED <<holders, samples>>
    BY <1>2, <1>a DEF PutBump, BumpHasRow
  <2>3. QED
    BY <2>1, <2>2, <1>a, <1>c, FlightEntered
<1>3. ASSUME NEW p \in Procs, PutInsert(p)
      PROVE  refCount'[s] <= Refs(s)' + Cardinality(InFlight(s)')
  <2>1. OwnStep(p)
    BY <1>3, OwnSteps DEF Puts
  <2>2. /\ pc[p] = "insert" /\ pc'[p] = "record" /\ call'[p].sha = call[p].sha
        /\ refCount' = [refCount EXCEPT ![call[p].sha] = 1] /\ call[p].sha \notin rows
        /\ UNCHANGED <<holders, samples>>
    BY <1>3, <1>a DEF PutInsert, PutKnows
  <2>3. refCount'[s] <= IF s = call[p].sha THEN refCount[s] + 1 ELSE refCount[s]
    BY <2>2, <1>a DEF NoRowNoCount
  <2>4. refCount'[s] \in Nat
    BY <2>2, <1>a
  <2>5. QED
    BY <2>1, <2>2, <2>3, <2>4, <1>c, FlightEntered
<1>4. ASSUME NEW p \in Procs, PutRecord(p)
      PROVE  refCount'[s] <= Refs(s)' + Cardinality(InFlight(s)')
  <2>1. OwnStep(p)
    BY <1>4, OwnSteps DEF Puts
  <2>2. /\ pc[p] = "record" /\ pc'[p] = "idle" /\ call[p].sha \in rows /\ call[p].sha \in Shas
        /\ refCount' = refCount
    BY <1>4, <1>a DEF PutRecord, PutKnows
  <2>3. holders'[s] + samples'[s] = IF s = call[p].sha THEN holders[s] + samples[s] + 1
                                                       ELSE holders[s] + samples[s]
    <3>1. CASE holders' = [holders EXCEPT ![call[p].sha] = @ + 1] /\ UNCHANGED samples
      BY <3>1, <2>2, <1>a
    <3>2. CASE samples' = [samples EXCEPT ![call[p].sha] = @ + 1] /\ UNCHANGED holders
      BY <3>2, <2>2, <1>a
    <3>3. QED
      BY <1>4, <2>2, <3>1, <3>2 DEF PutRecord
  <2>4. QED
    BY <2>1, <2>2, <2>3, <1>c, FlightLeft
<1>5. ASSUME NEW p \in Procs, ReleaseDec(p)
      PROVE  refCount'[s] <= Refs(s)' + Cardinality(InFlight(s)')
  <2>1. OwnStep(p)
    BY <1>5, OwnSteps DEF Removes
  <2>2. /\ pc[p] = "dec" /\ pc'[p] = "check" /\ call[p].sha \in Shas
        /\ refCount' = [refCount EXCEPT ![call[p].sha] = IF @ > 0 THEN @ - 1 ELSE @]
        /\ UNCHANGED <<holders, samples>>
    BY <1>5, <1>a, <1>b DEF ReleaseDec
  <2>3. refCount[call[p].sha] # 0
    BY <2>2, CoveredFacts
  <2>4. refCount'[s] = IF s = call[p].sha THEN refCount[s] - 1 ELSE refCount[s]
    BY <2>2, <2>3, <1>a
  <2>5. QED
    BY <2>1, <2>2, <2>4, <1>c, FlightLeft
<1>6. ASSUME NEW p \in Procs,
             ReleaseCheck(p) \/ ReleaseUnlink(p) \/ GcUnlink(p) \/ GcDone(p) \/ BeginGc(p) \/ Exit(p)
      PROVE  refCount'[s] <= Refs(s)' + Cardinality(InFlight(s)')
  <2>1. OwnStep(p)
    BY <1>6, OwnSteps DEF Removes, Begins
  <2>2. /\ pc[p] \notin {"record", "dec"} /\ pc'[p] \notin {"record", "dec"}
        /\ UNCHANGED <<refCount, holders, samples>>
    BY <1>6, <1>a DEF ReleaseCheck, ReleaseUnlink, GcUnlink, GcDone, BeginGc, MayStart, Exit
  <2>3. QED
    BY <2>1, <2>2, <1>d
<1>7. ASSUME NEW p \in Procs, ReleaseDelete(p)
      PROVE  refCount'[s] <= Refs(s)' + Cardinality(InFlight(s)')
  <2>1. OwnStep(p)
    BY <1>7, OwnSteps DEF Removes
  <2>2. /\ pc[p] = "delete" /\ pc'[p] \notin {"record", "dec"}
        /\ UNCHANGED <<holders, samples>>
    BY <1>7, <1>a DEF ReleaseDelete
  <2>3. refCount'[s] = refCount[s]
    BY <1>7, <1>a DEF ReleaseDelete, DeleteRow, DeleteAtZero
  <2>4. QED
    BY <2>1, <2>2, <2>3, <1>d
<1>8. ASSUME NEW p \in Procs, GcDelete(p)
      PROVE  refCount'[s] <= Refs(s)' + Cardinality(InFlight(s)')
  <2>1. OwnStep(p)
    BY <1>8, OwnSteps DEF Removes
  <2>2. /\ pc[p] = "sweepDelete" /\ pc'[p] \notin {"record", "dec"}
        /\ UNCHANGED <<holders, samples>>
    BY <1>8, <1>a DEF GcDelete
  <2>3. refCount[call[p].sha] = 0
    BY <2>2 DEF SweepAtZero, GcSteps
  <2>4. refCount'[s] = refCount[s]
    BY <1>8, <2>3, <1>a DEF GcDelete, DeleteRow
  <2>5. QED
    BY <2>1, <2>2, <2>4, <1>d
<1>9. ASSUME NEW p \in Procs, NEW u \in Shas, NEW k \in Kinds, BeginPut(p, u, k)
      PROVE  refCount'[s] <= Refs(s)' + Cardinality(InFlight(s)')
  <2>1. OwnStep(p)
    BY <1>9, OwnSteps DEF Begins
  <2>2. /\ pc[p] = "idle" /\ pc'[p] = "count" /\ UNCHANGED <<refCount, holders, samples>>
    BY <1>9, <1>a DEF BeginPut, MayStart
  <2>3. QED
    BY <2>1, <2>2, <1>d
<1>10. ASSUME NEW p \in Procs, NEW u \in Shas, BeginRelease(p, u)
      PROVE  refCount'[s] <= Refs(s)' + Cardinality(InFlight(s)')
  <2>1. OwnStep(p)
    BY <1>10, OwnSteps DEF Begins
  <2>2. /\ pc[p] = "idle" /\ pc'[p] = "dec" /\ call'[p].sha = u
        /\ UNCHANGED <<refCount, samples>>
        /\ holders' = [holders EXCEPT ![u] = @ - 1]
    BY <1>10, <1>a DEF BeginRelease, MayStart
  <2>3. QED
    BY <2>1, <2>2, <1>a, <1>c, FlightEntered
<1>11. ASSUME NEW p \in Procs, Abort(p) PROVE FALSE
  BY <1>11, <1>a DEF Abort
<1>12. CASE UNCHANGED vars
  BY <1>12, <1>c DEF vars, InFlight
<1>13. QED
  BY <1>1, <1>2, <1>3, <1>4, <1>5, <1>6, <1>7, <1>8, <1>9, <1>10, <1>11, <1>12 DEF Next, Step

\* A file without a row is on its way in or out.
LEMMA NoFileLeftStep ==
  /\ TypeOK /\ Linked /\ PutAlone /\ PutKnows /\ RemoverKnows /\ NoFileLeft /\ aborts' = 0
  /\ [Next]_vars
  => NoFileLeft'
<1> SUFFICES ASSUME TypeOK, Linked, PutAlone, PutKnows, RemoverKnows, NoFileLeft, aborts' = 0,
                    [Next]_vars, NEW s \in Shas, file'[s] # "none", s \notin rows'
             PROVE  Shelved(s)'
  BY DEF NoFileLeft, Shelved, At
<1>a. /\ pc \in [Procs -> Busy \cup {"idle", "failed"}] /\ call \in [Procs -> Calls]
      /\ rows \subseteq Shas /\ aborts \in Nat
      /\ file \in [Shas -> Content] /\ tmp \in [Shas -> Content]
      /\ fd \in [Procs -> {"none", "tmp", "file", "gone"}]
      /\ \A p \in Procs : pc[p] \in OnContent => call[p].sha \in Shas
  BY DEF TypeOK, CallsOK
<1>b. PutSteps \subseteq OnContent /\ ReleaseSteps \subseteq OnContent
      /\ PutSteps = {"count", "bump", "create", "write", "rename", "insert", "record"}
      /\ ReleaseSteps = {"dec", "check", "delete", "unlink"}
  BY DEF OnContent, PutSteps, ReleaseSteps
<1>c. file[s] # "none" /\ s \notin rows => Shelved(s)
  BY DEF NoFileLeft
<1>. USE DEF Goto, Leave, store, disk
<1>1. ASSUME NEW p \in Procs, PutRename(p) PROVE Shelved(s)'
  <2>1. OwnStep(p) /\ call[p].sha \in Shas /\ pc[p] = "rename"
    BY <1>1, <1>a, <1>b, OwnSteps DEF Puts, PutRename
  <2>2. pc'[p] = "insert" /\ UNCHANGED call /\ UNCHANGED rows
        /\ file' = [file EXCEPT ![call[p].sha] = tmp[call[p].sha]]
    BY <1>1, <1>a DEF PutRename, PutKnows
  <2>3. CASE call[p].sha = s
    BY <2>2, <2>3 DEF Shelved, At
  <2>4. CASE call[p].sha # s
    BY <2>1, <2>2, <2>4, <1>a, <1>c, ShelvedStays
  <2>5. QED
    BY <2>3, <2>4
<1>2. ASSUME NEW p \in Procs, PutWrite(p) PROVE Shelved(s)'
  <2>1. OwnStep(p) /\ pc[p] = "write"
    BY <1>2, OwnSteps DEF Puts, PutWrite
  <2>2. UNCHANGED <<file, rows>>
    BY <1>2, <1>a DEF PutWrite, PutKnows
  <2>3. QED
    BY <2>1, <2>2, <1>c, ShelvedStays
<1>3. ASSUME NEW p \in Procs, PutInsert(p) PROVE Shelved(s)'
  <2>1. OwnStep(p) /\ pc[p] = "insert"
    BY <1>3, OwnSteps DEF Puts, PutInsert
  <2>2. UNCHANGED file /\ rows' = rows \cup {call[p].sha}
    BY <1>3, <1>a DEF PutInsert, PutKnows
  <2>3. QED
    BY <2>1, <2>2, <1>c, ShelvedStays
<1>4. ASSUME NEW p \in Procs, PutCount(p) \/ PutBump(p) \/ PutCreate(p) \/ PutRecord(p)
      PROVE  Shelved(s)'
  <2>1. OwnStep(p)
    BY <1>4, OwnSteps DEF Puts
  <2>2. UNCHANGED <<file, rows>> /\ pc[p] \notin {"insert", "unlink"}
    BY <1>4 DEF PutCount, PutBump, PutCreate, PutRecord
  <2>3. QED
    BY <2>1, <2>2, <1>c, ShelvedStays
<1>5. ASSUME NEW p \in Procs, ReleaseDelete(p) PROVE Shelved(s)'
  <2>1. OwnStep(p) /\ pc[p] = "delete" /\ UNCHANGED file
    BY <1>5, OwnSteps DEF Removes, ReleaseDelete
  <2>2. CASE s \in rows
    <3>1. call[p].sha = s /\ pc'[p] = "unlink" /\ call'[p].sha = s
      BY <1>5, <2>2, <1>a DEF ReleaseDelete, DeleteRow
    <3>2. QED
      BY <3>1 DEF Shelved, At
  <2>3. CASE s \notin rows
    BY <2>1, <2>3, <1>c, ShelvedStays
  <2>4. QED
    BY <2>2, <2>3
<1>6. ASSUME NEW p \in Procs, GcDelete(p) PROVE Shelved(s)'
  <2>1. OwnStep(p) /\ pc[p] = "sweepDelete" /\ UNCHANGED file
    BY <1>6, OwnSteps DEF Removes, GcDelete
  <2>2. s \notin rows
    <3>1. call[p].sha # s
      BY <2>1 DEF RemoverKnows
    <3>2. QED
      BY <1>6, <3>1 DEF GcDelete, DeleteRow
  <2>3. QED
    BY <2>1, <2>2, <1>c, ShelvedStays
<1>7. ASSUME NEW p \in Procs, ReleaseUnlink(p) PROVE Shelved(s)'
  <2>1. OwnStep(p) /\ pc[p] = "unlink" /\ UNCHANGED rows /\ call[p].sha \in Shas
    BY <1>7, <1>a, <1>b, OwnSteps DEF Removes, ReleaseUnlink
  <2>2. call[p].sha # s /\ file[s] # "none"
    BY <1>7, <2>1, <1>a DEF ReleaseUnlink
  <2>3. QED
    BY <2>1, <2>2, <1>c, ShelvedStays
<1>8. ASSUME NEW p \in Procs, ReleaseDec(p) \/ ReleaseCheck(p) \/ GcUnlink(p) \/ GcDone(p)
      PROVE  Shelved(s)'
  <2>1. OwnStep(p) /\ UNCHANGED rows /\ pc[p] \notin {"insert", "unlink"}
    BY <1>8, OwnSteps DEF Removes, ReleaseDec, ReleaseCheck, GcUnlink, GcDone
  <2>2. file[s] # "none"
    BY <1>8, <1>a, RemovesEffect DEF Removes
  <2>3. QED
    BY <2>1, <2>2, <1>c, ShelvedStays
<1>9. ASSUME NEW p \in Procs, Begins(p) \/ Exit(p) PROVE Shelved(s)'
  <2>1. /\ UNCHANGED <<rows, file>> /\ OwnStep(p) /\ pc[p] \notin {"insert", "unlink"}
    BY <1>9, BeginsEffect, EndsEffect, OwnSteps
  <2>2. QED
    BY <2>1, <1>c, ShelvedStays
<1>10. ASSUME NEW p \in Procs, Abort(p) PROVE FALSE
  BY <1>10, <1>a DEF Abort
<1>11. CASE UNCHANGED vars
  BY <1>11, <1>c DEF vars, Shelved, At
<1>12. QED
  BY <1>1, <1>2, <1>3, <1>4, <1>5, <1>6, <1>7, <1>8, <1>9, <1>10, <1>11, StepKinds
     DEF Puts, Removes

\* A tmp file belongs to a put that is writing it.
LEMMA NoTmpLeftStep ==
  TypeOK /\ Linked /\ PutKnows /\ NoTmpLeft /\ aborts' = 0 /\ [Next]_vars => NoTmpLeft'
<1> SUFFICES ASSUME TypeOK, Linked, PutKnows, NoTmpLeft, aborts' = 0, [Next]_vars,
                    NEW s \in Shas, tmp'[s] # "none"
             PROVE  Spooled(s)'
  BY DEF NoTmpLeft, Spooled, At
<1>a. /\ pc \in [Procs -> Busy \cup {"idle", "failed"}] /\ call \in [Procs -> Calls]
      /\ aborts \in Nat /\ tmp \in [Shas -> Content]
      /\ \A p \in Procs : pc[p] \in OnContent => call[p].sha \in Shas
  BY DEF TypeOK, CallsOK
<1>b. {"create", "write", "rename"} \subseteq OnContent
  BY DEF OnContent, PutSteps
<1>c. tmp[s] # "none" => Spooled(s)
  BY DEF NoTmpLeft
<1>. USE DEF Goto, Leave, store, disk
<1>1. ASSUME NEW p \in Procs, PutCreate(p) PROVE Spooled(s)'
  <2>1. OwnStep(p) /\ pc[p] = "create" /\ pc'[p] = "write" /\ UNCHANGED call
    BY <1>1, <1>a, OwnSteps DEF Puts, PutCreate
  <2>2. CASE call[p].sha = s
    BY <2>1, <2>2 DEF Spooled, At
  <2>3. CASE call[p].sha # s
    BY <1>1, <2>1, <2>3, <1>a, <1>c, SpooledStays DEF PutCreate
  <2>4. QED
    BY <2>2, <2>3
<1>2. ASSUME NEW p \in Procs, PutWrite(p) PROVE Spooled(s)'
  <2>1. OwnStep(p) /\ pc[p] = "write" /\ pc'[p] = "rename" /\ UNCHANGED call
    BY <1>2, <1>a, OwnSteps DEF Puts, PutWrite
  <2>2. CASE call[p].sha = s
    BY <2>1, <2>2 DEF Spooled, At
  <2>3. CASE call[p].sha # s
    BY <1>2, <2>1, <2>3, <1>a, <1>c, SpooledStays DEF PutWrite
  <2>4. QED
    BY <2>2, <2>3
<1>3. ASSUME NEW p \in Procs, PutRename(p) PROVE Spooled(s)'
  <2>1. OwnStep(p) /\ pc[p] = "rename" /\ call[p].sha \in Shas
    BY <1>3, <1>a, <1>b, OwnSteps DEF Puts, PutRename
  <2>2. tmp' = [tmp EXCEPT ![call[p].sha] = "none"]
    BY <1>3, <1>a DEF PutRename, PutKnows
  <2>3. call[p].sha # s /\ tmp[s] # "none"
    BY <2>1, <2>2, <1>a
  <2>4. QED
    BY <2>1, <2>3, <1>c, SpooledStays
<1>4. ASSUME NEW p \in Procs, PutCount(p) \/ PutBump(p) \/ PutInsert(p) \/ PutRecord(p)
      PROVE  Spooled(s)'
  <2>1. OwnStep(p)
    BY <1>4, OwnSteps DEF Puts
  <2>2. UNCHANGED tmp /\ pc[p] \notin {"write", "rename"}
    BY <1>4 DEF PutCount, PutBump, PutInsert, PutRecord
  <2>3. QED
    BY <2>1, <2>2, <1>c, SpooledStays
<1>5. ASSUME NEW p \in Procs, Removes(p) \/ Begins(p) \/ Exit(p) PROVE Spooled(s)'
  <2>1. UNCHANGED tmp /\ OwnStep(p) /\ pc[p] \notin {"write", "rename"}
    BY <1>5, RemovesEffect, BeginsEffect, EndsEffect, OwnSteps DEF ReleaseSteps, GcSteps
  <2>2. QED
    BY <2>1, <1>c, SpooledStays
<1>6. ASSUME NEW p \in Procs, Abort(p) PROVE FALSE
  BY <1>6, <1>a DEF Abort
<1>7. CASE UNCHANGED vars
  BY <1>7, <1>c DEF vars, Spooled, At
<1>8. QED
  BY <1>1, <1>2, <1>3, <1>4, <1>5, <1>6, <1>7, StepKinds DEF Puts

-----------------------------------------------------------------------------
LEMMA AbortsRise == TypeOK /\ [Next]_vars => aborts <= aborts' /\ aborts' \in Nat
<1> SUFFICES ASSUME TypeOK, [Next]_vars PROVE aborts <= aborts' /\ aborts' \in Nat
  OBVIOUS
<1>1. aborts \in Nat
  BY DEF TypeOK
<1>2. UNCHANGED vars => UNCHANGED aborts
  BY DEF vars
<1>3. QED
  BY <1>1, <1>2, StepKinds, PutsEffect, RemovesEffect, BeginsEffect, EndsEffect

LEMMA ExactInit == Init => EInv
<1> SUFFICES ASSUME Init PROVE EInv
  OBVIOUS
<1>1. IInv
  BY InitInv
<1>2. PutAlone /\ PutKnows /\ RemoverKnows /\ ZeroReleased /\ FilesKept
  BY DEF Init, PutAlone, PutKnows, RemoverKnows, ZeroReleased, FilesKept, NoCall
<1>3. \A s \in Shas : InFlight(s) = {} /\ Refs(s) = 0 /\ refCount[s] = 0
  BY DEF Init, InFlight, Refs
<1>4. CountedExact
  BY <1>3, FS_EmptySet DEF CountedExact
<1>5. NoFileLeft /\ NoTmpLeft
  BY DEF Init, NoFileLeft, NoTmpLeft
<1>6. QED
  BY <1>1, <1>2, <1>4, <1>5 DEF EInv, Kept, Exact

LEMMA ExactStep == EInv /\ [Next]_vars => EInv'
<1> SUFFICES ASSUME EInv, [Next]_vars PROVE EInv'
  OBVIOUS
<1>1. IInv'
  BY StepInv DEF EInv
<1>2. ASSUME PutsAlone' PROVE Kept' /\ (aborts' = 0 => Exact')
  <2>1. PutsAlone /\ PutsApart /\ Kept /\ (aborts = 0 => Exact)
    BY <1>2, OverlapKept DEF PutsAlone, PutsApart, EInv
  <2>2. TypeOK /\ Linked /\ NoRowNoCount /\ BumpHasRow /\ DeleteAtZero /\ SweepAtZero /\ Counted
    BY <2>1 DEF EInv, IInv, Apart
  <2>3. PutAlone' /\ PutKnows' /\ RemoverKnows'
    BY <2>1, <2>2, PutAloneStep, PutKnowsStep, RemoverKnowsStep DEF Kept
  <2>4. ZeroReleased' /\ FilesKept'
    BY <2>1, <2>2, ZeroStepReleased, FilesStep DEF Kept
  <2>5. ASSUME aborts' = 0 PROVE Exact'
    <3>1. Exact
      BY <2>1, <2>2, <2>5, AbortsRise DEF TypeOK
    <3>2. QED
      BY <2>1, <2>2, <2>5, <3>1, CountedExactStep, NoFileLeftStep, NoTmpLeftStep DEF Kept, Exact
  <2>6. QED
    BY <2>3, <2>4, <2>5 DEF Kept
<1>3. QED
  BY <1>1, <1>2 DEF EInv

\* If puts run alone and at most one operation has been cut short, whatever a
\* session, profile or sample row names can be read back in full.
THEOREM OwnedReadableHolds == Spec => []OwnedReadable
<1>1. EInv => OwnedReadable
  <2> SUFFICES ASSUME EInv, PutsAlone, aborts <= 1, NEW s \in Shas, Refs(s) > 0
               PROVE  file[s] = "full"
    BY DEF OwnedReadable, Readable
  <2>1. TypeOK /\ NoRowNoCount /\ Counted /\ FilesKept
    BY DEF EInv, IInv, Apart, PutsAlone, Kept
  <2>2. refCount[s] # 0
    BY <2>1, CoveredFacts
  <2>3. QED
    BY <2>1, <2>2 DEF NoRowNoCount, FilesKept
<1>2. QED
  BY <1>1, ExactInit, ExactStep, PTL DEF Spec

\* If puts run alone and nothing is cut short, then between operations every
\* count is the number of its owners, and exactly the contents with an owner
\* have a row and a file.
THEOREM QuiescentExactHolds == Spec => []QuiescentExact
<1>1. EInv => QuiescentExact
  <2> SUFFICES ASSUME EInv, PutsAlone, aborts = 0, \A p \in Procs : pc[p] = "idle",
                      NEW s \in Shas
               PROVE  /\ refCount[s] = Refs(s)
                      /\ s \in rows <=> Refs(s) > 0
                      /\ file[s] = IF s \in rows THEN "full" ELSE "none"
                      /\ tmp[s] = "none"
    BY DEF QuiescentExact
  <2>1. TypeOK /\ NoRowNoCount /\ Counted /\ FilesKept /\ ZeroReleased /\ Exact
    BY DEF EInv, IInv, Apart, PutsAlone, Kept
  <2>2. InFlight(s) = {} /\ Refs(s) \in Nat /\ refCount[s] \in Nat
    BY <2>1 DEF InFlight, Refs, TypeOK
  <2>3. refCount[s] = Refs(s)
    BY <2>1, <2>2, FS_EmptySet DEF Counted, CountedExact, Exact
  <2>4. s \in rows => refCount[s] # 0
    BY <2>1 DEF ZeroReleased, Releasing, At
  <2>5. s \in rows <=> Refs(s) > 0
    BY <2>1, <2>2, <2>3, <2>4 DEF NoRowNoCount
  <2>6. s \in rows => file[s] = "full"
    BY <2>1, <2>4 DEF FilesKept
  <2>7. s \notin rows => file[s] = "none"
    BY <2>1 DEF Exact, NoFileLeft, Shelved, At
  <2>8. tmp[s] = "none"
    BY <2>1 DEF Exact, NoTmpLeft, Spooled, At
  <2>9. QED
    BY <2>3, <2>5, <2>6, <2>7, <2>8
<1>2. QED
  BY <1>1, ExactInit, ExactStep, PTL DEF Spec
=============================================================================
