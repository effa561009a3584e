--------------------------- MODULE ProfilesProofs ---------------------------
(***************************************************************************)
(* Theorems about Profiles, for any number of processes, fingerprints,     *)
(* versions and rows, and any use of the commands.                         *)
(*                                                                         *)
(* That a fingerprint never has two active rows is inductive once the      *)
(* variables have their types: only promote and rollback make a row        *)
(* active, and the transaction that does it retires every other active row *)
(* of the fingerprint it has read from the row itself.                     *)
(*                                                                         *)
(* The rest needs who may hold a row when it changes: first what a step    *)
(* does to the processes (Processes), then to the rows (SameRows, Inserted,*)
(* Deleted), and from both the ids commands hold, the rows installations   *)
(* have in hand and the references of the DSL blobs.                       *)
(*                                                                         *)
(* Last, that the table without its rowids keeps ProfilePromise.           *)
(***************************************************************************)
EXTENDS Profiles, SetInduction, TLAPS

-----------------------------------------------------------------------------
(* How the locals of a command and the rows of the table keep their types. *)

LEMMA LocalsOf ==
  ASSUME NEW c \in Cmds
  PROVE  /\ c.id \in Ids \cup {0} /\ c.fp \in Fps \cup {None}
         /\ c.todo \subseteq Ids /\ c.dsl \subseteq Dsls
  BY DEF Cmds

LEMMA LocalsType ==
  ASSUME NEW c \in Cmds, NEW i \in Ids \cup {0}, NEW todo \in SUBSET Ids, NEW dsl \in SUBSET Dsls
  PROVE  /\ [c EXCEPT !.id = i] \in Cmds /\ [c EXCEPT !.id = i].fp = c.fp
         /\ [c EXCEPT !.dsl = dsl] \in Cmds /\ [c EXCEPT !.dsl = dsl].fp = c.fp
         /\ [c EXCEPT !.id = i, !.dsl = dsl] \in Cmds
         /\ [c EXCEPT !.id = i, !.dsl = dsl].fp = c.fp
         /\ [c EXCEPT !.id = i, !.todo = todo, !.dsl = dsl] \in Cmds
         /\ [c EXCEPT !.id = i, !.todo = todo, !.dsl = dsl].fp = c.fp
  BY DEF Cmds

\* A step of p that changes its locals, but not the fingerprint.
LEMMA MoveType ==
  ASSUME CommandsOK, NEW p \in Procs, pc[p] # "idle", NEW step \in Busy, Goto(p, step),
         NEW c \in Cmds, c.fp = cmd[p].fp, cmd' = [cmd EXCEPT ![p] = c]
  PROVE  CommandsOK'
  BY DEF CommandsOK, Goto

\* A step of p that leaves its locals alone.
LEMMA GotoType ==
  ASSUME CommandsOK, NEW p \in Procs, pc[p] # "idle", NEW step \in Busy, Goto(p, step),
         UNCHANGED cmd
  PROVE  CommandsOK'
  BY DEF CommandsOK, Goto

LEMMA LeaveType ==
  ASSUME CommandsOK, NEW p \in Procs, Leave(p)
  PROVE  CommandsOK'
<1>1. NoCmd \in Cmds
  BY DEF NoCmd, Cmds
<1>2. QED
  BY <1>1 DEF CommandsOK, Leave, Goto

LEMMA BeginType ==
  ASSUME CommandsOK, NEW p \in Procs,
         NEW op \in {"run", "install", "revoke", "purge"}, NEW f \in Fps,
         NEW i \in Ids \cup {0}, NEW todo \in SUBSET Ids, NEW dsl \in SUBSET Dsls,
         NEW step \in Busy, Begin(p, op, f, i, todo, dsl, step)
  PROVE  CommandsOK'
<1> DEFINE c == [op |-> op, fp |-> f, id |-> i, todo |-> todo, dsl |-> dsl]
<1>1. c \in Cmds /\ c.fp = f
  BY DEF Cmds
<1>2. cmd' = [cmd EXCEPT ![p] = c] /\ Goto(p, step)
  BY DEF Begin
<1> HIDE DEF c
<1>3. QED
  BY <1>1, <1>2 DEF CommandsOK, Goto

LEMMA AfterInstallType ==
  ASSUME CommandsOK, NEW p \in Procs, pc[p] # "idle", AfterInstall(p)
  PROVE  CommandsOK'
<1>1. CASE cmd[p].op = "run"
  <2> DEFINE c == [cmd[p] EXCEPT !.id = 0, !.dsl = {}]
  <2>1. cmd' = [cmd EXCEPT ![p] = c] /\ Goto(p, "session")
    BY <1>1 DEF AfterInstall
  <2>2. "session" \in Busy /\ cmd[p] \in Cmds
    BY DEF Busy, RunSteps, CommandsOK
  <2>3. c \in Cmds /\ c.fp = cmd[p].fp
    BY <2>2 DEF Cmds
  <2> HIDE DEF c
  <2>4. QED
    BY <2>1, <2>2, <2>3, MoveType
<1>2. CASE cmd[p].op # "run"
  BY <1>2, LeaveType DEF AfterInstall
<1>3. QED
  BY <1>1, <1>2

\* The transaction of promote and rollback yields a table.
LEMMA ActivateType ==
  ASSUME profile \in Table, NEW i, Exists(i)
  PROVE  Activate(i) \in Table
<1>1. i \in Ids => profile[i] \in Row
  BY DEF Table, Exists
<1>2. \A j \in Active(profile[i].fp) : profile[j] \in Row
  BY DEF Table, Active, NoRow
<1>3. \A r \in Row, st \in Status : [r EXCEPT !.status = st] \in Row
  BY DEF Row
<1>4. QED
  BY <1>1, <1>2, <1>3 DEF Activate, Table, Status

LEMMA StatusType ==
  ASSUME profile \in Table, NEW i, NEW st \in Status, SetStatus(i, st)
  PROVE  profile' \in Table
<1>1. \A r \in Row : [r EXCEPT !.status = st] \in Row
  BY DEF Row
<1>2. QED
  BY <1>1 DEF Table, SetStatus, Exists

\* A row names a DSL blob.
LEMMA ExistsId ==
  ASSUME profile \in Table, NEW i \in Ids, Exists(i)
  PROVE  profile[i] \in Row /\ DslOf(i) \in Dsls
  BY DEF Table, Exists, Row, DslOf, Dsls

-----------------------------------------------------------------------------
LEMMA TypeInit == Init => TypeOK
<1>1. NoCmd \in Cmds
  BY DEF NoCmd, Cmds
<1>2. QED
  BY <1>1 DEF Init, TypeOK, Table, CommandsOK

\* Steps of `nid <cmd>` and of an installation.
LEMMA RunTypes ==
  ASSUME TypeOK, NEW p \in Procs,
         \/ RunLearn(p) \/ RunQuarantine(p) \/ RunPlain(p) \/ RunSession(p) \/ RunSkew(p)
         \/ PutDsl(p) \/ InsertPending(p) \/ Promote(p)
  PROVE  TypeOK'
<1>. USE DEF TypeOK, tables, bounds
<1>a. /\ cmd[p] \in Cmds /\ cmd[p].id \in Ids \cup {0}
      /\ cmd[p].dsl \subseteq Dsls
      /\ pc[p] # "idle" => cmd[p].fp \in Fps
  BY LocalsOf DEF CommandsOK
<1>b. {"session", "skew", "put", "insert", "promote"} \subseteq Busy
  BY DEF Busy, RunSteps, InstallSteps
<1>1. CASE RunLearn(p)
  <2>1. PICK v \in Learned : cmd' = [cmd EXCEPT ![p].dsl = {<<cmd[p].fp, v>>}]
    BY <1>1 DEF RunLearn
  <2> DEFINE c == [cmd[p] EXCEPT !.dsl = {<<cmd[p].fp, v>>}]
  <2>2. <<cmd[p].fp, v>> \in Dsls
    BY <1>1, <1>a, NamesAssumption DEF RunLearn, Dsls
  <2>3. c \in Cmds /\ c.fp = cmd[p].fp
    BY <1>a, <2>2, LocalsType
  <2>4. cmd' = [cmd EXCEPT ![p] = c]
    BY <2>1
  <2> HIDE DEF c
  <2>5. CommandsOK'
    BY <1>1, <1>b, <2>3, <2>4, MoveType DEF RunLearn
  <2>6. QED
    BY <1>1, <2>5 DEF RunLearn
<1>2. CASE RunQuarantine(p)
  <2>1. profile' \in Table
    BY <1>2, <1>a, StatusType DEF RunQuarantine, Status
  <2>2. CommandsOK'
    BY <1>2, <1>b, GotoType DEF RunQuarantine
  <2>3. QED
    BY <1>2, <2>1, <2>2 DEF RunQuarantine
<1>3. CASE RunPlain(p)
  <2>1. CommandsOK'
    BY <1>3, <1>b, GotoType DEF RunPlain
  <2>2. QED
    BY <1>3, <2>1 DEF RunPlain
<1>4. CASE RunSession(p)
  <2>1. CommandsOK'
    BY <1>4, <1>b, LeaveType, GotoType DEF RunSession
  <2>2. sessions' \subseteq Ids \X Fps
    BY <1>4, <1>a DEF RunSession
  <2>3. QED
    BY <1>4, <2>1, <2>2 DEF RunSession
<1>5. CASE RunSkew(p)
  <2>1. skewed' \subseteq Ids
    BY <1>5 DEF RunSkew
  <2>2. CommandsOK'
    BY <1>5, LeaveType DEF RunSkew
  <2>3. QED
    BY <1>5, <2>1, <2>2 DEF RunSkew
<1>6. CASE PutDsl(p)
  <2>1. dslRefs' \in [Dsls -> Nat]
    BY <1>6 DEF PutDsl
  <2>2. CommandsOK'
    BY <1>6, <1>b, GotoType DEF PutDsl
  <2>3. QED
    BY <1>6, <2>1, <2>2 DEF PutDsl
<1>7. CASE InsertPending(p)
  <2>1. CASE AfterInstall(p) /\ UNCHANGED profile
    BY <1>7, <2>1, AfterInstallType DEF InsertPending
  <2>2. CASE ~ (AfterInstall(p) /\ UNCHANGED profile)
    <3>1. PICK d \in cmd[p].dsl :
            /\ NextId \in Ids
            /\ profile' = [profile EXCEPT ![NextId] =
                 [fp |-> d[1], ver |-> d[2], status |-> "pending"]]
            /\ cmd' = [cmd EXCEPT ![p].id = NextId]
            /\ Goto(p, "promote")
      BY <1>7, <2>2 DEF InsertPending
    <3>2. [fp |-> d[1], ver |-> d[2], status |-> "pending"] \in Row
      BY <1>a DEF Dsls, Row, Status
    <3>3. profile' \in Table
      BY <3>1, <3>2 DEF Table
    <3> DEFINE c == [cmd[p] EXCEPT !.id = NextId]
    <3>4. c \in Cmds /\ c.fp = cmd[p].fp
      BY <1>a, <3>1, LocalsType
    <3>5. cmd' = [cmd EXCEPT ![p] = c]
      BY <3>1
    <3> HIDE DEF c
    <3>6. CommandsOK'
      BY <1>7, <1>b, <3>1, <3>4, <3>5, MoveType DEF InsertPending
    <3>7. QED
      BY <1>7, <3>3, <3>6 DEF InsertPending
  <2>3. QED
    BY <2>1, <2>2
<1>8. CASE Promote(p)
  <2>1. profile' \in Table
    <3>1. CASE Exists(cmd[p].id)
      BY <1>8, <3>1, ActivateType DEF Promote
    <3>2. CASE ~Exists(cmd[p].id)
      BY <1>8, <3>2 DEF Promote
    <3>3. QED
      BY <3>1, <3>2
  <2>2. CommandsOK'
    BY <1>8, AfterInstallType DEF Promote
  <2>3. QED
    BY <1>8, <2>1, <2>2 DEF Promote
<1>9. QED
  BY <1>1, <1>2, <1>3, <1>4, <1>5, <1>6, <1>7, <1>8
\* Steps of revoke and purge, and a command cut short.
LEMMA AdminTypes ==
  ASSUME TypeOK, NEW p \in Procs,
         \/ RevokeSet(p) \/ PurgeRead(p) \/ PurgeDelete(p) \/ PurgeRelease(p)
         \/ PurgeDone(p) \/ Abort(p)
  PROVE  TypeOK'
<1>. USE DEF TypeOK, tables, bounds
<1>a. /\ cmd[p] \in Cmds /\ cmd[p].id \in Ids \cup {0}
      /\ cmd[p].todo \subseteq Ids
  BY LocalsOf DEF CommandsOK
<1>b. PurgeSteps \subseteq Busy /\ PurgeSteps = {"purge", "purgeDelete", "purgeRelease"}
  BY DEF Busy, PurgeSteps
<1>1. CASE RevokeSet(p)
  <2>1. profile' \in Table
    BY <1>1, StatusType DEF RevokeSet, Status
  <2>2. CommandsOK'
    BY <1>1, LeaveType DEF RevokeSet
  <2>3. QED
    BY <1>1, <2>1, <2>2 DEF RevokeSet
<1>2. CASE PurgeRead(p)
  <2>1. PICK i \in cmd[p].todo :
          cmd' = [cmd EXCEPT ![p].id = i, ![p].todo = @ \ {i},
                             ![p].dsl = IF Exists(i) THEN {DslOf(i)} ELSE {}]
    BY <1>2 DEF PurgeRead
  <2> DEFINE dsl == IF Exists(i) THEN {DslOf(i)} ELSE {}
             todo == cmd[p].todo \ {i}
             c == [cmd[p] EXCEPT !.id = i, !.todo = todo, !.dsl = dsl]
  <2>2. dsl \in SUBSET Dsls /\ todo \in SUBSET Ids /\ i \in Ids \cup {0}
    BY <1>a, ExistsId
  <2>3. cmd' = [cmd EXCEPT ![p] = c]
    BY <1>a, <2>1
  <2>4. c \in Cmds /\ c.fp = cmd[p].fp
    <3>1. ASSUME NEW t \in SUBSET Ids, NEW d \in SUBSET Dsls
          PROVE  LET k == [cmd[p] EXCEPT !.id = i, !.todo = t, !.dsl = d]
                 IN  k \in Cmds /\ k.fp = cmd[p].fp
      BY <1>a, <2>2 DEF Cmds
    <3>2. QED
      BY <2>2, <3>1
  <2> HIDE DEF c
  <2>5. CommandsOK'
    BY <1>2, <1>b, <2>3, <2>4, MoveType DEF PurgeRead
  <2>6. QED
    BY <1>2, <2>5 DEF PurgeRead
<1>3. CASE PurgeDelete(p)
  <2>1. profile' \in Table
    BY <1>3 DEF PurgeDelete, Table
  <2>2. CommandsOK'
    BY <1>3, <1>b, LeaveType, GotoType DEF PurgeDelete
  <2>3. QED
    BY <1>3, <2>1, <2>2 DEF PurgeDelete
<1>4. CASE PurgeRelease(p)
  <2>1. dslRefs' \in [Dsls -> Nat]
    BY <1>4 DEF PurgeRelease
  <2> DEFINE c == [cmd[p] EXCEPT !.id = 0, !.dsl = {}]
  <2>2. c \in Cmds /\ c.fp = cmd[p].fp
    BY <1>a DEF Cmds
  <2>3. cmd' = [cmd EXCEPT ![p] = c]
    BY <1>4 DEF PurgeRelease
  <2> HIDE DEF c
  <2>4. CommandsOK'
    BY <1>4, <1>b, <2>2, <2>3, MoveType DEF PurgeRelease
  <2>5. QED
    BY <1>4, <2>1, <2>4 DEF PurgeRelease
<1>5. CASE PurgeDone(p)
  BY <1>5, LeaveType DEF PurgeDone
<1>6. CASE Abort(p)
  <2>1. pc[p] # "idle"
    BY <1>6 DEF Abort, Busy, RunSteps, InstallSteps, PurgeSteps
  <2>2. CommandsOK'
    BY <1>6, <2>1, LeaveType, AfterInstallType DEF Abort
  <2>3. QED
    BY <1>6, <2>2 DEF Abort
<1>7. QED
  BY <1>1, <1>2, <1>3, <1>4, <1>5, <1>6

\* The steps that begin a command, rollback, and expiry.
LEMMA BeginTypes ==
  ASSUME TypeOK,
         \/ Expire
         \/ \E p \in Procs, f \in Fps :
              \/ RunStart(p, f) \/ Rollback(p, f) \/ RevokeRead(p, f) \/ PurgeList(p, f)
              \/ \E v \in Versions : StartInstall(p, f, v)
  PROVE  TypeOK'
<1>. USE DEF TypeOK, tables, bounds
<1>a. {"running", "revoke", "purge", "put"} \subseteq Busy
  BY DEF Busy, RunSteps, InstallSteps, PurgeSteps
<1>b. \A f \in Fps : Active(f) \subseteq Ids /\ {i \in Ids : profile[i].fp = f} \subseteq Ids
  BY DEF Active
<1>1. CASE Expire
  <2>1. UNCHANGED <<profile, dslRefs, skewed, pc, cmd, aborts, usage>> /\ sessions' \subseteq sessions
    BY <1>1 DEF Expire
  <2>2. QED
    BY <2>1 DEF Table, CommandsOK
<1>2. ASSUME NEW p \in Procs, NEW f \in Fps, RunStart(p, f) PROVE TypeOK'
  <2>1. CommandsOK'
    BY <1>2, <1>a, <1>b, BeginType DEF RunStart
  <2>2. QED
    BY <1>2, <2>1 DEF RunStart
<1>3. ASSUME NEW p \in Procs, NEW f \in Fps, Rollback(p, f) PROVE TypeOK'
  <2>1. PICK i \in Superseded(f) : profile' = Activate(i)
    BY <1>3 DEF Rollback
  <2>2. Exists(i)
    BY DEF Superseded, Exists, NoRow
  <2>3. profile' \in Table
    BY <2>1, <2>2, ActivateType
  <2>4. UNCHANGED <<pc, cmd>>
    BY <1>3 DEF Rollback
  <2>5. CommandsOK'
    BY <2>4 DEF CommandsOK
  <2>6. QED
    BY <1>3, <2>3, <2>5 DEF Rollback
<1>4. ASSUME NEW p \in Procs, NEW f \in Fps, RevokeRead(p, f) PROVE TypeOK'
  <2>1. CommandsOK'
    BY <1>4, <1>a, <1>b, BeginType DEF RevokeRead
  <2>2. QED
    BY <1>4, <2>1 DEF RevokeRead
<1>5. ASSUME NEW p \in Procs, NEW f \in Fps, PurgeList(p, f) PROVE TypeOK'
  <2>1. CommandsOK'
    BY <1>5, <1>a, <1>b, BeginType DEF PurgeList
  <2>2. QED
    BY <1>5, <2>1 DEF PurgeList
<1>6. ASSUME NEW p \in Procs, NEW f \in Fps, NEW v \in Versions, StartInstall(p, f, v)
      PROVE TypeOK'
  <2>1. {<<f, v>>} \in SUBSET Dsls
    BY DEF Dsls
  <2>2. CommandsOK'
    BY <1>6, <1>a, <2>1, BeginType DEF StartInstall
  <2>3. QED
    BY <1>6, <2>2 DEF StartInstall
<1>7. QED
  BY <1>1, <1>2, <1>3, <1>4, <1>5, <1>6

LEMMA TypeStep == TypeOK /\ [Next]_vars => TypeOK'
<1> SUFFICES ASSUME TypeOK, [Next]_vars PROVE TypeOK'
  OBVIOUS
<1>1. CASE UNCHANGED vars
  BY <1>1 DEF vars, TypeOK, CommandsOK
<1>2. CASE Next
  BY <1>2, RunTypes, AdminTypes, BeginTypes DEF Next, Step
<1>3. QED
  BY <1>1, <1>2

\* Every variable keeps its type: the table holds rows, a command under way
\* knows its fingerprint, and no reference count falls below zero.
THEOREM TypeCorrect == Spec => []TypeOK
  BY TypeInit, TypeStep, PTL DEF Spec
-----------------------------------------------------------------------------
\* A step after which every active row was active before, for the same
\* fingerprint.
LEMMA NoNewActive ==
  ASSUME AtMostOneActive,
         \A j \in Ids : profile'[j].status = "active" =>
                          profile[j].status = "active" /\ profile'[j].fp = profile[j].fp
  PROVE  AtMostOneActive'
  BY DEF AtMostOneActive

\* The transaction of promote and rollback.
LEMMA ActivateUnique ==
  ASSUME profile \in Table, AtMostOneActive, NEW i, Exists(i), profile' = Activate(i)
  PROVE  AtMostOneActive'
<1> SUFFICES ASSUME NEW j \in Ids, NEW k \in Ids,
                    profile'[j].status = "active", profile'[k].status = "active",
                    profile'[j].fp = profile'[k].fp
             PROVE  j = k
  BY DEF AtMostOneActive
<1>1. \A r \in Row \cup {NoRow}, st \in Status :
        [r EXCEPT !.status = st].fp = r.fp /\ [r EXCEPT !.status = st].status = st
  BY DEF Row, NoRow
<1>2. \A l \in Ids : profile'[l].fp = profile[l].fp
  BY <1>1 DEF Activate, Table, Status
<1>3. \A l \in Ids : l # i /\ profile'[l].status = "active" =>
                       profile[l].status = "active" /\ l \notin Active(profile[i].fp)
  BY <1>1 DEF Activate, Table, Status
<1>4. \A l \in Ids : l # i /\ profile'[l].status = "active" => profile[l].fp # profile[i].fp
  BY <1>3 DEF Active
<1>5. QED
  BY <1>2, <1>3, <1>4 DEF AtMostOneActive

LEMMA UniqueStep == TypeOK /\ AtMostOneActive /\ [Next]_vars => AtMostOneActive'
<1> SUFFICES ASSUME TypeOK, AtMostOneActive, [Next]_vars PROVE AtMostOneActive'
  OBVIOUS
<1>a. profile \in Table
  BY DEF TypeOK
<1>b. UNCHANGED profile => AtMostOneActive'
  BY NoNewActive
<1>c. ASSUME NEW i, SetStatus(i, "quarantined") PROVE AtMostOneActive'
  <2>1. \A j \in Ids : profile'[j] = profile[j] \/ profile'[j].status = "quarantined"
    <3>1. \A r \in Row \cup {NoRow} : [r EXCEPT !.status = "quarantined"].status = "quarantined"
      BY DEF Row, NoRow
    <3>2. QED
      BY <1>a, <1>c, <3>1 DEF SetStatus, Table
  <2>2. QED
    BY <2>1, NoNewActive
<1>1. ASSUME NEW p \in Procs, RunQuarantine(p) \/ RevokeSet(p) PROVE AtMostOneActive'
  BY <1>c, <1>1 DEF RunQuarantine, RevokeSet
<1>2. ASSUME NEW p \in Procs, InsertPending(p) PROVE AtMostOneActive'
  <2>1. \A j \in Ids : profile'[j] = profile[j] \/ profile'[j].status = "pending"
    BY <1>a, <1>2 DEF InsertPending, Table
  <2>2. QED
    BY <2>1, NoNewActive
<1>3. ASSUME NEW p \in Procs, Promote(p) PROVE AtMostOneActive'
  BY <1>a, <1>b, <1>3, ActivateUnique DEF Promote
<1>4. ASSUME NEW p \in Procs, NEW f \in Fps, Rollback(p, f) PROVE AtMostOneActive'
  <2>1. PICK i \in Superseded(f) : profile' = Activate(i)
    BY <1>4 DEF Rollback
  <2>2. Exists(i)
    BY DEF Superseded, Exists, NoRow
  <2>3. QED
    BY <1>a, <2>1, <2>2, ActivateUnique
<1>5. ASSUME NEW p \in Procs, PurgeDelete(p) PROVE AtMostOneActive'
  <2>1. \A j \in Ids : profile'[j] = profile[j] \/ profile'[j].status = "none"
    BY <1>a, <1>5 DEF PurgeDelete, Table, NoRow
  <2>2. QED
    BY <2>1, NoNewActive
<1>6. ASSUME NEW p \in Procs,
             \/ RunLearn(p) \/ RunPlain(p) \/ RunSession(p) \/ RunSkew(p) \/ PutDsl(p)
             \/ PurgeRead(p) \/ PurgeRelease(p) \/ PurgeDone(p) \/ Abort(p)
      PROVE  UNCHANGED profile
  BY <1>6 DEF RunLearn, RunPlain, RunSession, RunSkew, PutDsl, PurgeRead, PurgeRelease,
              PurgeDone, Abort, tables
<1>7. ASSUME NEW p \in Procs, NEW f \in Fps,
             \/ RunStart(p, f) \/ RevokeRead(p, f) \/ PurgeList(p, f)
             \/ \E v \in Versions : StartInstall(p, f, v)
      PROVE  UNCHANGED profile
  BY <1>7 DEF RunStart, RevokeRead, PurgeList, StartInstall, tables
<1>8. Expire \/ UNCHANGED vars => UNCHANGED profile
  BY DEF Expire, vars
<1>9. QED
  BY <1>b, <1>1, <1>2, <1>3, <1>4, <1>5, <1>6, <1>7, <1>8 DEF Next, Step

\* A fingerprint never has two active profiles, however installations,
\* rollbacks, quarantines and purges of any number of processes interleave.
THEOREM AtMostOneActiveHolds == Spec => []AtMostOneActive
<1>1. Init => AtMostOneActive
  BY DEF Init, AtMostOneActive, NoRow
<1>2. QED
  BY <1>1, UniqueStep, TypeCorrect, PTL DEF Spec
-----------------------------------------------------------------------------
(* What a step does to the processes.                                      *)

Kept(p) == \A q \in Procs : q # p => pc'[q] = pc[q] /\ cmd'[q] = cmd[q]
Left(p) == pc'[p] = "idle" /\ cmd'[p] = NoCmd

\* The locals a step of p does not touch.
SameWork(p) == cmd'[p].op = cmd[p].op /\ cmd'[p].fp = cmd[p].fp

\* A run whose installation is over goes on without a profile.
Settled(p) ==
  \/ Left(p)
  \/ /\ cmd[p].op = "run" /\ SameWork(p)
     /\ pc'[p] = "session" /\ cmd'[p].id = 0 /\ cmd'[p].dsl = {}

LEMMA GotoMoves ==
  ASSUME CommandsOK, NEW p \in Procs, NEW step, Goto(p, step), NEW c, cmd' = [cmd EXCEPT ![p] = c]
  PROVE  Kept(p) /\ pc'[p] = step /\ cmd'[p] = c
  BY DEF CommandsOK, Goto, Kept

LEMMA GotoStays ==
  ASSUME CommandsOK, NEW p \in Procs, NEW step, Goto(p, step), UNCHANGED cmd
  PROVE  Kept(p) /\ pc'[p] = step /\ cmd'[p] = cmd[p]
  BY DEF CommandsOK, Goto, Kept

LEMMA LeaveMoves ==
  ASSUME CommandsOK, NEW p \in Procs, Leave(p)
  PROVE  Kept(p) /\ Left(p)
  BY DEF CommandsOK, Leave, Goto, Kept, Left

LEMMA LocalsMove ==
  ASSUME NEW c \in Cmds, NEW i, NEW todo, NEW dsl
  PROVE  /\ [c EXCEPT !.id = i].id = i /\ [c EXCEPT !.id = i].op = c.op
         /\ [c EXCEPT !.id = i].dsl = c.dsl /\ [c EXCEPT !.id = i].fp = c.fp
         /\ [c EXCEPT !.dsl = dsl].id = c.id /\ [c EXCEPT !.dsl = dsl].op = c.op
         /\ [c EXCEPT !.dsl = dsl].dsl = dsl /\ [c EXCEPT !.dsl = dsl].fp = c.fp
         /\ [c EXCEPT !.id = i, !.dsl = dsl].id = i /\ [c EXCEPT !.id = i, !.dsl = dsl].op = c.op
         /\ [c EXCEPT !.id = i, !.dsl = dsl].dsl = dsl
         /\ [c EXCEPT !.id = i, !.dsl = dsl].fp = c.fp
         /\ [c EXCEPT !.id = i, !.todo = todo, !.dsl = dsl].id = i
         /\ [c EXCEPT !.id = i, !.todo = todo, !.dsl = dsl].op = c.op
         /\ [c EXCEPT !.id = i, !.todo = todo, !.dsl = dsl].dsl = dsl
         /\ [c EXCEPT !.id = i, !.todo = todo, !.dsl = dsl].fp = c.fp
  BY DEF Cmds

LEMMA AfterInstallMoves ==
  ASSUME CommandsOK, NEW p \in Procs, AfterInstall(p)
  PROVE  Kept(p) /\ Settled(p)
<1>1. CASE cmd[p].op = "run"
  <2> DEFINE c == [cmd[p] EXCEPT !.id = 0, !.dsl = {}]
  <2>1. cmd' = [cmd EXCEPT ![p] = c] /\ Goto(p, "session")
    BY <1>1 DEF AfterInstall
  <2>2. c.id = 0 /\ c.dsl = {} /\ c.op = cmd[p].op /\ c.fp = cmd[p].fp
    BY LocalsMove DEF CommandsOK
  <2> HIDE DEF c
  <2>3. QED
    BY <1>1, <2>1, <2>2, GotoMoves DEF Settled, SameWork
<1>2. CASE cmd[p].op # "run"
  BY <1>2, LeaveMoves DEF AfterInstall, Settled
<1>3. QED
  BY <1>1, <1>2

LEMMA BeginMoves ==
  ASSUME CommandsOK, NEW p \in Procs, NEW op, NEW f, NEW i, NEW todo, NEW dsl, NEW step,
         Begin(p, op, f, i, todo, dsl, step)
  PROVE  /\ Kept(p) /\ pc[p] = "idle" /\ pc'[p] = step
         /\ cmd'[p].op = op /\ cmd'[p].fp = f /\ cmd'[p].id = i /\ cmd'[p].dsl = dsl
         /\ usage.purgeAlone => \A q \in Procs :
              IF op = "purge" THEN pc[q] = "idle" ELSE cmd[q].op # "purge"
<1> DEFINE c == [op |-> op, fp |-> f, id |-> i, todo |-> todo, dsl |-> dsl]
<1>1. cmd' = [cmd EXCEPT ![p] = c] /\ Goto(p, step) /\ pc[p] = "idle"
  BY DEF Begin
<1>2. c.op = op /\ c.fp = f /\ c.id = i /\ c.dsl = dsl
  OBVIOUS
<1> HIDE DEF c
<1>3. Kept(p) /\ pc'[p] = step /\ cmd'[p] = c
  BY <1>1, GotoMoves
<1>4. QED
  BY <1>1, <1>2, <1>3 DEF Begin

\* What each step of a process does to its own locals.
LEMMA Moves ==
  ASSUME TypeOK, NEW p \in Procs
  PROVE  /\ RunLearn(p) =>
              /\ Kept(p) /\ SameWork(p) /\ pc'[p] = "put" /\ cmd'[p].id = cmd[p].id
              /\ \A d \in cmd'[p].dsl : d[1] = cmd[p].fp
         /\ RunQuarantine(p) \/ RunPlain(p) => Kept(p) /\ pc'[p] = "session" /\ cmd'[p] = cmd[p]
         /\ RunSession(p) =>
              /\ Kept(p)
              /\ Left(p) \/ (Exists(cmd[p].id) /\ pc'[p] = "skew" /\ cmd'[p] = cmd[p])
         /\ RunSkew(p) \/ RevokeSet(p) \/ PurgeDone(p) => Kept(p) /\ Left(p)
         /\ PutDsl(p) => Kept(p) /\ pc'[p] = "insert" /\ cmd'[p] = cmd[p]
         /\ Promote(p) => Kept(p) /\ Settled(p)
         /\ PurgeDelete(p) =>
              Kept(p) /\ (Left(p) \/ (pc'[p] = "purgeRelease" /\ cmd'[p] = cmd[p]))
         /\ PurgeRelease(p) =>
              Kept(p) /\ SameWork(p) /\ pc'[p] = "purge" /\ cmd'[p].id = 0 /\ cmd'[p].dsl = {}
         /\ Abort(p) => Kept(p) /\ (Left(p) \/ (pc[p] \in InstallSteps /\ Settled(p)))
<1>a. CommandsOK /\ cmd[p] \in Cmds
  BY DEF TypeOK, CommandsOK
<1>1. ASSUME RunLearn(p)
      PROVE  /\ Kept(p) /\ SameWork(p) /\ pc'[p] = "put" /\ cmd'[p].id = cmd[p].id
             /\ \A d \in cmd'[p].dsl : d[1] = cmd[p].fp
  <2>1. PICK v \in Learned : cmd' = [cmd EXCEPT ![p].dsl = {<<cmd[p].fp, v>>}]
    BY <1>1 DEF RunLearn
  <2> DEFINE c == [cmd[p] EXCEPT !.dsl = {<<cmd[p].fp, v>>}]
  <2>2. cmd' = [cmd EXCEPT ![p] = c] /\ Goto(p, "put")
    BY <1>1, <2>1 DEF RunLearn
  <2>3. c.dsl = {<<cmd[p].fp, v>>} /\ c.op = cmd[p].op /\ c.fp = cmd[p].fp /\ c.id = cmd[p].id
    BY <1>a, LocalsMove
  <2> HIDE DEF c
  <2>4. Kept(p) /\ pc'[p] = "put" /\ cmd'[p] = c
    BY <1>a, <2>2, GotoMoves
  <2>5. \A d \in c.dsl : d = <<cmd[p].fp, v>>
    BY <2>3
  <2>6. \A d \in cmd'[p].dsl : d[1] = cmd[p].fp
    BY <2>4, <2>5
  <2>7. QED
    BY <2>3, <2>4, <2>6 DEF SameWork
<1>2. RunQuarantine(p) \/ RunPlain(p) => Kept(p) /\ pc'[p] = "session" /\ cmd'[p] = cmd[p]
  BY <1>a, GotoStays DEF RunQuarantine, RunPlain, bounds
<1>3. RunSession(p) =>
        Kept(p) /\ (Left(p) \/ (Exists(cmd[p].id) /\ pc'[p] = "skew" /\ cmd'[p] = cmd[p]))
  BY <1>a, GotoStays, LeaveMoves DEF RunSession
<1>4. RunSkew(p) \/ RevokeSet(p) \/ PurgeDone(p) => Kept(p) /\ Left(p)
  BY <1>a, LeaveMoves DEF RunSkew, RevokeSet, PurgeDone
<1>5. PutDsl(p) => Kept(p) /\ pc'[p] = "insert" /\ cmd'[p] = cmd[p]
  BY <1>a, GotoStays DEF PutDsl
<1>6. Promote(p) => Kept(p) /\ Settled(p)
  BY <1>a, AfterInstallMoves DEF Promote
<1>7. PurgeDelete(p) =>
        Kept(p) /\ (Left(p) \/ (pc'[p] = "purgeRelease" /\ cmd'[p] = cmd[p]))
  BY <1>a, LeaveMoves, GotoStays DEF PurgeDelete
<1>8. ASSUME PurgeRelease(p)
      PROVE  Kept(p) /\ SameWork(p) /\ pc'[p] = "purge" /\ cmd'[p].id = 0 /\ cmd'[p].dsl = {}
  <2> DEFINE c == [cmd[p] EXCEPT !.id = 0, !.dsl = {}]
  <2>1. cmd' = [cmd EXCEPT ![p] = c] /\ Goto(p, "purge")
    BY <1>8 DEF PurgeRelease
  <2>2. c.id = 0 /\ c.dsl = {} /\ c.op = cmd[p].op /\ c.fp = cmd[p].fp
    BY <1>a, LocalsMove
  <2> HIDE DEF c
  <2>3. QED
    BY <1>a, <2>1, <2>2, GotoMoves DEF SameWork
<1>9. Abort(p) => Kept(p) /\ (Left(p) \/ (pc[p] \in InstallSteps /\ Settled(p)))
  BY <1>a, LeaveMoves, AfterInstallMoves DEF Abort
<1>10. QED
  BY <1>1, <1>2, <1>3, <1>4, <1>5, <1>6, <1>7, <1>8, <1>9

\* insert_pending fails, or p holds the id of the row it made.
LEMMA InsertMoves ==
  ASSUME TypeOK, NEW p \in Procs, InsertPending(p)
  PROVE  /\ Kept(p)
         /\ \/ Settled(p) /\ UNCHANGED profile
            \/ /\ SameWork(p) /\ pc'[p] = "promote" /\ cmd'[p].dsl = cmd[p].dsl
               /\ cmd'[p].id = NextId /\ NextId \in Ids
               /\ \E d \in cmd[p].dsl :
                    /\ ~Taken(d)
                    /\ profile' = [profile EXCEPT ![NextId] =
                         [fp |-> d[1], ver |-> d[2], status |-> "pending"]]
<1>a. CommandsOK /\ cmd[p] \in Cmds
  BY DEF TypeOK, CommandsOK
<1>1. CASE AfterInstall(p) /\ UNCHANGED profile
  BY <1>a, <1>1, AfterInstallMoves
<1>2. CASE ~ (AfterInstall(p) /\ UNCHANGED profile)
  <2>1. PICK d \in cmd[p].dsl :
          /\ ~Taken(d)
          /\ NextId \in Ids
          /\ profile' = [profile EXCEPT ![NextId] =
               [fp |-> d[1], ver |-> d[2], status |-> "pending"]]
          /\ cmd' = [cmd EXCEPT ![p].id = NextId]
          /\ Goto(p, "promote")
    BY <1>2 DEF InsertPending
  <2> DEFINE c == [cmd[p] EXCEPT !.id = NextId]
  <2>2. cmd' = [cmd EXCEPT ![p] = c]
    BY <2>1
  <2>3. c.id = NextId /\ c.op = cmd[p].op /\ c.fp = cmd[p].fp /\ c.dsl = cmd[p].dsl
    BY <1>a, LocalsMove
  <2> HIDE DEF c
  <2>4. Kept(p) /\ pc'[p] = "promote" /\ cmd'[p] = c
    BY <1>a, <2>1, <2>2, GotoMoves
  <2>5. QED
    BY <2>1, <2>3, <2>4 DEF SameWork
<1>3. QED
  BY <1>1, <1>2

\* A purge reads the next row of its list.
LEMMA PurgeReadMoves ==
  ASSUME TypeOK, NEW p \in Procs, PurgeRead(p)
  PROVE  /\ Kept(p) /\ SameWork(p) /\ pc'[p] = "purgeDelete" /\ cmd'[p].id \in Ids
         /\ cmd'[p].dsl = IF Exists(cmd'[p].id) THEN {DslOf(cmd'[p].id)} ELSE {}
<1>a. CommandsOK /\ cmd[p] \in Cmds /\ cmd[p].todo \subseteq Ids
  BY LocalsOf DEF TypeOK, CommandsOK
<1>1. PICK i \in cmd[p].todo :
        cmd' = [cmd EXCEPT ![p].id = i, ![p].todo = @ \ {i},
                           ![p].dsl = IF Exists(i) THEN {DslOf(i)} ELSE {}]
  BY DEF PurgeRead
<1> DEFINE dsl == IF Exists(i) THEN {DslOf(i)} ELSE {}
           todo == cmd[p].todo \ {i}
           c == [cmd[p] EXCEPT !.id = i, !.todo = todo, !.dsl = dsl]
<1>2. cmd' = [cmd EXCEPT ![p] = c]
  BY <1>a, <1>1
<1>3. c.id = i /\ c.op = cmd[p].op /\ c.fp = cmd[p].fp /\ c.dsl = dsl
  <2> HIDE DEF dsl, todo
  <2>1. QED
    BY <1>a, LocalsMove
<1> HIDE DEF c
<1>4. Kept(p) /\ pc'[p] = "purgeDelete" /\ cmd'[p] = c
  BY <1>a, <1>2, GotoMoves DEF PurgeRead
<1>5. QED
  BY <1>a, <1>3, <1>4 DEF SameWork
-----------------------------------------------------------------------------
(* A process and its locals.                                               *)

\* An idle process holds nothing, only a purge is in the steps of a purge, and
\* an installation has in hand a DSL of its own fingerprint.
LinkedAt(p) ==
  /\ pc[p] = "idle" => cmd[p] = NoCmd
  /\ pc[p] \in PurgeSteps <=> cmd[p].op = "purge"
  /\ pc[p] \notin PurgeSteps => \A d \in cmd[p].dsl : d[1] = cmd[p].fp

Linked == \A p \in Procs : LinkedAt(p)

\* Where purges are run apart, a process that purges is alone.
PurgeApart ==
  usage.purgeAlone =>
    \A p, q \in Procs : (cmd[p].op = "purge" /\ p # q) => pc[q] = "idle"

Processes == Linked /\ PurgeApart

LEMMA ProcessesInit == Init => Processes
  BY DEF Init, Processes, Linked, LinkedAt, PurgeApart, NoCmd, PurgeSteps

\* What holds of the processes' steps besides: the others are left alone, and
\* nobody takes up or drops the purge of another.
LEMMA LinkedMoves ==
  ASSUME TypeOK, Linked, NEW p \in Procs, Step(p) \/ Abort(p)
  PROVE  Kept(p) /\ pc[p] # "idle" /\ LinkedAt(p)' /\ (cmd'[p].op = "purge" => cmd[p].op = "purge")
<1>. USE DEF RunSteps, InstallSteps, PurgeSteps
<1>a. LinkedAt(p) /\ NoCmd.op = "none" /\ NoCmd.dsl = {}
  BY DEF Linked, NoCmd
<1>b. Left(p) => LinkedAt(p)' /\ cmd'[p].op # "purge"
  BY <1>a DEF Left, LinkedAt
<1>c. Settled(p) => LinkedAt(p)' /\ cmd'[p].op # "purge"
  BY <1>b DEF Settled, LinkedAt, SameWork
<1>1. ASSUME RunLearn(p) PROVE pc[p] # "idle" /\ LinkedAt(p)' /\ SameWork(p)
  BY <1>a, <1>1, Moves DEF RunLearn, LinkedAt, SameWork
<1>2. ASSUME RunQuarantine(p) \/ RunPlain(p) \/ RunSession(p) \/ PutDsl(p) \/ PurgeDelete(p)
      PROVE  pc[p] # "idle" /\ LinkedAt(p)' /\ (cmd'[p].op = "purge" => cmd[p].op = "purge")
  <2>1. \/ pc[p] \in {"running", "session", "put"} /\ pc'[p] \notin PurgeSteps
        \/ pc[p] = "purgeDelete" /\ pc'[p] \in PurgeSteps
        \/ pc[p] # "idle" /\ Left(p)
    <3>1. RunQuarantine(p) \/ RunPlain(p) => pc[p] = "running" /\ pc'[p] = "session"
      BY Moves DEF RunQuarantine, RunPlain
    <3>2. RunSession(p) => pc[p] = "session" /\ (Left(p) \/ pc'[p] = "skew")
      BY Moves DEF RunSession
    <3>3. PutDsl(p) => pc[p] = "put" /\ pc'[p] = "insert"
      BY Moves DEF PutDsl
    <3>4. PurgeDelete(p) => pc[p] = "purgeDelete" /\ (Left(p) \/ pc'[p] = "purgeRelease")
      BY Moves DEF PurgeDelete
    <3>5. QED
      BY <1>2, <3>1, <3>2, <3>3, <3>4
  <2>2. Left(p) \/ (cmd'[p] = cmd[p] /\ pc'[p] # "idle")
    BY <1>2, Moves
  <2>3. QED
    BY <1>a, <1>b, <2>1, <2>2 DEF LinkedAt
<1>3. ASSUME RunSkew(p) \/ RevokeSet(p) \/ PurgeDone(p) \/ Promote(p) \/ Abort(p)
      PROVE  pc[p] # "idle" /\ LinkedAt(p)' /\ cmd'[p].op # "purge"
  BY <1>b, <1>c, <1>3, Moves DEF RunSkew, RevokeSet, PurgeDone, Promote, Abort, Busy
<1>4. ASSUME InsertPending(p)
      PROVE  /\ Kept(p) /\ pc[p] # "idle" /\ LinkedAt(p)'
             /\ cmd'[p].op = "purge" => cmd[p].op = "purge"
  BY <1>a, <1>c, <1>4, InsertMoves DEF InsertPending, LinkedAt, SameWork
<1>5. ASSUME PurgeRead(p)
      PROVE  Kept(p) /\ pc[p] # "idle" /\ LinkedAt(p)' /\ SameWork(p)
  BY <1>a, <1>5, PurgeReadMoves DEF PurgeRead, LinkedAt, SameWork
<1>6. ASSUME PurgeRelease(p) PROVE pc[p] # "idle" /\ LinkedAt(p)' /\ SameWork(p)
  BY <1>a, <1>6, Moves DEF PurgeRelease, LinkedAt, SameWork
<1>7. Kept(p)
  BY InsertMoves, PurgeReadMoves, Moves DEF Step
<1>8. QED
  BY <1>1, <1>2, <1>3, <1>4, <1>5, <1>6, <1>7 DEF Step, SameWork

\* The steps that begin a command.
Starts(p, f) ==
  \/ RunStart(p, f) \/ RevokeRead(p, f) \/ PurgeList(p, f)
  \/ \E v \in Versions : StartInstall(p, f, v)

LEMMA StartMoves ==
  ASSUME TypeOK, NEW p \in Procs, NEW f \in Fps, Starts(p, f)
  PROVE  /\ Kept(p) /\ pc[p] = "idle" /\ UNCHANGED <<tables, bounds>>
         /\ cmd'[p].fp = f /\ \A d \in cmd'[p].dsl : d[1] = f
         /\ \/ cmd'[p].op = "run" /\ pc'[p] = "running"
               /\ (cmd'[p].id = 0 \/ cmd'[p].id \in Active(f))
            \/ cmd'[p].op = "install" /\ pc'[p] = "put" /\ cmd'[p].id = 0
            \/ cmd'[p].op = "revoke" /\ pc'[p] = "revoke" /\ cmd'[p].id \in Active(f)
            \/ cmd'[p].op = "purge" /\ pc'[p] = "purge" /\ cmd'[p].id = 0
         /\ usage.purgeAlone => \A q \in Procs :
              IF cmd'[p].op = "purge" THEN pc[q] = "idle" ELSE cmd[q].op # "purge"
<1>a. CommandsOK
  BY DEF TypeOK
<1>1. CASE RunStart(p, f)
  <2>1. PICK i \in Active(f) \cup {0} : Begin(p, "run", f, i, {}, {}, "running")
    BY <1>1 DEF RunStart
  <2>2. /\ Kept(p) /\ pc[p] = "idle" /\ pc'[p] = "running"
        /\ cmd'[p].op = "run" /\ cmd'[p].fp = f /\ cmd'[p].id = i /\ cmd'[p].dsl = {}
        /\ usage.purgeAlone => \A q \in Procs : cmd[q].op # "purge"
    BY <1>a, <2>1, BeginMoves
  <2>3. QED
    BY <1>1, <2>2 DEF RunStart
<1>2. CASE RevokeRead(p, f)
  <2>1. PICK i \in Active(f) : Begin(p, "revoke", f, i, {}, {}, "revoke")
    BY <1>2 DEF RevokeRead
  <2>2. /\ Kept(p) /\ pc[p] = "idle" /\ pc'[p] = "revoke"
        /\ cmd'[p].op = "revoke" /\ cmd'[p].fp = f /\ cmd'[p].id = i /\ cmd'[p].dsl = {}
        /\ usage.purgeAlone => \A q \in Procs : cmd[q].op # "purge"
    BY <1>a, <2>1, BeginMoves
  <2>3. QED
    BY <1>2, <2>2 DEF RevokeRead
<1>3. CASE PurgeList(p, f)
  <2>1. PICK todo : Begin(p, "purge", f, 0, todo, {}, "purge")
    BY <1>3 DEF PurgeList
  <2>2. /\ Kept(p) /\ pc[p] = "idle" /\ pc'[p] = "purge"
        /\ cmd'[p].op = "purge" /\ cmd'[p].fp = f /\ cmd'[p].id = 0 /\ cmd'[p].dsl = {}
        /\ usage.purgeAlone => \A q \in Procs : pc[q] = "idle"
    BY <1>a, <2>1, BeginMoves
  <2>3. QED
    BY <1>3, <2>2 DEF PurgeList
<1>4. ASSUME NEW v \in Versions, StartInstall(p, f, v)
      PROVE  /\ Kept(p) /\ pc[p] = "idle" /\ pc'[p] = "put"
             /\ cmd'[p].op = "install" /\ cmd'[p].fp = f /\ cmd'[p].id = 0
             /\ \A d \in cmd'[p].dsl : d[1] = f
             /\ usage.purgeAlone => \A q \in Procs : cmd[q].op # "purge"
             /\ UNCHANGED <<tables, bounds>>
  <2>1. Begin(p, "install", f, 0, {}, {<<f, v>>}, "put")
    BY <1>4 DEF StartInstall
  <2>2. /\ Kept(p) /\ pc[p] = "idle" /\ pc'[p] = "put"
        /\ cmd'[p].op = "install" /\ cmd'[p].fp = f /\ cmd'[p].id = 0
        /\ cmd'[p].dsl = {<<f, v>>}
        /\ usage.purgeAlone => \A q \in Procs : cmd[q].op # "purge"
    BY <1>a, <2>1, BeginMoves
  <2>3. QED
    BY <1>4, <2>2 DEF StartInstall
<1>5. QED
  BY <1>1, <1>2, <1>3, <1>4 DEF Starts

\* Every step of the system is one of these.
LEMMA StepKinds ==
  ASSUME Next
  PROVE  \/ \E p \in Procs : Step(p) \/ Abort(p)
         \/ \E p \in Procs, f \in Fps : Starts(p, f) \/ Rollback(p, f)
         \/ Expire
  BY DEF Next, Starts

LEMMA ProcessesStep == TypeOK /\ Processes /\ [Next]_vars => Processes'
<1> SUFFICES ASSUME TypeOK, Processes, [Next]_vars PROVE Processes'
  OBVIOUS
<1>a. Linked /\ PurgeApart
  BY DEF Processes
<1>b. ASSUME UNCHANGED <<pc, cmd, usage>> PROVE Processes'
  BY <1>a, <1>b DEF Processes, Linked, LinkedAt, PurgeApart
<1>c. ASSUME NEW p \in Procs, Kept(p), LinkedAt(p)' PROVE Linked'
  BY <1>a, <1>c DEF Linked, LinkedAt, Kept
<1>d. \A q \in Procs : pc[q] = "idle" => cmd[q].op # "purge"
  BY <1>a DEF Linked, LinkedAt, NoCmd
<1>1. ASSUME NEW p \in Procs, Step(p) \/ Abort(p) PROVE Processes'
  <2>1. Kept(p) /\ pc[p] # "idle" /\ LinkedAt(p)' /\ (cmd'[p].op = "purge" => cmd[p].op = "purge")
    BY <1>a, <1>1, LinkedMoves
  <2>2. usage' = usage
    BY <1>1 DEF Step, RunLearn, RunQuarantine, RunPlain, RunSession, RunSkew, PutDsl,
                InsertPending, Promote, RevokeSet, PurgeRead, PurgeDelete, PurgeRelease,
                PurgeDone, Abort, bounds
  <2>3. PurgeApart'
    BY <1>a, <2>1, <2>2 DEF PurgeApart, Kept
  <2>4. QED
    BY <1>c, <2>1, <2>3 DEF Processes
<1>2. ASSUME NEW p \in Procs, NEW f \in Fps, Starts(p, f) PROVE Processes'
  <2>1. LinkedAt(p)'
    BY <1>2, StartMoves DEF LinkedAt, PurgeSteps
  <2>2. PurgeApart'
    BY <1>a, <1>d, <1>2, StartMoves DEF PurgeApart, Kept, bounds
  <2>3. QED
    BY <1>c, <1>2, <2>1, <2>2, StartMoves DEF Processes
<1>3. ASSUME NEW p \in Procs, NEW f \in Fps, Rollback(p, f) PROVE Processes'
  BY <1>b, <1>3 DEF Rollback, bounds
<1>4. CASE Expire \/ UNCHANGED vars
  BY <1>b, <1>4 DEF Expire, vars, bounds
<1>5. QED
  BY <1>1, <1>2, <1>3, <1>4, StepKinds

LEMMA ProcessesHold == Spec => []Processes
  BY ProcessesInit, ProcessesStep, TypeCorrect, PTL DEF Spec
-----------------------------------------------------------------------------
(* The rows of the table.                                                  *)

\* There is always a next row id, above those of all rows.
LEMMA NextIdFresh ==
  /\ NextId \in Nat \ {0}
  /\ \A i \in Ids : Exists(i) => i < NextId
<1> DEFINE Above(k, n) == (\A i \in 1 .. k : Exists(i) => i < n) /\ (n = 1 \/ Exists(n - 1))
           S == {k \in Nat : k <= MaxId => \E n \in 1 .. k + 1 : Above(k, n)}
<1>1. 0 \in S
  <2>1. 1 \in 1 .. 0 + 1 /\ Above(0, 1)
    OBVIOUS
  <2>2. QED
    BY <2>1
<1>2. ASSUME NEW k \in Nat, k \in S PROVE k + 1 \in S
  <2>1. SUFFICES ASSUME k + 1 <= MaxId
                 PROVE  \E n \in 1 .. k + 2 : Above(k + 1, n)
    OBVIOUS
  <2>2. PICK n \in 1 .. k + 1 : Above(k, n)
    BY <1>2, <2>1, BoundsAssumption
  <2>3. CASE Exists(k + 1)
    <3>1. k + 2 \in 1 .. k + 2 /\ Above(k + 1, k + 2)
      BY <2>3
    <3>2. QED
      BY <3>1
  <2>4. CASE ~Exists(k + 1)
    <3>1. n \in 1 .. k + 2 /\ Above(k + 1, n)
      <4>1. \A i \in 1 .. k + 1 : i = k + 1 \/ i \in 1 .. k
        OBVIOUS
      <4>2. QED
        BY <2>2, <2>4, <4>1
    <3>2. QED
      BY <3>1
  <2>5. QED
    BY <2>3, <2>4
<1>3. MaxId \in S
  <2> HIDE DEF S
  <2>1. QED
    BY <1>1, <1>2, NatSetInduction, BoundsAssumption
<1>4. \E n \in 1 .. MaxId + 1 : (\A i \in Ids : Exists(i) => i < n) /\ (n = 1 \/ Exists(n - 1))
  BY <1>3, BoundsAssumption DEF Ids
<1>5. NextId \in 1 .. MaxId + 1 /\ \A i \in Ids : Exists(i) => i < NextId
  BY <1>4 DEF NextId
<1>6. QED
  BY <1>5, BoundsAssumption

\* Every row stays a row of its fingerprint and version.
SameRows ==
  \A j \in Ids : /\ profile'[j].fp = profile[j].fp /\ profile'[j].ver = profile[j].ver
                 /\ Exists(j)' <=> Exists(j)

\* Row n, that was not there, is now a pending one of d; the others are unchanged.
Inserted(n, d) ==
  /\ ~Exists(n) /\ ~Taken(d) /\ profile'[n] # NoRow
  /\ profile'[n].fp = d[1] /\ profile'[n].ver = d[2] /\ profile'[n].status = "pending"
  /\ d = <<d[1], d[2]>>
  /\ \A j \in Ids : j # n => profile'[j] = profile[j]

\* What the statuses of the other rows become in the transaction of promote
\* and rollback.
Retired(j) ==
  \/ profile'[j].status = profile[j].status
  \/ profile[j].status = "active" /\ profile'[j].status = "superseded"

LEMMA StatusRows ==
  ASSUME profile \in Table, NEW i, SetStatus(i, "quarantined")
  PROVE  SameRows /\ \A j \in Ids : \/ profile'[j].status = profile[j].status
                                    \/ j = i /\ profile'[j].status = "quarantined"
<1>1. \A r \in Row : LET s == [r EXCEPT !.status = "quarantined"]
                     IN  s.fp = r.fp /\ s.ver = r.ver /\ s # NoRow /\ s.status = "quarantined"
  BY DEF Row, NoRow
<1>2. QED
  BY <1>1 DEF SameRows, SetStatus, Table, Exists

LEMMA ActivateRows ==
  ASSUME profile \in Table, NEW i, Exists(i), profile' = Activate(i)
  PROVE  /\ SameRows
         /\ i \in Ids => profile'[i].status = "active"
         /\ \A j \in Ids : j # i => Retired(j)
<1>1. \A r \in Row, st \in Status :
        LET s == [r EXCEPT !.status = st]
        IN  s.fp = r.fp /\ s.ver = r.ver /\ s # NoRow /\ s.status = st
  BY DEF Row, NoRow, Status
<1>2. \A j \in Ids : Exists(j) => profile[j] \in Row
  BY DEF Table, Exists
<1>3. {"active", "superseded"} \subseteq Status /\ NoRow.status = "none"
  BY DEF Status, NoRow
<1>4. \A j \in Ids : j \in Active(profile[i].fp) => Exists(j) /\ profile[j].status = "active"
  BY <1>3 DEF Active, Exists
<1>5. ASSUME NEW j \in Ids
      PROVE  \/ profile'[j] = profile[j] /\ j # i
             \/ Exists(j) /\ j = i /\ profile'[j] = [profile[j] EXCEPT !.status = "active"]
             \/ /\ Exists(j) /\ profile[j].status = "active"
                /\ profile'[j] = [profile[j] EXCEPT !.status = "superseded"]
  BY <1>4 DEF Activate
<1>6. SameRows
  <2>1. ASSUME NEW j \in Ids
        PROVE  /\ profile'[j].fp = profile[j].fp /\ profile'[j].ver = profile[j].ver
               /\ Exists(j)' <=> Exists(j)
    <3>1. CASE profile'[j] = profile[j]
      BY <3>1 DEF Exists
    <3>2. CASE Exists(j) /\ \E st \in Status : profile'[j] = [profile[j] EXCEPT !.status = st]
      BY <1>1, <1>2, <3>2 DEF Exists
    <3>3. QED
      BY <1>3, <1>5, <3>1, <3>2
  <2>2. QED
    BY <2>1 DEF SameRows
<1>7. i \in Ids => profile'[i].status = "active"
  BY <1>1, <1>2, <1>3 DEF Activate
<1>8. ASSUME NEW j \in Ids, j # i PROVE Retired(j)
  <2>1. CASE profile'[j] = profile[j]
    BY <2>1 DEF Retired
  <2>2. CASE /\ Exists(j) /\ profile[j].status = "active"
             /\ profile'[j] = [profile[j] EXCEPT !.status = "superseded"]
    <3>1. profile'[j].status = "superseded"
      BY <1>1, <1>2, <1>3, <2>2
    <3>2. QED
      BY <2>2, <3>1 DEF Retired
  <2>3. QED
    BY <1>5, <1>8, <2>1, <2>2
<1>9. QED
  BY <1>6, <1>7, <1>8

LEMMA InsertRows ==
  ASSUME TypeOK, NEW p \in Procs, NEW d \in cmd[p].dsl, NextId \in Ids, ~Taken(d),
         profile' = [profile EXCEPT ![NextId] = [fp |-> d[1], ver |-> d[2], status |-> "pending"]]
  PROVE  Inserted(NextId, d)
<1>1. ~Exists(NextId)
  BY NextIdFresh
<1>2. profile'[NextId] = [fp |-> d[1], ver |-> d[2], status |-> "pending"]
  BY DEF TypeOK, Table
<1>3. \A j \in Ids : j # NextId => profile'[j] = profile[j]
  BY DEF TypeOK, Table
<1>4. d = <<d[1], d[2]>>
  BY LocalsOf DEF TypeOK, CommandsOK, Dsls
<1>5. QED
  BY <1>1, <1>2, <1>3, <1>4 DEF Inserted, NoRow

\* Row n is gone; the others are unchanged.
Deleted(n) ==
  /\ n \in Ids => profile'[n] = NoRow
  /\ \A j \in Ids : j # n => profile'[j] = profile[j]

\* What each step does to the rows.
LEMMA RunRows ==
  ASSUME TypeOK, NEW p \in Procs
  PROVE  /\ RunQuarantine(p) \/ RevokeSet(p) =>
              SameRows /\ \A j \in Ids : \/ profile'[j].status = profile[j].status
                                         \/ j = cmd[p].id /\ profile'[j].status = "quarantined"
         /\ Promote(p) =>
              /\ SameRows /\ \A j \in Ids : j # cmd[p].id => Retired(j)
              /\ (cmd[p].id \in Ids /\ Exists(cmd[p].id)) => profile'[cmd[p].id].status = "active"
              /\ ~Exists(cmd[p].id) => profile' = profile
         /\ PurgeDelete(p) =>
              \/ UNCHANGED profile /\ Left(p)
              \/ /\ Deleted(cmd[p].id) /\ pc'[p] = "purgeRelease" /\ cmd'[p] = cmd[p]
                 /\ ~ (Exists(cmd[p].id) /\ Referenced(cmd[p].id))
<1>a. profile \in Table /\ CommandsOK
  BY DEF TypeOK
<1>1. RunQuarantine(p) \/ RevokeSet(p) =>
        SameRows /\ \A j \in Ids : \/ profile'[j].status = profile[j].status
                                   \/ j = cmd[p].id /\ profile'[j].status = "quarantined"
  BY <1>a, StatusRows DEF RunQuarantine, RevokeSet
<1>2. ASSUME Promote(p)
      PROVE  /\ SameRows /\ \A j \in Ids : j # cmd[p].id => Retired(j)
             /\ (cmd[p].id \in Ids /\ Exists(cmd[p].id)) => profile'[cmd[p].id].status = "active"
             /\ ~Exists(cmd[p].id) => profile' = profile
  <2>1. CASE Exists(cmd[p].id)
    BY <1>a, <1>2, <2>1, ActivateRows DEF Promote
  <2>2. CASE ~Exists(cmd[p].id)
    <3>1. profile' = profile
      BY <1>2, <2>2 DEF Promote
    <3>2. SameRows /\ \A j \in Ids : Retired(j)
      BY <3>1 DEF SameRows, Retired, Exists
    <3>3. QED
      BY <2>2, <3>1, <3>2
  <2>3. QED
    BY <2>1, <2>2
<1>3. ASSUME PurgeDelete(p)
      PROVE  \/ UNCHANGED profile /\ Left(p)
             \/ /\ Deleted(cmd[p].id) /\ pc'[p] = "purgeRelease" /\ cmd'[p] = cmd[p]
                /\ ~ (Exists(cmd[p].id) /\ Referenced(cmd[p].id))
  <2>1. CASE Leave(p) /\ UNCHANGED profile
    BY <1>a, <2>1, LeaveMoves
  <2>2. CASE /\ ~ (Exists(cmd[p].id) /\ Referenced(cmd[p].id))
             /\ profile' = [profile EXCEPT ![cmd[p].id] = NoRow]
             /\ Goto(p, "purgeRelease")
             /\ UNCHANGED cmd
    BY <1>a, <2>2, GotoStays DEF Deleted, Table
  <2>3. QED
    BY <1>3, <2>1, <2>2 DEF PurgeDelete
<1>4. QED
  BY <1>1, <1>2, <1>3

\* insert_pending fails, or p holds the id of the row it made.
LEMMA PendingRows ==
  ASSUME TypeOK, NEW p \in Procs, InsertPending(p)
  PROVE  \/ Settled(p) /\ UNCHANGED profile
         \/ \E d \in cmd[p].dsl, n \in Ids :
              /\ Inserted(n, d) /\ cmd'[p].id = n /\ pc'[p] = "promote"
              /\ SameWork(p) /\ cmd'[p].dsl = cmd[p].dsl
  BY InsertMoves, InsertRows

LEMMA RollbackRows ==
  ASSUME TypeOK, NEW p \in Procs, NEW f \in Fps, Rollback(p, f)
  PROVE  SameRows /\ \A j \in Ids : \/ Retired(j)
                                    \/ /\ profile[j].status = "superseded"
                                       /\ profile'[j].status = "active"
<1>1. PICK i \in Superseded(f) : profile' = Activate(i)
  BY DEF Rollback
<1>2. Exists(i) /\ i \in Ids /\ profile[i].status = "superseded"
  BY DEF Superseded, Exists, NoRow
<1>3. QED
  BY <1>1, <1>2, ActivateRows DEF TypeOK

LEMMA RowsUntouched ==
  /\ \A p \in Procs :
       (\/ RunLearn(p) \/ RunPlain(p) \/ RunSession(p) \/ RunSkew(p) \/ PutDsl(p)
        \/ PurgeRead(p) \/ PurgeRelease(p) \/ PurgeDone(p) \/ Abort(p)) => UNCHANGED profile
  /\ \A p \in Procs, f \in Fps : Starts(p, f) => UNCHANGED profile
  /\ Expire \/ UNCHANGED vars => UNCHANGED profile
<1>1. \A p \in Procs :
       (\/ RunLearn(p) \/ RunPlain(p) \/ RunSession(p) \/ RunSkew(p) \/ PutDsl(p)
        \/ PurgeRead(p) \/ PurgeRelease(p) \/ PurgeDone(p) \/ Abort(p)) => UNCHANGED profile
  BY DEF RunLearn, RunPlain, RunSession, RunSkew, PutDsl, PurgeRead, PurgeRelease,
         PurgeDone, Abort, tables
<1>2. \A p \in Procs, f \in Fps : Starts(p, f) => UNCHANGED profile
  BY DEF Starts, RunStart, RevokeRead, PurgeList, StartInstall, tables
<1>3. Expire \/ UNCHANGED vars => UNCHANGED profile
  BY DEF Expire, vars
<1>4. QED
  BY <1>1, <1>2, <1>3

\* UNIQUE (fingerprint, version).
OneRow ==
  \A i, j \in Ids : (Exists(i) /\ Exists(j) /\ DslOf(i) = DslOf(j)) => i = j

LEMMA OneRowStep == TypeOK /\ OneRow /\ [Next]_vars => OneRow'
<1> SUFFICES ASSUME TypeOK, OneRow, [Next]_vars PROVE OneRow'
  OBVIOUS
<1>a. ASSUME SameRows PROVE OneRow'
  BY <1>a DEF SameRows, OneRow, DslOf, Exists
<1>b. ASSUME UNCHANGED profile PROVE OneRow'
  BY <1>b DEF OneRow, DslOf, Exists
<1>c. ASSUME NEW n \in Ids, NEW d, Inserted(n, d) PROVE OneRow'
  BY <1>c DEF Inserted, OneRow, Taken, DslOf, Exists
<1>d. ASSUME NEW n, Deleted(n) PROVE OneRow'
  BY <1>d DEF Deleted, OneRow, DslOf, Exists
<1>1. ASSUME NEW p \in Procs, Step(p) \/ Abort(p) PROVE OneRow'
  BY <1>a, <1>b, <1>c, <1>d, <1>1, RunRows, PendingRows, RowsUntouched DEF Step
<1>2. ASSUME NEW p \in Procs, NEW f \in Fps, Rollback(p, f) PROVE OneRow'
  BY <1>a, <1>2, RollbackRows
<1>3. QED
  BY <1>b, <1>1, <1>2, RowsUntouched, StepKinds

LEMMA OneRowHolds == Spec => []OneRow
<1>1. Init => OneRow
  BY DEF Init, OneRow, Exists
<1>2. QED
  BY <1>1, OneRowStep, TypeCorrect, PTL DEF Spec

-----------------------------------------------------------------------------
(* The ids commands and sessions hold.                                     *)

LEMMA UsageKept == [Next]_vars => usage' = usage
  BY DEF Next, Step, RunLearn, RunQuarantine, RunPlain, RunSession, RunSkew, PutDsl,
         InsertPending, Promote, RevokeSet, PurgeRead, PurgeDelete, PurgeRelease,
         PurgeDone, Abort, RunStart, Rollback, RevokeRead, PurgeList, StartInstall,
         Expire, bounds, vars

\* A row keeps its fingerprint until a purge deletes it.
LEMMA NamesKept ==
  ASSUME TypeOK, [Next]_vars, NEW i \in Ids, NEW f \in Fps, profile[i].fp = f
  PROVE  \/ profile'[i].fp = f
         \/ \E p \in Procs : PurgeDelete(p) /\ cmd[p].id = i /\ cmd'[p] = cmd[p] /\ ~Referenced(i)
<1>a. Exists(i)
  BY NamesAssumption DEF Exists, NoRow
<1>b. SameRows \/ UNCHANGED profile => profile'[i].fp = f
  BY DEF SameRows
<1>1. ASSUME NEW p \in Procs, Step(p) \/ Abort(p), ~PurgeDelete(p) PROVE profile'[i].fp = f
  <2>1. CASE InsertPending(p)
    BY <1>a, <1>b, <2>1, PendingRows DEF Inserted
  <2>2. CASE ~InsertPending(p)
    BY <1>b, <1>1, <2>2, RunRows, RowsUntouched DEF Step
  <2>3. QED
    BY <2>1, <2>2
<1>2. ASSUME NEW p \in Procs, PurgeDelete(p), profile'[i].fp # f
      PROVE  cmd[p].id = i /\ cmd'[p] = cmd[p] /\ ~Referenced(i)
  BY <1>a, <1>b, <1>2, RunRows DEF Deleted
<1>3. ASSUME NEW p \in Procs, NEW g \in Fps, Rollback(p, g) PROVE profile'[i].fp = f
  BY <1>b, <1>3, RollbackRows
<1>4. QED
  BY <1>b, <1>1, <1>2, <1>3, StepKinds, RowsUntouched

\* What the locals of one process hold, in this state and the next.
HeldBy(q) == (cmd[q].id # 0 /\ cmd[q].op # "purge") => profile[cmd[q].id].fp = cmd[q].fp

\* Processes that leave their id alone, or drop it.
LEMMA HeldKept ==
  ASSUME TypeOK, Processes, HeldIdValid, usage.purgeAlone, [Next]_vars, NEW q \in Procs,
         cmd'[q] = cmd[q] \/ cmd'[q].id = 0 \/ cmd'[q].op = "purge"
                         \/ (SameWork(q) /\ cmd'[q].id = cmd[q].id),
         \A p \in Procs : PurgeDelete(p) => p = q \/ pc[q] = "idle"
  PROVE  HeldBy(q)'
<1> SUFFICES ASSUME cmd'[q].id # 0, cmd'[q].op # "purge"
             PROVE  profile'[cmd'[q].id].fp = cmd'[q].fp
  BY DEF HeldBy
<1>1. cmd'[q].id = cmd[q].id /\ cmd'[q].op = cmd[q].op /\ cmd'[q].fp = cmd[q].fp
  BY DEF SameWork
<1>2. /\ cmd[q].id \in Ids /\ cmd[q].fp \in Fps /\ pc[q] # "idle"
      /\ pc[q] \notin PurgeSteps /\ profile[cmd[q].id].fp = cmd[q].fp
  BY <1>1, LocalsOf DEF TypeOK, CommandsOK, Processes, Linked, LinkedAt, NoCmd, HeldIdValid
<1>3. \A p \in Procs : ~PurgeDelete(p)
  BY <1>2 DEF PurgeDelete, PurgeSteps
<1>4. QED
  BY <1>1, <1>2, <1>3, NamesKept

LEMMA HeldIdStep == TypeOK /\ Processes /\ HeldIdValid /\ [Next]_vars => HeldIdValid'
<1> SUFFICES ASSUME TypeOK, Processes, HeldIdValid, [Next]_vars, usage.purgeAlone,
                    NEW q \in Procs
             PROVE  HeldBy(q)'
  BY UsageKept DEF HeldIdValid, HeldBy
<1>a. \A p \in Procs : PurgeDelete(p) => p = q \/ pc[q] = "idle"
  BY DEF Processes, Linked, LinkedAt, PurgeApart, PurgeDelete, PurgeSteps
<1>b. NoCmd.id = 0
  BY DEF NoCmd
<1>c. ASSUME cmd'[q] = cmd[q] \/ cmd'[q].id = 0 \/ cmd'[q].op = "purge"
              \/ (SameWork(q) /\ cmd'[q].id = cmd[q].id)
      PROVE  HeldBy(q)'
  BY <1>a, <1>c, HeldKept
<1>1. ASSUME NEW p \in Procs, Step(p) \/ Abort(p), p # q PROVE HeldBy(q)'
  BY <1>1, <1>c, LinkedMoves DEF Processes, Kept
<1>2. CASE Step(q) \/ Abort(q)
  <2>a. /\ Left(q) \/ Settled(q) => cmd'[q].id = 0
        /\ cmd[q].op = "purge" /\ SameWork(q) => cmd'[q].op = "purge"
        /\ pc[q] \in PurgeSteps => cmd[q].op = "purge"
    BY <1>b DEF Left, Settled, SameWork, Processes, Linked, LinkedAt
  <2>1. CASE InsertPending(q) /\ ~Settled(q)
    <3>1. PICK d \in cmd[q].dsl, n \in Ids :
            Inserted(n, d) /\ cmd'[q].id = n /\ SameWork(q)
      BY <2>1, PendingRows
    <3>2. d[1] = cmd[q].fp
      BY <2>1 DEF Processes, Linked, LinkedAt, InsertPending, PurgeSteps
    <3>3. QED
      BY <3>1, <3>2 DEF Inserted, HeldBy, SameWork
  <2>2. CASE InsertPending(q) /\ Settled(q)
    BY <1>c, <2>2, <2>a
  <2>3. CASE RunLearn(q) \/ RunQuarantine(q) \/ RunPlain(q) \/ RunSession(q) \/ RunSkew(q)
               \/ PutDsl(q) \/ Promote(q) \/ RevokeSet(q) \/ Abort(q) \/ PurgeDone(q)
    BY <1>c, <2>3, <2>a, Moves
  <2>4. CASE PurgeRead(q) \/ PurgeDelete(q) \/ PurgeRelease(q)
    BY <1>c, <2>4, <2>a, Moves, PurgeReadMoves DEF PurgeRead, PurgeDelete, PurgeRelease, PurgeSteps
  <2>5. QED
    BY <1>2, <2>1, <2>2, <2>3, <2>4 DEF Step
<1>3. ASSUME NEW p \in Procs, NEW f \in Fps, Starts(p, f) PROVE HeldBy(q)'
  <2>1. CASE p # q
    BY <1>3, <1>c, <2>1, StartMoves DEF Kept
  <2>2. CASE p = q
    <3>1. cmd'[q].fp = f /\ (cmd'[q].id = 0 \/ cmd'[q].id \in Active(f)) /\ profile' = profile
      BY <1>3, <2>2, StartMoves DEF tables
    <3>2. QED
      BY <3>1 DEF HeldBy, Active
  <2>3. QED
    BY <2>1, <2>2
<1>4. ASSUME UNCHANGED cmd PROVE HeldBy(q)'
  BY <1>c, <1>4
<1>5. ASSUME NEW p \in Procs, NEW f \in Fps, Rollback(p, f) PROVE UNCHANGED cmd
  BY <1>5 DEF Rollback
<1>6. CASE Expire \/ UNCHANGED vars
  BY <1>4, <1>6 DEF Expire, vars
<1>7. QED
  BY <1>1, <1>2, <1>3, <1>4, <1>5, <1>6, StepKinds

\* An id a command has read and uses later still names a row of the fingerprint
\* it was read for, where purges are run apart: rowids are given out again, but
\* never while a command holds one.
THEOREM HeldIdValidHolds == Spec => []HeldIdValid
<1>1. Init => HeldIdValid
  BY DEF Init, HeldIdValid, NoCmd
<1>2. QED
  BY <1>1, HeldIdStep, TypeCorrect, ProcessesHold, PTL DEF Spec

\* A session is of a profile of its own fingerprint.
LEMMA SessionsStep ==
  TypeOK /\ Processes /\ HeldIdValid /\ SessionsMatch /\ [Next]_vars => SessionsMatch'
<1> SUFFICES ASSUME TypeOK, Processes, HeldIdValid, SessionsMatch, [Next]_vars, usage.purgeAlone,
                    NEW i \in Ids, NEW f \in Fps, <<i, f>> \in sessions'
             PROVE  profile'[i].fp = f
  BY UsageKept DEF SessionsMatch
<1>1. CASE <<i, f>> \in sessions
  <2>1. profile[i].fp = f /\ Referenced(i)
    BY <1>1 DEF SessionsMatch, Referenced
  <2>2. QED
    BY <2>1, NamesKept
<1>2. CASE <<i, f>> \notin sessions
  <2>1. PICK p \in Procs : RunSession(p) /\ i = cmd[p].id /\ f = cmd[p].fp /\ i # 0
    <3>1. \A p \in Procs : RunSession(p) => sessions' = sessions \/
              (cmd[p].id # 0 /\ sessions' = sessions \cup {<<cmd[p].id, cmd[p].fp>>})
      BY DEF RunSession
    <3>2. (\A p \in Procs : ~RunSession(p)) => sessions' \subseteq sessions
      BY DEF Next, Step, RunLearn, RunQuarantine, RunPlain, RunSkew, PutDsl,
             InsertPending, Promote, RevokeSet, PurgeRead, PurgeDelete, PurgeRelease,
             PurgeDone, Abort, RunStart, Rollback, RevokeRead, PurgeList, StartInstall,
             Expire, tables, vars
    <3>3. QED
      BY <1>2, <3>1, <3>2
  <2>2. profile' = profile /\ cmd[p].op # "purge"
    BY <2>1, RowsUntouched DEF RunSession, Processes, Linked, LinkedAt, PurgeSteps
  <2>3. QED
    BY <2>1, <2>2 DEF HeldIdValid
<1>3. QED
  BY <1>1, <1>2

\* A session names a profile of its own fingerprint, under the same condition:
\* the foreign key keeps the row while the session lives.
THEOREM SessionsMatchHolds == Spec => []SessionsMatch
<1>1. Init => SessionsMatch
  BY DEF Init, SessionsMatch
<1>2. QED
  BY <1>1, SessionsStep, TypeCorrect, ProcessesHold, HeldIdValidHolds, PTL DEF Spec
-----------------------------------------------------------------------------
(* Pending rows, and rows that leave dispatch for good.                    *)

\* Where the status of a row can go.
LEMMA StatusMoves ==
  ASSUME TypeOK, [Next]_vars, NEW i \in Ids, Exists(i)
  PROVE  \/ profile'[i].status = profile[i].status
         \/ \E p \in Procs : Promote(p) /\ cmd[p].id = i /\ profile'[i].status = "active"
         \/ \E p \in Procs : PurgeDelete(p) /\ cmd[p].id = i /\ profile'[i] = NoRow
         \/ \E p \in Procs : /\ RunQuarantine(p) \/ RevokeSet(p)
                             /\ cmd[p].id = i /\ profile'[i].status = "quarantined"
         \/ profile[i].status = "active" /\ profile'[i].status = "superseded"
         \/ profile[i].status = "superseded" /\ profile'[i].status = "active"
<1>1. ASSUME NEW p \in Procs, Step(p) \/ Abort(p),
             ~Promote(p), ~PurgeDelete(p), ~RunQuarantine(p), ~RevokeSet(p)
      PROVE  profile'[i].status = profile[i].status
  BY <1>1, PendingRows, RowsUntouched DEF Step, Inserted
<1>2. ASSUME NEW p \in Procs, Promote(p)
      PROVE  Retired(i) \/ (cmd[p].id = i /\ profile'[i].status = "active")
  BY <1>2, RunRows
<1>3. ASSUME NEW p \in Procs, PurgeDelete(p)
      PROVE  profile'[i] = profile[i] \/ (cmd[p].id = i /\ profile'[i] = NoRow)
  BY <1>3, RunRows DEF Deleted
<1>4. ASSUME NEW p \in Procs, RunQuarantine(p) \/ RevokeSet(p)
      PROVE  \/ profile'[i].status = profile[i].status
             \/ cmd[p].id = i /\ profile'[i].status = "quarantined"
  BY <1>4, RunRows
<1>5. ASSUME NEW p \in Procs, NEW f \in Fps, Rollback(p, f)
      PROVE  Retired(i) \/ (profile[i].status = "superseded" /\ profile'[i].status = "active")
  BY <1>5, RollbackRows
<1>6. QED
  BY <1>1, <1>2, <1>3, <1>4, <1>5, StepKinds, RowsUntouched DEF Retired

\* Where purges are run apart, the row an installation is about to promote is
\* pending and of no other installation; the row a run or a revocation has read
\* is not pending.
PendingApart ==
  usage.purgeAlone => \A p \in Procs :
    /\ (pc[p] \in RunSteps \cup {"revoke"} /\ cmd[p].id # 0) =>
         profile[cmd[p].id].status # "pending"
    /\ pc[p] = "promote" => cmd[p].id \in Ids /\ profile[cmd[p].id].status = "pending"
    /\ \A q \in Procs :
         (pc[p] = "promote" /\ pc[q] = "promote" /\ cmd[p].id = cmd[q].id) => p = q

\* How a process comes to hold a row in a run or a revocation.
LEMMA RunHolds ==
  ASSUME TypeOK, Processes, [Next]_vars, NEW q \in Procs,
         pc'[q] \in RunSteps \cup {"revoke"}, cmd'[q].id # 0
  PROVE  \/ pc[q] \in RunSteps \cup {"revoke"} /\ cmd'[q] = cmd[q]
         \/ (\E f \in Fps : cmd'[q].id \in Active(f)) /\ profile' = profile
<1>. USE DEF RunSteps, InstallSteps, PurgeSteps
<1>1. ASSUME NEW p \in Procs, Step(p) \/ Abort(p)
      PROVE  pc[q] \in RunSteps \cup {"revoke"} /\ cmd'[q] = cmd[q]
  <2>1. CASE p # q
    BY <1>1, <2>1, LinkedMoves DEF Processes, Kept
  <2>2. CASE p = q
    <3>1. ~Left(q) /\ ~Settled(q)
      BY DEF Left, Settled, NoCmd
    <3>2. ~InsertPending(q) /\ ~PurgeRead(q)
      BY <3>1, InsertMoves, PurgeReadMoves
    <3>3. RunQuarantine(q) \/ RunPlain(q) \/ RunSession(q)
      BY <1>1, <2>2, <3>1, <3>2, Moves DEF Step
    <3>4. QED
      BY <3>1, <3>3, Moves DEF RunQuarantine, RunPlain, RunSession
  <2>3. QED
    BY <2>1, <2>2
<1>2. ASSUME NEW p \in Procs, NEW f \in Fps, Starts(p, f)
      PROVE  \/ pc[q] \in RunSteps \cup {"revoke"} /\ cmd'[q] = cmd[q]
             \/ cmd'[q].id \in Active(f) /\ profile' = profile
  BY <1>2, StartMoves DEF Kept, tables
<1>3. ASSUME UNCHANGED <<pc, cmd>>
      PROVE  pc[q] \in RunSteps \cup {"revoke"} /\ cmd'[q] = cmd[q]
  BY <1>3
<1>4. ASSUME NEW p \in Procs, NEW f \in Fps, Rollback(p, f) PROVE UNCHANGED <<pc, cmd>>
  BY <1>4 DEF Rollback
<1>5. CASE Expire \/ UNCHANGED vars
  BY <1>3, <1>5 DEF Expire, vars
<1>6. QED
  BY <1>1, <1>2, <1>3, <1>4, <1>5, StepKinds

\* How a process comes to be about to promote a row.
LEMMA PromoteHolds ==
  ASSUME TypeOK, Processes, [Next]_vars, NEW q \in Procs, pc'[q] = "promote"
  PROVE  \/ pc[q] = "promote" /\ cmd'[q] = cmd[q] /\ ~Promote(q)
         \/ \E n \in Ids : \E d : Inserted(n, d) /\ cmd'[q].id = n /\ Kept(q)
<1>1. ASSUME NEW p \in Procs, Step(p) \/ Abort(p)
      PROVE  \/ pc[q] = "promote" /\ cmd'[q] = cmd[q] /\ ~Promote(q)
             \/ \E n \in Ids : \E d : Inserted(n, d) /\ cmd'[q].id = n /\ Kept(q)
  <2>1. ~Left(q) /\ ~Settled(q)
    BY DEF Left, Settled
  <2>2. ~Promote(q)
    BY <2>1, Moves
  <2>3. CASE p # q
    BY <1>1, <2>2, <2>3, LinkedMoves DEF Processes, Kept
  <2>4. CASE p = q
    <3>1. ~PurgeRead(q)
      BY PurgeReadMoves
    <3>2. InsertPending(q)
      BY <1>1, <2>1, <2>2, <2>4, <3>1, Moves DEF Step
    <3>3. QED
      BY <2>1, <3>2, PendingRows, InsertMoves
  <2>5. QED
    BY <2>3, <2>4
<1>2. ASSUME NEW p \in Procs, NEW f \in Fps, Starts(p, f)
      PROVE  pc[q] = "promote" /\ cmd'[q] = cmd[q] /\ ~Promote(q)
  <2>1. p # q /\ Kept(p)
    BY <1>2, StartMoves
  <2>2. ~Promote(q)
    BY Moves DEF Settled, Left
  <2>3. QED
    BY <2>1, <2>2 DEF Kept
<1>3. ASSUME UNCHANGED <<pc, cmd>>
      PROVE  pc[q] = "promote" /\ cmd'[q] = cmd[q] /\ ~Promote(q)
  BY <1>3, Moves DEF Settled, Left
<1>4. ASSUME NEW p \in Procs, NEW f \in Fps, Rollback(p, f) PROVE UNCHANGED <<pc, cmd>>
  BY <1>4 DEF Rollback
<1>5. CASE Expire \/ UNCHANGED vars
  BY <1>3, <1>5 DEF Expire, vars
<1>6. QED
  BY <1>1, <1>2, <1>3, <1>4, <1>5, StepKinds

LEMMA PendingApartStep ==
  TypeOK /\ Processes /\ HeldIdValid /\ PendingApart /\ [Next]_vars => PendingApart'
<1> SUFFICES ASSUME TypeOK, Processes, HeldIdValid, PendingApart, [Next]_vars, usage.purgeAlone,
                    NEW p \in Procs
             PROVE  /\ (pc'[p] \in RunSteps \cup {"revoke"} /\ cmd'[p].id # 0) =>
                         profile'[cmd'[p].id].status # "pending"
                    /\ pc'[p] = "promote" =>
                         cmd'[p].id \in Ids /\ profile'[cmd'[p].id].status = "pending"
                    /\ \A q \in Procs :
                         (pc'[p] = "promote" /\ pc'[q] = "promote" /\ cmd'[p].id = cmd'[q].id)
                            => p = q
  BY UsageKept DEF PendingApart
<1>a. NoRow.status = "none"
  BY DEF NoRow
<1>b. \A i \in Ids : profile[i].status = "pending" => Exists(i)
  BY <1>a DEF Exists
<1>c. \A q, r \in Procs : PurgeDelete(q) => r = q \/ pc[r] = "idle"
  BY DEF Processes, Linked, LinkedAt, PurgeApart, PurgeDelete, PurgeSteps
<1>1. ASSUME pc'[p] \in RunSteps \cup {"revoke"}, cmd'[p].id # 0
      PROVE  profile'[cmd'[p].id].status # "pending"
  <2>1. CASE pc[p] \in RunSteps \cup {"revoke"} /\ cmd'[p] = cmd[p]
    <3> DEFINE i == cmd[p].id
    <3>1. i \in Ids /\ Exists(i) /\ profile[i].status # "pending"
      <4>1. i \in Ids /\ cmd[p].fp \in Fps /\ cmd[p].op # "purge"
        BY <1>1, <2>1, LocalsOf
           DEF TypeOK, CommandsOK, Processes, Linked, LinkedAt, RunSteps, PurgeSteps
      <4>2. profile[i].fp = cmd[p].fp
        BY <1>1, <2>1, <4>1 DEF HeldIdValid
      <4>3. QED
        BY <1>1, <2>1, <4>1, <4>2, NamesAssumption DEF PendingApart, Exists, NoRow
    <3>2. QED
      BY <1>a, <2>1, <3>1, StatusMoves
  <2>2. CASE (\E f \in Fps : cmd'[p].id \in Active(f)) /\ profile' = profile
    BY <2>2 DEF Active
  <2>3. QED
    BY <1>1, <2>1, <2>2, RunHolds
<1>2. ASSUME pc'[p] = "promote"
      PROVE  cmd'[p].id \in Ids /\ profile'[cmd'[p].id].status = "pending"
  <2>1. CASE pc[p] = "promote" /\ cmd'[p] = cmd[p] /\ ~Promote(p)
    <3> DEFINE i == cmd[p].id
    <3>1. i \in Ids /\ profile[i].status = "pending" /\ i # 0
      BY <2>1 DEF PendingApart, Ids
    <3>2. \A q \in Procs : Promote(q) => cmd[q].id # i
      BY <2>1 DEF PendingApart, Promote
    <3>3. \A q \in Procs : ~PurgeDelete(q)
      BY <1>c, <2>1 DEF PurgeDelete
    <3>4. \A q \in Procs : RunQuarantine(q) \/ RevokeSet(q) => cmd[q].id # i
      BY <3>1 DEF PendingApart, RunQuarantine, RevokeSet, RunSteps
    <3>5. QED
      BY <1>b, <2>1, <3>1, <3>2, <3>3, <3>4, StatusMoves
  <2>2. CASE \E n \in Ids : \E d : Inserted(n, d) /\ cmd'[p].id = n
    BY <2>2 DEF Inserted
  <2>3. QED
    BY <1>2, <2>1, <2>2, PromoteHolds
<1>3. ASSUME NEW q \in Procs, pc'[p] = "promote", pc'[q] = "promote", cmd'[p].id = cmd'[q].id
      PROVE  p = q
  <2>1. \A r \in Procs : pc[r] = "promote" => cmd[r].id \in Ids /\ Exists(cmd[r].id)
    BY <1>b DEF PendingApart
  <2>2. QED
    BY <1>3, <2>1, PromoteHolds DEF PendingApart, Inserted, Kept
<1>4. QED
  BY <1>1, <1>2, <1>3

LEMMA PendingApartHolds == Spec => []PendingApart
<1>1. Init => PendingApart
  BY DEF Init, PendingApart, RunSteps
<1>2. QED
  BY <1>1, PendingApartStep, TypeCorrect, ProcessesHold, HeldIdValidHolds, PTL DEF Spec

\* A quarantined profile is never dispatched again, where purges are run apart:
\* neither promote nor rollback brings it back.
THEOREM QuarantineSticksHolds == Spec => QuarantineSticks
<1> DEFINE Sticks == usage.purgeAlone => \A i \in Ids :
             profile[i].status = "quarantined" => profile'[i].status \in {"quarantined", "none"}
<1>1. TypeOK /\ PendingApart /\ [Next]_vars => Sticks
  <2> SUFFICES ASSUME TypeOK, PendingApart, [Next]_vars, usage.purgeAlone,
                      NEW i \in Ids, profile[i].status = "quarantined"
               PROVE  profile'[i].status \in {"quarantined", "none"}
    OBVIOUS
  <2>1. Exists(i) /\ NoRow.status = "none"
    BY DEF Exists, NoRow
  <2>2. \A p \in Procs : Promote(p) => cmd[p].id # i
    BY DEF PendingApart, Promote
  <2>3. QED
    BY <2>1, <2>2, StatusMoves
<1>2. QED
  BY <1>1, TypeCorrect, PendingApartHolds, PTL DEF Spec, QuarantineSticks

\* A pending row that no process is about to promote was left by a command cut
\* short.
PendingHeld ==
  aborts = 0 => \A i \in Ids :
    profile[i].status = "pending" => \E p \in Procs : pc[p] = "promote" /\ cmd[p].id = i

LEMMA PendingHeldStep == TypeOK /\ Processes /\ PendingHeld /\ [Next]_vars => PendingHeld'
<1> SUFFICES ASSUME TypeOK, Processes, PendingHeld, [Next]_vars, aborts' = 0,
                    NEW i \in Ids, profile'[i].status = "pending"
             PROVE  \E p \in Procs : pc'[p] = "promote" /\ cmd'[p].id = i
  BY DEF PendingHeld
<1>a. aborts = 0 /\ \A p \in Procs : ~Abort(p)
  <2>1. aborts' = aborts \/ \E p \in Procs : Abort(p)
    BY DEF Next, Step, RunLearn, RunQuarantine, RunPlain, RunSession, RunSkew, PutDsl,
           InsertPending, Promote, RevokeSet, PurgeRead, PurgeDelete, PurgeRelease,
           PurgeDone, RunStart, Rollback, RevokeRead, PurgeList, StartInstall,
           Expire, bounds, vars
  <2>2. \A p \in Procs : ~Abort(p)
    BY DEF Abort, TypeOK
  <2>3. QED
    BY <2>1, <2>2
<1>1. CASE profile[i].status = "pending"
  <2>1. PICK p \in Procs : pc[p] = "promote" /\ cmd[p].id = i
    BY <1>a, <1>1 DEF PendingHeld
  <2>2. ~Promote(p)
    BY <1>1, <2>1, RunRows DEF Exists, NoRow
  <2>3. ASSUME NEW q \in Procs, Step(q) PROVE q # p /\ Kept(q)
    <3>1. q # p
      BY <2>1, <2>2, <2>3 DEF Step, RunLearn, RunQuarantine, RunPlain, RunSession, RunSkew, PutDsl,
           InsertPending, RevokeSet, PurgeRead, PurgeDelete, PurgeRelease, PurgeDone
    <3>2. QED
      BY <2>3, <3>1, LinkedMoves DEF Processes
  <2>4. ASSUME NEW q \in Procs, NEW f \in Fps, Starts(q, f) PROVE q # p /\ Kept(q)
    BY <2>1, <2>4, StartMoves
  <2>5. (\E q \in Procs, f \in Fps : Rollback(q, f)) \/ Expire \/ UNCHANGED vars
        => UNCHANGED <<pc, cmd>>
    BY DEF Rollback, Expire, vars
  <2>6. pc'[p] = pc[p] /\ cmd'[p] = cmd[p]
    BY <1>a, <2>3, <2>4, <2>5, StepKinds DEF Kept
  <2>7. QED
    BY <2>1, <2>6
<1>2. CASE profile[i].status # "pending"
  <2>1. ~Exists(i)
    <3>1. NoRow.status = "none"
      BY DEF NoRow
    <3>2. QED
      BY <1>2, <3>1, StatusMoves
  <2>2. PICK p \in Procs : InsertPending(p) /\ profile' # profile
    <3>1. ~SameRows /\ profile' # profile /\ \A n : ~Deleted(n)
      BY <1>2, <2>1 DEF SameRows, Exists, NoRow, Deleted
    <3>2. ASSUME NEW p \in Procs, Step(p) PROVE InsertPending(p)
      BY <3>1, <3>2, RunRows, RowsUntouched DEF Step
    <3>3. \A p \in Procs, f \in Fps : ~Rollback(p, f)
      BY <3>1, RollbackRows
    <3>4. QED
      BY <1>a, <3>1, <3>2, <3>3, RowsUntouched, StepKinds
  <2>3. PICK d \in cmd[p].dsl, n \in Ids : Inserted(n, d) /\ cmd'[p].id = n /\ pc'[p] = "promote"
    BY <2>2, PendingRows
  <2>4. i = n
    BY <1>2, <2>3 DEF Inserted
  <2>5. QED
    BY <2>3, <2>4
<1>3. QED
  BY <1>1, <1>2

\* Only a command cut short leaves a row pending: otherwise lazy activation is
\* over when its command is.
THEOREM PendingOnlyAfterAbortHolds == Spec => []PendingOnlyAfterAbort
<1>1. Init => PendingHeld
  BY DEF Init, PendingHeld, NoRow
<1>2. PendingHeld => PendingOnlyAfterAbort
  BY DEF PendingHeld, PendingOnlyAfterAbort
<1>3. QED
  BY <1>1, <1>2, PendingHeldStep, TypeCorrect, ProcessesHold, PTL DEF Spec
-----------------------------------------------------------------------------
(* The references of the DSL blobs.                                        *)

\* An installation that is about to insert its row has a reference on its DSL;
\* a purge has read the DSL of the row it deletes, and releases one no row has.
DslHeld ==
  usage.purgeAlone => \A p \in Procs :
    /\ pc[p] = "insert" => \A d \in cmd[p].dsl : dslRefs[d] > 0
    /\ pc[p] = "purgeDelete" =>
         cmd[p].id \in Ids /\ \A i \in Ids :
           (Exists(i) /\ DslOf(i) \in cmd[p].dsl) => i = cmd[p].id
    /\ pc[p] = "purgeRelease" => \A i \in Ids : Exists(i) => DslOf(i) \notin cmd[p].dsl

Counted == DslCounted /\ DslHeld

\* A process that purges, apart from the others, is the only one that moves.
LEMMA PurgeMovesAlone ==
  ASSUME TypeOK, Processes, usage.purgeAlone, [Next]_vars, NEW p \in Procs, pc[p] \in PurgeSteps
  PROVE  Step(p) \/ Abort(p) \/ Expire \/ UNCHANGED vars
<1>1. cmd[p].op = "purge" /\ pc[p] # "idle"
  BY DEF Processes, Linked, LinkedAt, PurgeSteps
<1>2. \A q \in Procs : q # p => pc[q] = "idle"
  BY <1>1 DEF Processes, PurgeApart
<1>3. ASSUME NEW q \in Procs, Step(q) \/ Abort(q) PROVE q = p
  BY <1>2, <1>3, LinkedMoves DEF Processes
<1>4. ASSUME NEW q \in Procs, NEW f \in Fps PROVE ~Starts(q, f) /\ ~Rollback(q, f)
  BY <1>1, StartMoves DEF Rollback
<1>5. QED
  BY <1>3, <1>4, StepKinds

\* A row that is there was there before, or has just been inserted.
LEMMA RowsMove ==
  ASSUME TypeOK, [Next]_vars, NEW i \in Ids, profile'[i] # NoRow
  PROVE  \/ Exists(i) /\ <<profile'[i].fp, profile'[i].ver>> = DslOf(i)
         \/ \E p \in Procs : /\ InsertPending(p)
                             /\ <<profile'[i].fp, profile'[i].ver>> \in cmd[p].dsl
<1>a. SameRows \/ UNCHANGED profile => Exists(i) /\ <<profile'[i].fp, profile'[i].ver>> = DslOf(i)
  BY DEF SameRows, Exists, DslOf
<1>b. (\E n : Deleted(n)) => Exists(i) /\ <<profile'[i].fp, profile'[i].ver>> = DslOf(i)
  BY DEF Deleted, Exists, DslOf
<1>1. ASSUME NEW p \in Procs, InsertPending(p)
      PROVE  \/ Exists(i) /\ <<profile'[i].fp, profile'[i].ver>> = DslOf(i)
             \/ <<profile'[i].fp, profile'[i].ver>> \in cmd[p].dsl
  <2>1. CASE UNCHANGED profile
    BY <1>a, <2>1
  <2>2. ASSUME NEW d \in cmd[p].dsl, NEW n \in Ids, Inserted(n, d)
        PROVE  \/ Exists(i) /\ <<profile'[i].fp, profile'[i].ver>> = DslOf(i)
               \/ <<profile'[i].fp, profile'[i].ver>> \in cmd[p].dsl
    BY <2>2 DEF Inserted, Exists, DslOf
  <2>3. QED
    BY <1>1, <2>1, <2>2, PendingRows
<1>2. ASSUME NEW p \in Procs, Step(p) \/ Abort(p), ~InsertPending(p)
      PROVE  Exists(i) /\ <<profile'[i].fp, profile'[i].ver>> = DslOf(i)
  BY <1>a, <1>b, <1>2, RunRows, RowsUntouched DEF Step
<1>3. ASSUME NEW p \in Procs, NEW f \in Fps, Rollback(p, f)
      PROVE  Exists(i) /\ <<profile'[i].fp, profile'[i].ver>> = DslOf(i)
  BY <1>a, <1>3, RollbackRows
<1>4. QED
  BY <1>a, <1>1, <1>2, <1>3, StepKinds, RowsUntouched

\* Only a purge lowers a count, and only of the DSL it releases.
LEMMA RefsMove ==
  ASSUME TypeOK, [Next]_vars, NEW d \in Dsls
  PROVE  \/ dslRefs'[d] = dslRefs[d]
         \/ dslRefs'[d] > 0
         \/ \E p \in Procs : PurgeRelease(p) /\ d \in cmd[p].dsl
<1>a. dslRefs[d] \in Nat
  BY DEF TypeOK
<1>1. ASSUME NEW p \in Procs, PutDsl(p)
      PROVE  dslRefs'[d] = dslRefs[d] \/ dslRefs'[d] > 0
  BY <1>a, <1>1 DEF PutDsl
<1>2. ASSUME NEW p \in Procs, PurgeRelease(p), d \notin cmd[p].dsl
      PROVE  dslRefs'[d] = dslRefs[d]
  BY <1>2 DEF PurgeRelease
<1>3. (\A p \in Procs : ~PutDsl(p) /\ ~PurgeRelease(p)) => dslRefs' = dslRefs
  BY DEF Next, Step, RunLearn, RunQuarantine, RunPlain, RunSession, RunSkew, Abort,
         InsertPending, Promote, RevokeSet, PurgeRead, PurgeDelete, PurgeDone,
         RunStart, Rollback, RevokeRead, PurgeList, StartInstall, Expire, tables, vars
<1>4. QED
  BY <1>1, <1>2, <1>3

\* What a process about to insert, to delete or to release comes from.
LEMMA HoldsFrom ==
  ASSUME TypeOK, Processes, [Next]_vars, NEW q \in Procs,
         pc'[q] \in {"insert", "purgeDelete", "purgeRelease"}
  PROVE  \/ pc'[q] = pc[q] /\ cmd'[q] = cmd[q]
                           /\ ~PutDsl(q) /\ ~PurgeDelete(q) /\ ~PurgeRelease(q)
         \/ pc'[q] = "insert" /\ PutDsl(q) /\ cmd'[q] = cmd[q]
         \/ pc'[q] = "purgeDelete" /\ PurgeRead(q)
         \/ pc'[q] = "purgeRelease" /\ PurgeDelete(q)
<1>1. ASSUME NEW p \in Procs, Step(p) \/ Abort(p), p # q
      PROVE  pc'[q] = pc[q] /\ cmd'[q] = cmd[q]
  BY <1>1, LinkedMoves DEF Processes, Kept
<1>2. CASE Step(q) \/ Abort(q)
  <2>1. ~Left(q) /\ ~Settled(q) /\ pc'[q] \notin {"put", "session", "skew", "promote", "purge"}
    BY DEF Left, Settled
  <2>2. ~RunLearn(q) /\ ~RunQuarantine(q) /\ ~RunPlain(q) /\ ~RunSession(q) /\ ~RunSkew(q)
    BY <2>1, Moves
  <2>3. ~RevokeSet(q) /\ ~PurgeDone(q) /\ ~Promote(q) /\ ~PurgeRelease(q) /\ ~Abort(q)
    BY <2>1, Moves
  <2>4. ~InsertPending(q)
    BY <2>1, InsertMoves
  <2>5. PutDsl(q) \/ PurgeRead(q) \/ PurgeDelete(q)
    BY <1>2, <2>2, <2>3, <2>4 DEF Step
  <2>6. PutDsl(q) => pc'[q] = "insert" /\ cmd'[q] = cmd[q]
    BY Moves
  <2>7. PurgeRead(q) => pc'[q] = "purgeDelete"
    BY PurgeReadMoves
  <2>8. PurgeDelete(q) => pc'[q] = "purgeRelease"
    BY <2>1, Moves
  <2>9. QED
    BY <2>5, <2>6, <2>7, <2>8
<1>3. ASSUME NEW p \in Procs, NEW f \in Fps, Starts(p, f)
      PROVE  pc'[q] = pc[q] /\ cmd'[q] = cmd[q]
  BY <1>3, StartMoves DEF Kept
<1>4. (\E p \in Procs, f \in Fps : Rollback(p, f)) \/ Expire \/ UNCHANGED vars
        => UNCHANGED <<pc, cmd>>
  BY DEF Rollback, Expire, vars
<1>5. PutDsl(q) \/ PurgeDelete(q) \/ PurgeRelease(q) => Step(q)
  BY DEF Step
<1>6. PutDsl(q) \/ PurgeDelete(q) \/ PurgeRelease(q) => pc'[q] # pc[q]
  BY Moves DEF Left, PutDsl, PurgeDelete, PurgeRelease
<1>7. QED
  BY <1>1, <1>2, <1>3, <1>4, <1>5, <1>6, StepKinds

LEMMA DslHeldStep ==
  TypeOK /\ Processes /\ OneRow /\ Counted /\ [Next]_vars => DslHeld'
<1> SUFFICES ASSUME TypeOK, Processes, OneRow, Counted, [Next]_vars, usage.purgeAlone,
                    NEW q \in Procs
             PROVE  /\ pc'[q] = "insert" => \A d \in cmd'[q].dsl : dslRefs'[d] > 0
                    /\ pc'[q] = "purgeDelete" =>
                         cmd'[q].id \in Ids /\ \A i \in Ids :
                           (Exists(i) /\ DslOf(i) \in cmd[q].dsl)' => i = cmd'[q].id
                    /\ pc'[q] = "purgeRelease" =>
                         \A i \in Ids : Exists(i)' => DslOf(i)' \notin cmd'[q].dsl
  BY UsageKept DEF DslHeld
<1>a. DslHeld
  BY DEF Counted
<1>b. cmd[q].dsl \subseteq Dsls
  BY LocalsOf DEF TypeOK, CommandsOK
<1>c. pc[q] \in PurgeSteps /\ pc'[q] = pc[q] /\ cmd'[q] = cmd[q]
        /\ ~PurgeDelete(q) /\ ~PurgeRelease(q) => UNCHANGED profile
  <2>1. ASSUME pc[q] \in PurgeSteps, pc'[q] = pc[q], Step(q) \/ Abort(q),
               ~PurgeDelete(q), ~PurgeRelease(q)
        PROVE  UNCHANGED profile
    BY <2>1, RowsUntouched
       DEF Step, RunQuarantine, InsertPending, Promote, RevokeSet, PurgeSteps
  <2>2. QED
    BY <2>1, PurgeMovesAlone, RowsUntouched
<1>1. ASSUME pc'[q] = "insert" PROVE \A d \in cmd'[q].dsl : dslRefs'[d] > 0
  <2>1. CASE PutDsl(q) /\ cmd'[q] = cmd[q]
    <3>1. \A d \in Dsls : dslRefs[d] \in Nat
      BY DEF TypeOK
    <3>2. QED
      BY <1>b, <2>1, <3>1 DEF PutDsl
  <2>2. CASE pc[q] = "insert" /\ cmd'[q] = cmd[q]
    <3>1. \A p \in Procs : ~PurgeRelease(p)
      BY <2>2 DEF Processes, Linked, LinkedAt, PurgeApart, PurgeRelease, PurgeSteps
    <3>2. \A d \in cmd[q].dsl : dslRefs[d] > 0
      BY <1>a, <2>2 DEF DslHeld
    <3>3. QED
      BY <1>b, <2>2, <3>1, <3>2, RefsMove
  <2>3. QED
    BY <1>1, <2>1, <2>2, HoldsFrom
<1>2. ASSUME pc'[q] = "purgeDelete"
      PROVE  cmd'[q].id \in Ids /\ \A i \in Ids :
               (Exists(i) /\ DslOf(i) \in cmd[q].dsl)' => i = cmd'[q].id
  <2>1. CASE PurgeRead(q)
    <3>1. UNCHANGED profile
      BY <2>1, RowsUntouched
    <3>2. /\ cmd'[q].id \in Ids
          /\ cmd'[q].dsl = IF Exists(cmd'[q].id) THEN {DslOf(cmd'[q].id)} ELSE {}
      BY <2>1, PurgeReadMoves
    <3>3. \A i \in Ids : (Exists(i) /\ DslOf(i) \in cmd'[q].dsl) => i = cmd'[q].id
      BY <3>2 DEF OneRow
    <3>4. QED
      BY <3>1, <3>2, <3>3 DEF Exists, DslOf
  <2>2. CASE pc[q] = "purgeDelete" /\ cmd'[q] = cmd[q] /\ ~PurgeDelete(q) /\ ~PurgeRelease(q)
    <3>1. UNCHANGED profile
      BY <1>2, <1>c, <2>2 DEF PurgeSteps
    <3>2. QED
      BY <1>a, <2>2, <3>1 DEF DslHeld, Exists, DslOf
  <2>3. QED
    BY <1>2, <2>1, <2>2, HoldsFrom
<1>3. ASSUME pc'[q] = "purgeRelease", NEW i \in Ids, Exists(i)'
      PROVE  DslOf(i)' \notin cmd'[q].dsl
  <2>1. CASE PurgeDelete(q)
    <3>1. Deleted(cmd[q].id) /\ cmd'[q] = cmd[q]
      BY <1>3, <2>1, RunRows DEF Left
    <3>2. i # cmd[q].id /\ profile'[i] = profile[i]
      BY <1>3, <3>1 DEF Deleted, Exists
    <3>3. Exists(i) => (DslOf(i) \in cmd[q].dsl => i = cmd[q].id)
      BY <1>a, <2>1 DEF DslHeld, PurgeDelete
    <3>4. QED
      BY <1>3, <3>1, <3>2, <3>3 DEF Exists, DslOf
  <2>2. CASE pc[q] = "purgeRelease" /\ cmd'[q] = cmd[q] /\ ~PurgeDelete(q) /\ ~PurgeRelease(q)
    <3>1. UNCHANGED profile
      BY <1>3, <1>c, <2>2 DEF PurgeSteps
    <3>2. QED
      BY <1>a, <1>3, <2>2, <3>1 DEF DslHeld, Exists, DslOf
  <2>3. QED
    BY <1>3, <2>1, <2>2, HoldsFrom
<1>4. QED
  BY <1>1, <1>2, <1>3

LEMMA DslCountedStep ==
  TypeOK /\ Processes /\ Counted /\ [Next]_vars => DslCounted'
<1> SUFFICES ASSUME TypeOK, Processes, Counted, [Next]_vars, usage.purgeAlone,
                    NEW i \in Ids, Exists(i)'
             PROVE  (dslRefs[DslOf(i)] > 0)'
  BY UsageKept DEF DslCounted
<1> DEFINE d == <<profile'[i].fp, profile'[i].ver>>
<1>a. DslCounted /\ DslHeld
  BY DEF Counted
<1>1. CASE Exists(i) /\ d = DslOf(i)
  <2>1. d \in Dsls /\ dslRefs[d] > 0
    BY <1>a, <1>1, ExistsId DEF DslCounted, TypeOK
  <2>2. ASSUME NEW p \in Procs, PurgeRelease(p) PROVE d \notin cmd[p].dsl
    BY <1>a, <1>1, <2>2 DEF DslHeld, PurgeRelease
  <2>3. dslRefs'[d] > 0
    <3> HIDE DEF d
    <3>1. QED
      BY <2>1, <2>2, RefsMove
  <2>4. QED
    BY <2>3 DEF DslOf
<1>2. ASSUME NEW p \in Procs, InsertPending(p), d \in cmd[p].dsl PROVE dslRefs'[d] > 0
  <2>1. dslRefs' = dslRefs
    BY <1>2 DEF InsertPending
  <2>2. dslRefs[d] > 0
    BY <1>a, <1>2 DEF DslHeld, InsertPending
  <2>3. QED
    BY <2>1, <2>2
<1>3. profile'[i] # NoRow
  BY DEF Exists
<1>4. QED
  BY <1>1, <1>2, <1>3, RowsMove DEF DslOf

\* Where purges are run apart, the DSL blob of every profile row holds a
\* reference, so that a garbage collection never takes the DSL of a profile:
\* put takes it before insert_pending, and purge releases it after its DELETE.
THEOREM DslCountedHolds == Spec => []DslCounted
<1>1. Init => Counted
  BY DEF Init, Counted, DslCounted, DslHeld, Exists
<1>2. TypeOK /\ Processes /\ OneRow /\ Counted /\ [Next]_vars => Counted'
  BY DslHeldStep, DslCountedStep DEF Counted
<1>3. Counted => DslCounted
  BY DEF Counted
<1>4. QED
  BY <1>1, <1>2, <1>3, TypeCorrect, ProcessesHold, OneRowHolds, PTL DEF Spec
-----------------------------------------------------------------------------
(* What the table promises.                                                *)

\* Equal rows are one row.
Distinct == \A i, j \in Ids : (Exists(i) /\ profile[i] = profile[j]) => i = j

LEMMA RowsDistinct == OneRow => Distinct
  BY DEF OneRow, Distinct, DslOf, Exists

LEMMA SameTable == UNCHANGED profile => Rows' = Rows
  BY DEF Rows, Exists

\* One row changes, or goes; the others are unchanged.
LEMMA OneChanges ==
  ASSUME Distinct, NEW i \in Ids, Exists(i), \A j \in Ids : j # i => profile'[j] = profile[j]
  PROVE  Rows' = (Rows \ {profile[i]}) \cup (IF Exists(i)' THEN {profile'[i]} ELSE {})
<1>1. ASSUME NEW r \in Rows'
      PROVE  r \in (Rows \ {profile[i]}) \cup (IF Exists(i)' THEN {profile'[i]} ELSE {})
  <2>1. PICK j \in Ids : Exists(j)' /\ r = profile'[j]
    BY DEF Rows
  <2>2. CASE j = i
    BY <2>1, <2>2
  <2>3. CASE j # i
    <3>1. r = profile[j] /\ Exists(j)
      BY <2>1, <2>3 DEF Exists
    <3>2. r # profile[i]
      BY <2>3, <3>1 DEF Distinct
    <3>3. QED
      BY <3>1, <3>2 DEF Rows
  <2>4. QED
    BY <2>2, <2>3
<1>2. ASSUME NEW r \in Rows, r # profile[i] PROVE r \in Rows'
  <2>1. PICK j \in Ids : Exists(j) /\ r = profile[j]
    BY DEF Rows
  <2>2. profile'[j] = r /\ Exists(j)'
    BY <1>2, <2>1 DEF Exists
  <2>3. QED
    BY <2>2 DEF Rows
<1>3. Exists(i)' => profile'[i] \in Rows'
  BY DEF Rows
<1>4. QED
  BY <1>1, <1>2, <1>3

\* insert_pending.
LEMMA InsertKeepsPromise ==
  ASSUME TypeOK, NEW p \in Procs, InsertPending(p)
  PROVE  Promise!Insert \/ Rows' = Rows
<1>1. CASE UNCHANGED profile
  BY <1>1, SameTable
<1>2. CASE ~UNCHANGED profile
  <2>1. PICK d \in cmd[p].dsl :
          /\ NextId \in Ids /\ ~Taken(d)
          /\ profile' = [profile EXCEPT ![NextId] =
               [fp |-> d[1], ver |-> d[2], status |-> "pending"]]
    BY <1>2, InsertMoves
  <2> DEFINE n == NextId
             row == [fp |-> d[1], ver |-> d[2], status |-> "pending"]
  <2>2. d[1] \in Fps /\ d[2] \in Versions /\ d = <<d[1], d[2]>>
    BY LocalsOf DEF TypeOK, CommandsOK, Dsls
  <2>3. /\ ~Exists(n) /\ profile'[n] = row /\ row # NoRow
        /\ \A j \in Ids : j # n => profile'[j] = profile[j]
    <3>1. ~Exists(n)
      BY <2>1, NextIdFresh
    <3>2. row.status # NoRow.status
      BY DEF NoRow
    <3>3. QED
      BY <2>1, <3>1, <3>2 DEF TypeOK, Table
  <2>4. \A r \in Rows : <<r.fp, r.ver>> # d
    BY <2>1 DEF Rows, Taken, DslOf
  <2> HIDE DEF n
  <2>5. n \in Ids
    BY <2>1 DEF n
  <2> HIDE DEF row
  <2>6. Rows' = Rows \cup {row}
    <3>1. ASSUME NEW r \in Rows' PROVE r \in Rows \cup {row}
      <4>1. PICK j \in Ids : Exists(j)' /\ r = profile'[j]
        BY DEF Rows
      <4>2. QED
        BY <2>3, <4>1 DEF Rows, Exists
    <3>2. ASSUME NEW r \in Rows PROVE r \in Rows'
      <4>1. PICK j \in Ids : Exists(j) /\ r = profile[j]
        BY DEF Rows
      <4>2. j # n
        BY <2>3, <4>1
      <4>3. profile'[j] = r /\ Exists(j)'
        BY <2>3, <4>1, <4>2 DEF Exists
      <4>4. QED
        BY <4>3 DEF Rows
    <3>3. row \in Rows'
      BY <2>3, <2>5 DEF Rows, Exists
    <3>4. QED
      BY <3>1, <3>2, <3>3
  <2>7. QED
    BY <2>2, <2>4, <2>6 DEF Promise!Insert, row
<1>3. QED
  BY <1>1, <1>2

\* promote and rollback of row i.
LEMMA ActivateKeepsPromise ==
  ASSUME TypeOK, Distinct, NEW i \in Ids, Exists(i), profile' = Activate(i),
         usage.purgeAlone => profile[i].status \in {"pending", "superseded"}
  PROVE  Promise!Use(profile[i])
<1> DEFINE row == profile[i]
           After(r) == IF r.fp = row.fp /\ r.status = "active"
                         THEN [r EXCEPT !.status = "superseded"] ELSE r
<1>1. /\ profile'[i] = [row EXCEPT !.status = "active"]
      /\ \A j \in Ids : j # i => profile'[j] = After(profile[j])
  BY DEF Activate, Active
<1>2. \A r : r # NoRow /\ r \in Row => After(r) # NoRow
  <2>1. \A r \in Row : [r EXCEPT !.status = "superseded"].status = "superseded"
    BY DEF Row
  <2>2. NoRow.status = "none"
    BY DEF NoRow
  <2>3. QED
    BY <2>1, <2>2
<1>3. After(NoRow) = NoRow
  BY DEF NoRow
<1>4. \A j \in Ids : Exists(j) => profile[j] \in Row
  BY DEF TypeOK, Table, Exists
<1>5. Exists(i)'
  <2>1. [row EXCEPT !.status = "active"].status = "active"
    BY <1>4 DEF Row
  <2>2. QED
    BY <1>1, <2>1 DEF Exists, NoRow
<1> HIDE DEF After
<1>6. \A j \in Ids : j # i => (Exists(j)' <=> Exists(j))
  BY <1>1, <1>2, <1>3, <1>4 DEF Exists
<1>7. Rows' = {[row EXCEPT !.status = "active"]} \cup {After(r) : r \in Rows \ {row}}
  <2>1. ASSUME NEW r \in Rows'
        PROVE  r \in {[row EXCEPT !.status = "active"]} \cup {After(s) : s \in Rows \ {row}}
    <3>1. PICK j \in Ids : Exists(j)' /\ r = profile'[j]
      BY DEF Rows
    <3>2. CASE j = i
      BY <1>1, <3>1, <3>2
    <3>3. CASE j # i
      <4>1. Exists(j) /\ r = After(profile[j]) /\ profile[j] # row
        BY <1>1, <1>6, <3>1, <3>3 DEF Distinct
      <4>2. profile[j] \in Rows \ {row}
        BY <4>1 DEF Rows
      <4>3. QED
        BY <4>1, <4>2
    <3>4. QED
      BY <3>2, <3>3
  <2>2. [row EXCEPT !.status = "active"] \in Rows'
    BY <1>1, <1>5 DEF Rows
  <2>3. ASSUME NEW s \in Rows \ {row} PROVE After(s) \in Rows'
    <3>1. PICK j \in Ids : Exists(j) /\ s = profile[j]
      BY DEF Rows
    <3>2. j # i
      BY <3>1
    <3>3. profile'[j] = After(s) /\ Exists(j)'
      BY <1>1, <1>6, <3>1, <3>2
    <3>4. QED
      BY <3>3 DEF Rows
  <2>4. QED
    BY <2>1, <2>2, <2>3
<1>8. QED
  BY <1>7 DEF Promise!Use, Promise!As, After

\* set_status, of a run and of revoke.
LEMMA StatusKeepsPromise ==
  ASSUME TypeOK, Distinct, NEW i, SetStatus(i, "quarantined"), i \in Ids \/ i = 0,
         usage.purgeAlone /\ i # 0 => profile[i].status # "pending"
  PROVE  \/ Rows' = Rows
         \/ \E row \in Rows : Promise!Quarantine(row)
<1>1. CASE i \in Ids /\ Exists(i)
  <2> DEFINE row == profile[i]
             after == [row EXCEPT !.status = "quarantined"]
  <2>1. profile' = [profile EXCEPT ![i].status = "quarantined"]
    BY <1>1 DEF SetStatus
  <2>2. profile'[i] = after /\ \A j \in Ids : j # i => profile'[j] = profile[j]
    BY <1>1, <2>1 DEF TypeOK, Table
  <2>3. after # NoRow
    <3>1. row \in Row
      BY <1>1 DEF TypeOK, Table, Exists
    <3>2. after.status = "quarantined"
      BY <3>1 DEF Row
    <3>3. QED
      BY <3>2 DEF NoRow
  <2>4. Rows' = (Rows \ {row}) \cup {after}
    BY <1>1, <2>2, <2>3, OneChanges DEF Exists
  <2>5. row \in Rows /\ i # 0
    BY <1>1 DEF Rows, Ids
  <2>6. Promise!Quarantine(row)
    BY <2>4, <2>5 DEF Promise!Quarantine, Promise!As
  <2>7. QED
    BY <2>5, <2>6
<1>2. CASE ~ (i \in Ids /\ Exists(i))
  <2>1. profile' = profile
    <3>1. CASE ~Exists(i)
      BY <3>1 DEF SetStatus
    <3>2. CASE i \notin Ids
      BY <3>2 DEF SetStatus, TypeOK, Table
    <3>3. QED
      BY <1>2, <3>1, <3>2
  <2>2. QED
    BY <2>1, SameTable
<1>3. QED
  BY <1>1, <1>2

\* A purge's DELETE.
LEMMA DeleteKeepsPromise ==
  ASSUME TypeOK, Distinct, NEW i, profile' = [profile EXCEPT ![i] = NoRow]
  PROVE  \/ Rows' = Rows
         \/ \E row \in Rows : Promise!Remove(row)
<1>1. CASE i \in Ids /\ Exists(i)
  <2>1. profile'[i] = NoRow /\ \A j \in Ids : j # i => profile'[j] = profile[j]
    BY <1>1 DEF TypeOK, Table
  <2>2. Rows' = (Rows \ {profile[i]}) \cup (IF Exists(i)' THEN {profile'[i]} ELSE {})
    BY <1>1, <2>1, OneChanges
  <2>3. Rows' = Rows \ {profile[i]}
    BY <2>1, <2>2 DEF Exists
  <2>4. profile[i] \in Rows
    BY <1>1 DEF Rows
  <2>5. QED
    BY <2>3, <2>4 DEF Promise!Remove
<1>2. CASE ~ (i \in Ids /\ Exists(i))
  <2>1. profile' = profile
    BY <1>2 DEF TypeOK, Table, Exists
  <2>2. QED
    BY <2>1, SameTable
<1>3. QED
  BY <1>1, <1>2

\* An installation that is about to promote has a rowid.
HasId == \A p \in Procs : pc[p] = "promote" => cmd[p].id \in Ids

LEMMA HasIdHolds == Spec => []HasId
<1>1. Init => HasId
  BY DEF Init, HasId
<1>2. TypeOK /\ Processes /\ HasId /\ [Next]_vars => HasId'
  BY PromoteHolds DEF HasId
<1>3. QED
  BY <1>1, <1>2, TypeCorrect, ProcessesHold, PTL DEF Spec

\* Every step of the system is a step of the promise, or changes no row.
LEMMA PromiseStep ==
  TypeOK /\ HasId /\ PendingApart /\ OneRow /\ [Next]_vars => [Promise!Next]_Promise!vars
<1> SUFFICES ASSUME TypeOK, HasId, PendingApart, OneRow, [Next]_vars
             PROVE  [Promise!Next]_Promise!vars
  OBVIOUS
<1> DEFINE Kinds == Promise!Insert \/ \E row \in Rows :
                      Promise!Use(row) \/ Promise!Quarantine(row) \/ Promise!Remove(row)
<1>a. Distinct
  BY RowsDistinct
<1>b. UNCHANGED usage
  BY UsageKept
<1>c. \A p \in Procs : cmd[p].id \in Ids \cup {0}
  BY LocalsOf DEF TypeOK, CommandsOK
<1>1. ASSUME NEW p \in Procs, Step(p) \/ Abort(p) PROVE Kinds \/ Rows' = Rows
  <2>1. CASE InsertPending(p)
    BY <2>1, InsertKeepsPromise
  <2>2. CASE Promote(p)
    <3> DEFINE i == cmd[p].id
    <3>1. CASE i \in Ids /\ Exists(i)
      <4>1. profile' = Activate(i)
        BY <2>2, <3>1 DEF Promote
      <4>2. usage.purgeAlone => profile[i].status \in {"pending", "superseded"}
        BY <2>2 DEF PendingApart, Promote
      <4>3. profile[i] \in Rows
        BY <3>1 DEF Rows
      <4> HIDE DEF i
      <4>4. Promise!Use(profile[i])
        BY <1>a, <3>1, <4>1, <4>2, ActivateKeepsPromise
      <4>5. QED
        BY <4>3, <4>4
    <3>2. CASE ~Exists(i)
      BY <2>2, <3>2, SameTable DEF Promote
    <3>3. i \in Ids
      BY <2>2 DEF HasId, Promote
    <3>4. QED
      BY <3>1, <3>2, <3>3
  <2>3. CASE RunQuarantine(p) \/ RevokeSet(p)
    <3> DEFINE i == cmd[p].id
    <3>1. SetStatus(i, "quarantined")
      BY <2>3 DEF RunQuarantine, RevokeSet
    <3>2. usage.purgeAlone /\ i # 0 => profile[i].status # "pending"
      BY <2>3 DEF PendingApart, RunQuarantine, RevokeSet, RunSteps
    <3>3. i \in Ids \/ i = 0
      BY <1>c
    <3> HIDE DEF i
    <3>4. QED
      BY <1>a, <3>1, <3>2, <3>3, StatusKeepsPromise
  <2>4. CASE PurgeDelete(p)
    <3> DEFINE i == cmd[p].id
    <3>1. profile' = profile \/ profile' = [profile EXCEPT ![i] = NoRow]
      BY <2>4 DEF PurgeDelete
    <3> HIDE DEF i
    <3>2. QED
      BY <1>a, <3>1, DeleteKeepsPromise, SameTable
  <2>5. QED
    BY <1>1, <2>1, <2>2, <2>3, <2>4, RowsUntouched, SameTable DEF Step
<1>2. ASSUME NEW p \in Procs, NEW f \in Fps, Rollback(p, f) PROVE Kinds
  <2>1. PICK i \in Superseded(f) : profile' = Activate(i)
    BY <1>2 DEF Rollback
  <2>2. i \in Ids /\ Exists(i) /\ profile[i].status = "superseded"
    BY DEF Superseded, Exists, NoRow
  <2>3. Promise!Use(profile[i]) /\ profile[i] \in Rows
    BY <1>a, <2>1, <2>2, ActivateKeepsPromise DEF Rows
  <2>4. QED
    BY <2>3
<1>3. CASE Rows' = Rows
  BY <1>b, <1>3 DEF Promise!vars
<1>4. CASE Rows' # Rows /\ Kinds
  BY <1>b, <1>4 DEF Promise!Next
<1>5. QED
  BY <1>1, <1>2, <1>3, <1>4, StepKinds, RowsUntouched, SameTable

\* The table keeps the promise of ProfilePromise, for any number of commands,
\* fingerprints, versions and aborts: each statement changes the status of one
\* version, and of the one it takes over from in the same transaction; and as long
\* as no purge overlaps, what was quarantined goes only by a purge
\* (profile_repo.rs:61-113, 184-230).
THEOREM RowsKeepPromiseHolds == Spec => RowsKeepPromise
<1>1. Init => Promise!Init
  <2>1. Init => Rows = {}
    BY DEF Init, Rows, Exists
  <2>2. Init => usage.purgeAlone \in BOOLEAN
    BY UsageAssumption DEF Init
  <2>3. QED
    BY <2>1, <2>2 DEF Promise!Init
<1>2. QED
  BY <1>1, PromiseStep, TypeCorrect, HasIdHolds, PendingApartHolds, OneRowHolds, PTL
     DEF Spec, RowsKeepPromise, Promise!Spec
=============================================================================
