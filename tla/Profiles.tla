------------------------------ MODULE Profiles ------------------------------
(***************************************************************************)
(* The life of a learned or imported profile: the `profiles` table of      *)
(* crates/nid-storage/src/profile_repo.rs and the commands that drive it,  *)
(* `nid <cmd>` (run.rs), `nid synthesize`, and `nid profiles`              *)
(* import/rollback/revoke/purge.                                           *)
(*                                                                         *)
(* Every nid process runs one command; it holds no lock between its SQL    *)
(* statements, and keeps in locals the row ids it has read.  The table     *)
(* gives out rowids, so the largest id is used again once its row is       *)
(* deleted.  promote and rollback are one transaction each.                *)
(***************************************************************************)
EXTENDS Naturals, FiniteSets

CONSTANTS
  Procs,        \* nid processes
  Fps,          \* command fingerprints
  Versions,     \* profile versions
  None,         \* neither
  Learned,      \* the versions synthesis produces: the baseline's, or a backend's
  Usages,       \* the ways people use nid that are considered
  MaxId,        \* bound: row ids
  MaxRefs,      \* bound: references to one DSL blob
  MaxAborts     \* bound: commands cut short

ASSUME NamesAssumption  == None \notin Fps \cup Versions /\ Learned \subseteq Versions
ASSUME UsageAssumption  == Usages \subseteq [purgeAlone : BOOLEAN, fps : SUBSET Fps]
ASSUME BoundsAssumption ==
  MaxId \in Nat /\ MaxRefs \in Nat /\ MaxAborts \in Nat

VARIABLES
  profile,    \* the rows of `profiles`, by id
  dslRefs,    \* references of a profile's DSL blob (blobs.ref_count)
  sessions,   \* <<id, fp>>: some sessions row of a run of fp names profile id
  skewed,     \* the profiles an exit_code_skew event names
  pc,         \* where each process is
  cmd,        \* its command and its locals
  aborts,     \* commands cut short so far
  usage       \* the commands people run, and whether a purge overlaps others

tables == <<profile, dslRefs, sessions, skewed>>
bounds == <<aborts, usage>>
vars   == <<profile, dslRefs, sessions, skewed, pc, cmd, aborts, usage>>

Ids    == 1 .. MaxId
Status == {"pending", "active", "superseded", "quarantined"}
Dsls   == Fps \X Versions   \* the TOML names its fingerprint and version
NoRow  == [fp |-> None, ver |-> None, status |-> "none"]
Row    == [fp : Fps, ver : Versions, status : Status]

Exists(i)     == profile[i] # NoRow
\* Mutants: active_for forgets the fingerprint; rollback takes any row that is
\* not active.
ActiveOfAny(f)  == {i \in Ids : profile[i].status = "active"}
NotActive(f)    == {i \in Ids : profile[i].status \notin {"active", "none"} /\ profile[i].fp = f}

Active(f)     == {i \in Ids : profile[i].status = "active" /\ profile[i].fp = f}
Superseded(f) == {i \in Ids : profile[i].status = "superseded" /\ profile[i].fp = f}
DslOf(i)      == <<profile[i].fp, profile[i].ver>>

\* INTEGER PRIMARY KEY without AUTOINCREMENT: one more than the largest rowid.
NextId == CHOOSE n \in 1 .. MaxId + 1 :
            /\ \A i \in Ids : Exists(i) => i < n
            /\ n = 1 \/ Exists(n - 1)

\* The model has a row id left for one more installation.
Room == NextId + Cardinality({q \in Procs : pc[q] \in {"put", "insert"}}) <= MaxId

NoCmd == [op |-> "none", fp |-> None, id |-> 0, todo |-> {}, dsl |-> {}]

Cmds  == [op : {"none", "run", "install", "revoke", "purge"}, fp : Fps \cup {None},
          id : Ids \cup {0}, todo : SUBSET Ids, dsl : SUBSET Dsls]

RunSteps     == {"running", "session", "skew"}
InstallSteps == {"put", "insert", "promote"}
PurgeSteps   == {"purge", "purgeDelete", "purgeRelease"}
Busy         == RunSteps \cup InstallSteps \cup PurgeSteps \cup {"revoke"}

\* The tables, and the processes with their locals.
Table == [Ids -> Row \cup {NoRow}]
CommandsOK ==
  /\ pc \in [Procs -> Busy \cup {"idle"}]
  /\ cmd \in [Procs -> Cmds]
  /\ \A p \in Procs : pc[p] # "idle" => cmd[p].fp \in Fps

TypeOK ==
  /\ profile \in Table
  /\ CommandsOK
  /\ dslRefs \in [Dsls -> Nat]
  /\ sessions \subseteq Ids \X Fps
  /\ skewed \subseteq Ids
  /\ aborts \in Nat
  /\ usage \in Usages

Init ==
  /\ profile = [i \in Ids |-> NoRow]
  /\ dslRefs = [d \in Dsls |-> 0]
  /\ sessions = {}
  /\ skewed = {}
  /\ pc = [p \in Procs |-> "idle"]
  /\ cmd = [p \in Procs |-> NoCmd]
  /\ aborts = 0
  /\ usage \in Usages

Goto(p, step) == pc' = [pc EXCEPT ![p] = step]
Leave(p)      == Goto(p, "idle") /\ cmd' = [cmd EXCEPT ![p] = NoCmd]

Begin(p, op, f, i, todo, dsl, step) ==
  /\ pc[p] = "idle"
  /\ f \in usage.fps
  /\ usage.purgeAlone => \A q \in Procs :
       IF op = "purge" THEN pc[q] = "idle" ELSE cmd[q].op # "purge"
  /\ Goto(p, step)
  /\ cmd' = [cmd EXCEPT ![p] = [op |-> op, fp |-> f, id |-> i, todo |-> todo,
                                dsl |-> dsl]]

SetStatus(i, st) ==
  profile' = IF Exists(i) THEN [profile EXCEPT ![i].status = st] ELSE profile

-----------------------------------------------------------------------------
(* `nid <cmd>`: resolve the profile, run the command, then learn or judge. *)

\* resolve_profile_with_id: the active row and its DSL blob.  A missing blob
\* ends the run before the command is spawned.
RunStart(p, f) ==
  /\ \/ /\ Active(f) = {}
        /\ Begin(p, "run", f, 0, {}, {}, "running")
     \/ \E i \in Active(f) :
          /\ dslRefs[DslOf(i)] > 0
          /\ Begin(p, "run", f, i, {}, {}, "running")
  /\ UNCHANGED <<tables, bounds>>

\* try_auto_synthesize, for a run without a profile whose samples suffice.
RunLearn(p) ==
  /\ pc[p] = "running"
  /\ cmd[p].id = 0
  /\ Active(cmd[p].fp) = {}
  /\ Room
  /\ \E v \in Learned :
       /\ dslRefs[<<cmd[p].fp, v>>] < MaxRefs
       /\ cmd' = [cmd EXCEPT ![p].dsl = {<<cmd[p].fp, v>>}]
  /\ Goto(p, "put")
  /\ UNCHANGED <<tables, bounds>>

\* The DSL exceeded its budget, or the bypass score its threshold: set_status
\* on the id read before the command ran, whatever became of that row.
RunQuarantine(p) ==
  /\ pc[p] = "running"
  /\ cmd[p].id # 0
  /\ SetStatus(cmd[p].id, "quarantined")
  /\ Goto(p, "session")
  /\ UNCHANGED <<dslRefs, sessions, skewed, cmd, bounds>>

RunPlain(p) ==
  /\ pc[p] = "running"
  /\ Goto(p, "session")
  /\ UNCHANGED <<tables, cmd, bounds>>

\* SessionRepo::create: the foreign key on profiles fails the run if the row
\* of its profile is gone.
RunSession(p) ==
  /\ pc[p] = "session"
  /\ LET i == cmd[p].id IN
       \/ /\ i = 0
          /\ Leave(p)
          /\ UNCHANGED sessions
       \/ /\ i # 0 /\ Exists(i)
          /\ sessions' = sessions \cup {<<i, cmd[p].fp>>}
          /\ Goto(p, "skew")
          /\ UNCHANGED cmd
       \/ /\ i # 0 /\ ~Exists(i)
          /\ Leave(p)
          /\ UNCHANGED sessions
  /\ UNCHANGED <<profile, dslRefs, skewed, bounds>>

\* maybe_record_exit_skew: an event without session once the buckets differ.
RunSkew(p) ==
  /\ pc[p] = "skew"
  /\ skewed' \in {skewed, skewed \cup ({cmd[p].id} \cap {i \in Ids : Exists(i)})}
  /\ Leave(p)
  /\ UNCHANGED <<profile, dslRefs, sessions, bounds>>

-----------------------------------------------------------------------------
(* put, insert_pending, promote: run's auto-synthesis, `nid synthesize` and *)
(* `nid profiles import`.                                                   *)

\* `nid synthesize` and `nid profiles import` do not ask for an active profile
\* and take no lock.
StartInstall(p, f, v) ==
  /\ Room
  /\ dslRefs[<<f, v>>] < MaxRefs
  /\ Begin(p, "install", f, 0, {}, {<<f, v>>}, "put")
  /\ UNCHANGED <<tables, bounds>>

\* A run ignores the error of try_auto_synthesize and goes on without profile.
AfterInstall(p) ==
  IF cmd[p].op = "run"
  THEN Goto(p, "session") /\ cmd' = [cmd EXCEPT ![p].id = 0, ![p].dsl = {}]
  ELSE Leave(p)

PutDsl(p) ==
  /\ pc[p] = "put"
  /\ dslRefs' = [d \in Dsls |-> IF d \in cmd[p].dsl THEN dslRefs[d] + 1 ELSE dslRefs[d]]
  /\ Goto(p, "insert")
  /\ UNCHANGED <<profile, sessions, skewed, cmd, bounds>>

\* UNIQUE (fingerprint, version), over rows of every status.
Taken(d) == \E i \in Ids : Exists(i) /\ DslOf(i) = d

InsertPending(p) ==
  /\ pc[p] = "insert"
  /\ \E d \in cmd[p].dsl :
       \/ /\ Taken(d)              \* the reference put took is not released
          /\ AfterInstall(p)
          /\ UNCHANGED profile
       \/ /\ ~Taken(d)
          /\ NextId \in Ids
          /\ profile' = [profile EXCEPT ![NextId] =
               [fp |-> d[1], ver |-> d[2], status |-> "pending"]]
          /\ cmd' = [cmd EXCEPT ![p].id = NextId]
          /\ Goto(p, "promote")
  /\ UNCHANGED <<dslRefs, sessions, skewed, bounds>>

\* Mutant of Activate: the old active row is left as it is.
ActivateOnly(i) == [profile EXCEPT ![i].status = "active"]

\* The two UPDATEs of promote and of rollback, in one transaction.
Activate(i) ==
  [j \in Ids |->
     IF j = i THEN [profile[j] EXCEPT !.status = "active"]
     ELSE IF j \in Active(profile[i].fp) THEN [profile[j] EXCEPT !.status = "superseded"]
     ELSE profile[j]]

\* Mutant of Promote: it gives way to a profile that is already active.
PromoteUnlessActive(p) ==
  /\ pc[p] = "promote"
  /\ profile' = IF Exists(cmd[p].id) /\ Active(cmd[p].fp) = {}
                THEN Activate(cmd[p].id) ELSE profile
  /\ AfterInstall(p)
  /\ UNCHANGED <<dslRefs, sessions, skewed, bounds>>

\* promote reads the fingerprint of the row first; no row is an error.
Promote(p) ==
  /\ pc[p] = "promote"
  /\ profile' = IF Exists(cmd[p].id) THEN Activate(cmd[p].id) ELSE profile
  /\ AfterInstall(p)
  /\ UNCHANGED <<dslRefs, sessions, skewed, bounds>>

-----------------------------------------------------------------------------
(* nid profiles rollback, revoke, purge; retention.                         *)

\* ORDER BY created_at DESC LIMIT 1, of the superseded rows: created_at counts
\* seconds and does not order the rows of one second, so any of them.
Rollback(p, f) ==
  /\ pc[p] = "idle"
  /\ f \in usage.fps
  /\ usage.purgeAlone => \A q \in Procs : cmd[q].op # "purge"
  /\ \E i \in Superseded(f) : profile' = Activate(i)
  /\ UNCHANGED <<dslRefs, sessions, skewed, pc, cmd, bounds>>

RevokeRead(p, f) ==
  /\ \E i \in Active(f) : Begin(p, "revoke", f, i, {}, {}, "revoke")
  /\ UNCHANGED <<tables, bounds>>

RevokeSet(p) ==
  /\ pc[p] = "revoke"
  /\ SetStatus(cmd[p].id, "quarantined")
  /\ Leave(p)
  /\ UNCHANGED <<dslRefs, sessions, skewed, bounds>>

\* list_by_fingerprint.
PurgeList(p, f) ==
  /\ Begin(p, "purge", f, 0, {i \in Ids : profile[i].fp = f}, {}, "purge")
  /\ UNCHANGED <<tables, bounds>>

\* The SELECT of ProfileRepo::purge.
PurgeRead(p) ==
  /\ pc[p] = "purge"
  /\ \E i \in cmd[p].todo :
       cmd' = [cmd EXCEPT ![p].id = i, ![p].todo = @ \ {i},
                          ![p].dsl = IF Exists(i) THEN {DslOf(i)} ELSE {}]
  /\ Goto(p, "purgeDelete")
  /\ UNCHANGED <<tables, bounds>>

\* Mutant of Referenced: the connection does not enforce foreign keys.
ReferencedNever(i) == FALSE

Referenced(i) == i \in skewed \/ \E f \in Fps : <<i, f>> \in sessions

\* Mutant of PurgeDelete: its error is ignored and the blob released.
PurgeDeleteUnchecked(p) ==
  /\ pc[p] = "purgeDelete"
  /\ profile' = IF Exists(cmd[p].id) /\ Referenced(cmd[p].id) THEN profile
                ELSE [profile EXCEPT ![cmd[p].id] = NoRow]
  /\ Goto(p, "purgeRelease")
  /\ UNCHANGED <<dslRefs, sessions, skewed, cmd, bounds>>

\* Its DELETE: foreign keys of sessions and fidelity_events fail it, and `?`
\* ends the whole purge.
PurgeDelete(p) ==
  /\ pc[p] = "purgeDelete"
  /\ \/ /\ Exists(cmd[p].id) /\ Referenced(cmd[p].id)
        /\ Leave(p)
        /\ UNCHANGED profile
     \/ /\ ~ (Exists(cmd[p].id) /\ Referenced(cmd[p].id))
        /\ profile' = [profile EXCEPT ![cmd[p].id] = NoRow]
        /\ Goto(p, "purgeRelease")
        /\ UNCHANGED cmd
  /\ UNCHANGED <<dslRefs, sessions, skewed, bounds>>

PurgeRelease(p) ==
  /\ pc[p] = "purgeRelease"
  /\ dslRefs' = [d \in Dsls |-> IF d \in cmd[p].dsl /\ dslRefs[d] > 0
                                THEN dslRefs[d] - 1 ELSE dslRefs[d]]
  /\ cmd' = [cmd EXCEPT ![p].id = 0, ![p].dsl = {}]
  /\ Goto(p, "purge")
  /\ UNCHANGED <<profile, sessions, skewed, bounds>>

PurgeDone(p) ==
  /\ pc[p] = "purge"
  /\ cmd[p].todo = {}
  /\ Leave(p)
  /\ UNCHANGED <<tables, bounds>>

\* purge_older_than, from `nid gc` or a run's retention sweep.
Expire ==
  /\ \E s \in sessions : sessions' = sessions \ {s}
  /\ UNCHANGED <<profile, dslRefs, skewed, pc, cmd, bounds>>

\* The process is killed, or a statement fails (SQLITE_BUSY: a deferred
\* transaction that reads before it writes cannot wait for another writer);
\* a run goes on after a failed installation.
Abort(p) ==
  /\ pc[p] \in Busy
  /\ aborts < MaxAborts
  /\ aborts' = aborts + 1
  /\ \/ Leave(p)
     \/ pc[p] \in InstallSteps /\ AfterInstall(p)
  /\ UNCHANGED <<tables, usage>>

Step(p) ==
  \/ RunLearn(p) \/ RunQuarantine(p) \/ RunPlain(p) \/ RunSession(p) \/ RunSkew(p)
  \/ PutDsl(p) \/ InsertPending(p) \/ Promote(p)
  \/ RevokeSet(p)
  \/ PurgeRead(p) \/ PurgeDelete(p) \/ PurgeRelease(p) \/ PurgeDone(p)

Next ==
  \/ \E p \in Procs :
       \/ \E f \in Fps : \/ RunStart(p, f) \/ Rollback(p, f)
                         \/ RevokeRead(p, f) \/ PurgeList(p, f)
                         \/ \E v \in Versions : StartInstall(p, f, v)
       \/ Step(p)
       \/ Abort(p)
  \/ Expire

Spec == Init /\ [][Next]_vars

-----------------------------------------------------------------------------
(* Properties.                                                             *)

\* A fingerprint never has two active profiles, whatever installs, rollbacks,
\* revocations and purges interleave (promote and rollback flip the old one in
\* the transaction that activates the new one).
AtMostOneActive ==
  \A i, j \in Ids :
    (profile[i].status = "active" /\ profile[j].status = "active"
       /\ profile[i].fp = profile[j].fp) => i = j

\* An id read by a command and used statements later still names a row of the
\* fingerprint it was read for, as long as no purge overlaps: rowids are reused.
HeldIdValid ==
  usage.purgeAlone => \A p \in Procs :
    (cmd[p].id # 0 /\ cmd[p].op # "purge") => profile[cmd[p].id].fp = cmd[p].fp

\* A session names a profile of its own fingerprint, under the same condition.
SessionsMatch ==
  usage.purgeAlone =>
    \A i \in Ids, f \in Fps : <<i, f>> \in sessions => profile[i].fp = f

\* Every profile row holds a reference on its DSL blob, so that the active
\* profile of a fingerprint can be loaded: put before insert_pending, DELETE
\* before release.
DslCounted ==
  usage.purgeAlone => \A i \in Ids : Exists(i) => dslRefs[DslOf(i)] > 0

\* Only a command cut short leaves a row pending: otherwise lazy activation is
\* over when its command is.
PendingOnlyAfterAbort ==
  (aborts = 0 /\ \A p \in Procs : pc[p] = "idle") =>
    \A i \in Ids : profile[i].status # "pending"

\* A quarantined profile is never dispatched again: neither promote nor
\* rollback brings it back; only a purge takes the row away.
QuarantineSticks ==
  [][usage.purgeAlone => \A i \in Ids :
       profile[i].status = "quarantined" => profile'[i].status \in {"quarantined", "none"}]_vars

\* The table without its rowids.
Rows == {profile[i] : i \in {j \in Ids : Exists(j)}}

Promise == INSTANCE ProfilePromise WITH rows <- Rows, apart <- usage.purgeAlone

\* Whatever commands interleave, each statement changes the status of one version,
\* and that of the one it takes over from in the same transaction
\* (profile_repo.rs:61-113, 184-230).
RowsKeepPromise == Promise!Spec

\* A lock-in whose candidate passed its self-test gives the fingerprint an
\* active profile, also after a quarantine ("quarantine, re-synthesize on next
\* lock-in", README.md:409).
LearnGivesActive ==
  [][\A p \in Procs :
       (cmd[p].op = "run" /\ pc[p] \in InstallSteps /\ pc'[p] = "session") =>
         \E i \in Ids : profile'[i].fp = cmd[p].fp /\ profile'[i].status = "active"]_vars

=============================================================================
