------------------------------ MODULE BlobStore ------------------------------
(***************************************************************************)
(* The content-addressed blob store of crates/nid-storage/src/blob.rs: one *)
(* row of the `blobs` table and one file `sha256-<hash>.zst` for every     *)
(* content, shared by every nid process of the machine.                    *)
(*                                                                         *)
(* A nid process is short lived and holds no lock on the store, so put,    *)
(* release and gc_orphans interleave at every SQL statement and every file *)
(* system call: with_conn is a mutex of one process, and each statement    *)
(* commits on its own.  A step below is one statement or one such call.    *)
(***************************************************************************)
EXTENDS Naturals, FiniteSets

CONSTANTS
  Procs,      \* the nid processes that may run at once
  Shas,       \* the contents, named by their SHA-256
  NoSha,      \* "no content": the process is idle
  Overlaps,   \* the disciplines considered: which operations may overlap
  MaxRefs,    \* bound: references to one content
  MaxAborts   \* bound: operations cut short by a crash or an I/O or SQL error

Ops   == {"put", "release", "gc"}
Kinds == {"session", "sample"}

ASSUME ProcsAssumption   == IsFiniteSet(Procs)
ASSUME ShasAssumption    == NoSha \notin Shas
ASSUME OverlapAssumption == Overlaps \subseteq SUBSET (Ops \X Ops)
ASSUME BoundsAssumption  == MaxRefs \in Nat /\ MaxAborts \in Nat

VARIABLES
  rows,       \* the contents with a row in `blobs`
  refCount,   \* blobs.ref_count, 0 where there is no row
  file,       \* the file of a content at its final path
  tmp,        \* the file of a content at the shared path <hash>.tmp
  holders,    \* sessions and profiles rows that name a content (no foreign key)
  samples,    \* samples rows that name a content (foreign key on blobs)
  pc,         \* where each process is
  call,       \* the operation it runs, on what, and for whom
  fd,         \* where the file it has open for writing is linked now
  aborts,     \* operations cut short so far
  overlap     \* the pairs of operations two processes may run at once

store == <<rows, refCount>>
disk  == <<file, tmp, fd>>
owners == <<holders, samples>>
bounds == <<aborts, overlap>>
vars  == <<rows, refCount, file, tmp, holders, samples, pc, call, fd, aborts,
          overlap>>

Content == {"none", "torn", "full"}

PutSteps     == {"count", "bump", "create", "write", "rename", "insert", "record"}
ReleaseSteps == {"dec", "check", "delete", "unlink"}
GcSteps      == {"sweep", "sweepDelete"}
Busy         == PutSteps \cup ReleaseSteps \cup GcSteps

NoCall == [op |-> "none", sha |-> NoSha, kind |-> "session", todo |-> {}]

Calls == [op : Ops \cup {"none"}, sha : Shas \cup {NoSha}, kind : Kinds, todo : SUBSET Shas]

\* Where a step works on one content.
OnContent == PutSteps \cup ReleaseSteps \cup {"sweepDelete"}

CallsOK ==
  /\ pc \in [Procs -> Busy \cup {"idle", "failed"}]
  /\ call \in [Procs -> Calls]
  /\ \A p \in Procs : pc[p] \in OnContent => call[p].sha \in Shas

TypeOK ==
  /\ rows \subseteq Shas
  /\ refCount \in [Shas -> Nat]
  /\ file \in [Shas -> Content]
  /\ tmp \in [Shas -> Content]
  /\ holders \in [Shas -> Nat]
  /\ samples \in [Shas -> Nat]
  /\ CallsOK
  /\ fd \in [Procs -> {"none", "tmp", "file", "gone"}]
  /\ aborts \in Nat
  /\ overlap \in Overlaps

Init ==
  /\ rows = {}
  /\ refCount = [s \in Shas |-> 0]
  /\ file = [s \in Shas |-> "none"]
  /\ tmp = [s \in Shas |-> "none"]
  /\ holders = [s \in Shas |-> 0]
  /\ samples = [s \in Shas |-> 0]
  /\ pc = [p \in Procs |-> "idle"]
  /\ call = [p \in Procs |-> NoCall]
  /\ fd = [p \in Procs |-> "none"]
  /\ aborts = 0
  /\ overlap \in Overlaps

-----------------------------------------------------------------------------
(* Helpers.                                                                *)

Refs(s) == holders[s] + samples[s]

\* get() succeeds: the file is there and decompresses to the hashed content.
Readable(s) == file[s] = "full"

Goto(p, step) == pc' = [pc EXCEPT ![p] = step]

\* The process leaves the operation: it closes its file and forgets its locals.
Leave(p, step) ==
  /\ Goto(p, step)
  /\ call' = [call EXCEPT ![p] = NoCall]
  /\ fd' = [fd EXCEPT ![p] = "none"]

\* Where the open files of content s are linked once its final path is
\* unlinked, and once its tmp file is renamed over the final path.
AfterUnlink(s) ==
  [q \in Procs |-> IF call[q].sha = s /\ fd[q] = "file" THEN "gone" ELSE fd[q]]
AfterRename(s) ==
  [q \in Procs |-> IF call[q].sha # s THEN fd[q]
                   ELSE IF fd[q] = "tmp" THEN "file"
                   ELSE IF fd[q] = "file" THEN "gone" ELSE fd[q]]

\* A process may start op beside what the others are running.
MayStart(p, op) ==
  /\ pc[p] = "idle"
  /\ \A q \in Procs : call[q].op # "none" => <<op, call[q].op>> \in overlap

\* Mutant of Pinned: the connection does not enforce foreign keys.
PinnedNever(s) == FALSE

\* DELETE FROM blobs fails on the foreign key of a samples row.
Pinned(s) == s \in rows /\ samples[s] > 0

DeleteRow(s) ==
  /\ rows' = rows \ {s}
  /\ refCount' = [refCount EXCEPT ![s] = 0]

-----------------------------------------------------------------------------
(* put, with the row its caller then writes to own the reference.          *)

BeginPut(p, s, k) ==
  /\ MayStart(p, "put")
  /\ Refs(s) < MaxRefs
  /\ Goto(p, "count")
  /\ call' = [call EXCEPT ![p] = [op |-> "put", sha |-> s, kind |-> k, todo |-> {}]]
  /\ UNCHANGED <<store, disk, owners, bounds>>

PutCount(p) ==
  /\ pc[p] = "count"
  /\ Goto(p, IF call[p].sha \in rows THEN "bump" ELSE "create")
  /\ UNCHANGED <<store, disk, owners, call, bounds>>

\* Mutant of PutBump: a second put of the same content reuses the row without
\* counting its reference.
PutBumpUncounted(p) ==
  /\ pc[p] = "bump"
  /\ Goto(p, "record")
  /\ UNCHANGED <<store, disk, owners, call, bounds>>

\* UPDATE ... ref_count + 1: it touches no row when the row is gone, and put
\* returns Ok all the same.
PutBump(p) ==
  /\ pc[p] = "bump"
  /\ LET s == call[p].sha IN
       refCount' = [refCount EXCEPT ![s] = IF s \in rows THEN @ + 1 ELSE @]
  /\ Goto(p, "record")
  /\ UNCHANGED <<rows, disk, owners, call, bounds>>

\* File::create truncates a tmp file that another process is writing.
PutCreate(p) ==
  /\ pc[p] = "create"
  /\ tmp' = [tmp EXCEPT ![call[p].sha] = "torn"]
  /\ fd' = [fd EXCEPT ![p] = "tmp"]
  /\ Goto(p, "write")
  /\ UNCHANGED <<store, file, owners, call, bounds>>

\* write_all and sync_all reach the open file, wherever it is linked by now.
PutWrite(p) ==
  /\ pc[p] = "write"
  /\ tmp' = [tmp EXCEPT ![call[p].sha] = IF fd[p] = "tmp" THEN "full" ELSE @]
  /\ file' = [file EXCEPT ![call[p].sha] = IF fd[p] = "file" THEN "full" ELSE @]
  /\ fd' = [fd EXCEPT ![p] = "none"]
  /\ Goto(p, "rename")
  /\ UNCHANGED <<store, owners, call, bounds>>

PutRename(p) ==
  /\ pc[p] = "rename"
  /\ LET s == call[p].sha IN
       \/ /\ tmp[s] # "none"
          /\ file' = [file EXCEPT ![s] = tmp[s]]
          /\ tmp' = [tmp EXCEPT ![s] = "none"]
          /\ fd' = AfterRename(s)
          /\ Goto(p, "insert")
          /\ UNCHANGED <<call>>
       \/ /\ tmp[s] = "none"        \* another put renamed it: ENOENT
          /\ Leave(p, "failed")
          /\ UNCHANGED <<file, tmp>>
  /\ UNCHANGED <<store, owners, bounds>>

PutInsert(p) ==
  /\ pc[p] = "insert"
  /\ LET s == call[p].sha IN
       \/ /\ s \notin rows
          /\ rows' = rows \cup {s}
          /\ refCount' = [refCount EXCEPT ![s] = 1]
          /\ Goto(p, "record")
          /\ UNCHANGED <<call, fd>>
       \/ /\ s \in rows             \* PRIMARY KEY violated
          /\ Leave(p, "failed")
          /\ UNCHANGED store
  /\ UNCHANGED <<file, tmp, owners, bounds>>

\* The caller's own row: sessions and profiles name a blob without a foreign
\* key, samples with one (its error is ignored).
PutRecord(p) ==
  /\ pc[p] = "record"
  /\ LET s == call[p].sha IN
       \/ /\ call[p].kind = "session"
          /\ holders' = [holders EXCEPT ![s] = @ + 1]
          /\ UNCHANGED samples
       \/ /\ call[p].kind = "sample"
          /\ samples' = [samples EXCEPT ![s] = IF s \in rows THEN @ + 1 ELSE @]
          /\ UNCHANGED holders
  /\ Leave(p, "idle")
  /\ UNCHANGED <<store, file, tmp, bounds>>

\* `?` takes the error of put out of the process, after the wrapped command ran.
Exit(p) ==
  /\ pc[p] = "failed"
  /\ Goto(p, "idle")
  /\ UNCHANGED <<store, disk, owners, call, bounds>>

-----------------------------------------------------------------------------
(* release: the caller has already deleted the row that owned the          *)
(* reference (purge_older_than, ProfileRepo::purge).                       *)

BeginRelease(p, s) ==
  /\ MayStart(p, "release")
  /\ holders[s] > 0
  /\ holders' = [holders EXCEPT ![s] = @ - 1]
  /\ Goto(p, "dec")
  /\ call' = [call EXCEPT ![p] = [op |-> "release", sha |-> s, kind |-> "session",
                                  todo |-> {}]]
  /\ UNCHANGED <<store, disk, samples, bounds>>

ReleaseDec(p) ==
  /\ pc[p] = "dec"
  /\ LET s == call[p].sha IN
       refCount' = [refCount EXCEPT ![s] = IF @ > 0 THEN @ - 1 ELSE @]
  /\ Goto(p, "check")
  /\ UNCHANGED <<rows, disk, owners, call, bounds>>

\* SELECT ref_count, unwrap_or(0).
ReleaseCheck(p) ==
  /\ pc[p] = "check"
  /\ \/ /\ refCount[call[p].sha] = 0
        /\ Goto(p, "delete")
        /\ UNCHANGED <<call, fd>>
     \/ /\ refCount[call[p].sha] > 0
        /\ Leave(p, "idle")
  /\ UNCHANGED <<store, file, tmp, owners, bounds>>

ReleaseDelete(p) ==
  /\ pc[p] = "delete"
  /\ LET s == call[p].sha IN
       \/ /\ ~Pinned(s)
          /\ DeleteRow(s)
          /\ Goto(p, "unlink")
          /\ UNCHANGED <<call, fd>>
       \/ /\ Pinned(s)              \* every caller ignores the error
          /\ Leave(p, "idle")
          /\ UNCHANGED store
  /\ UNCHANGED <<file, tmp, owners, bounds>>

\* Mutant of ReleaseUnlink: the row goes and its file stays.
ReleaseUnlinkForgotten(p) ==
  /\ pc[p] = "unlink"
  /\ Leave(p, "idle")
  /\ UNCHANGED <<store, file, tmp, owners, bounds>>

ReleaseUnlink(p) ==
  /\ pc[p] = "unlink"
  /\ file' = [file EXCEPT ![call[p].sha] = "none"]
  /\ fd' = AfterUnlink(call[p].sha)
  /\ Goto(p, "idle")
  /\ call' = [call EXCEPT ![p] = NoCall]
  /\ UNCHANGED <<store, tmp, owners, bounds>>

-----------------------------------------------------------------------------
(* gc_orphans: select the rows without references, then for each remove    *)
(* the file and delete the row, whatever its count is by then.             *)

\* Mutants of Unreferenced: the sweep also takes blobs with one reference
\* left; it compares with < instead of <=.
UnreferencedOffByOne == {s \in rows : refCount[s] <= 1}
UnreferencedNegative == {s \in rows : refCount[s] < 0}

\* SELECT ... WHERE ref_count <= 0.
Unreferenced == {s \in rows : refCount[s] = 0}

BeginGc(p) ==
  /\ MayStart(p, "gc")
  /\ Goto(p, "sweep")
  /\ call' = [call EXCEPT ![p] = [op |-> "gc", sha |-> NoSha, kind |-> "session",
                                  todo |-> Unreferenced]]
  /\ UNCHANGED <<store, disk, owners, bounds>>

GcUnlink(p) ==
  /\ pc[p] = "sweep"
  /\ \E s \in call[p].todo :
       /\ file' = [file EXCEPT ![s] = "none"]
       /\ fd' = AfterUnlink(s)
       /\ call' = [call EXCEPT ![p].sha = s]
  /\ Goto(p, "sweepDelete")
  /\ UNCHANGED <<store, tmp, owners, bounds>>

GcDelete(p) ==
  /\ pc[p] = "sweepDelete"
  /\ LET s == call[p].sha IN
       \/ /\ ~Pinned(s)
          /\ DeleteRow(s)
          /\ Goto(p, "sweep")
          /\ call' = [call EXCEPT ![p].sha = NoSha, ![p].todo = @ \ {s}]
          /\ UNCHANGED fd
       \/ /\ Pinned(s)              \* `?` ends the sweep
          /\ Leave(p, "idle")
          /\ UNCHANGED store
  /\ UNCHANGED <<file, tmp, owners, bounds>>

GcDone(p) ==
  /\ pc[p] = "sweep"
  /\ call[p].todo = {}
  /\ Leave(p, "idle")
  /\ UNCHANGED <<store, file, tmp, owners, bounds>>

-----------------------------------------------------------------------------
(* A process dies, or a statement or a file call returns an error          *)
(* (SQLITE_BUSY after busy_timeout, a full disk): the operation stops      *)
(* where it is and nothing is undone.                                      *)

Abort(p) ==
  /\ pc[p] \in Busy
  /\ aborts < MaxAborts
  /\ aborts' = aborts + 1
  /\ Leave(p, "idle")
  /\ UNCHANGED <<store, file, tmp, owners, overlap>>

Step(p) ==
  \/ PutCount(p) \/ PutBump(p) \/ PutCreate(p) \/ PutWrite(p) \/ PutRename(p)
  \/ PutInsert(p) \/ PutRecord(p) \/ Exit(p)
  \/ ReleaseDec(p) \/ ReleaseCheck(p) \/ ReleaseDelete(p) \/ ReleaseUnlink(p)
  \/ GcUnlink(p) \/ GcDelete(p) \/ GcDone(p)

Next ==
  \E p \in Procs :
    \/ \E s \in Shas, k \in Kinds : BeginPut(p, s, k)
    \/ \E s \in Shas : BeginRelease(p, s)
    \/ BeginGc(p)
    \/ Step(p)
    \/ Abort(p)

Spec == Init /\ [][Next]_vars

\* A process that is not killed runs its operation to the end; people go on
\* running nid, and the first run of every day sweeps.
Fairness ==
  \A p \in Procs : WF_vars(Step(p)) /\ SF_vars(BeginGc(p))

FairSpec == Spec /\ Fairness

-----------------------------------------------------------------------------
(* Properties.                                                             *)

\* The operations of different processes that may run at once.  The code
\* excludes nothing; people who run one nid at a time exclude everything.
PutsApart ==
  \A o \in {"release", "gc"} : <<"put", o>> \notin overlap /\ <<o, "put">> \notin overlap
PutsAlone == PutsApart /\ <<"put", "put">> \notin overlap

\* ref_count never undercounts: every row of sessions, profiles and samples
\* that names a blob is covered by a reference, so that no release and no
\* sweep takes the blob from under it (blob.rs put, release, gc_orphans).
RefsCovered == \A s \in Shas : Refs(s) <= refCount[s]

\* Puts may race with puts and releases with sweeps, and any operation may be
\* cut short, but as long as no put runs beside a release or a sweep of
\* another process RefsCovered holds.
RefsCoveredApart == PutsApart => RefsCovered

\* If puts run alone, whatever a session, profile or sample row names can be
\* read back in full (blob.rs get behind `nid show` and active profiles),
\* one interrupted operation included.
OwnedReadable ==
  (PutsAlone /\ aborts <= 1) => \A s \in Shas : Refs(s) > 0 => Readable(s)

\* If puts run alone and nothing is cut short, then between operations the
\* table, the files and the owners agree exactly: no leak, nothing dangling.
QuiescentExact ==
  (PutsAlone /\ aborts = 0 /\ \A p \in Procs : pc[p] = "idle") =>
    \A s \in Shas : /\ refCount[s] = Refs(s)
                    /\ s \in rows <=> Refs(s) > 0
                    /\ file[s] = IF s \in rows THEN "full" ELSE "none"
                    /\ tmp[s] = "none"

\* Under every interleaving a samples row names a blob that has its row: the
\* foreign key (001_initial.sql, db.rs foreign_keys ON) holds back the two
\* unconditional DELETEs of blob.rs.
SamplesKeepRow == \A s \in Shas : samples[s] > 0 => s \in rows

\* A row that an interrupted release left at zero does not stay forever: a
\* later sweep deletes it or a later put takes it over (gc::opportunistic).
ZeroRow(s) == s \in rows /\ refCount[s] = 0
ZeroRowsSwept == \A s \in Shas : (PutsApart /\ ZeroRow(s)) ~> ~ZeroRow(s)

=============================================================================
