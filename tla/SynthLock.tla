------------------------------ MODULE SynthLock ------------------------------
(***************************************************************************)
(* The advisory lock of auto-synthesis, crates/nid-cli/src/cmd/run.rs:     *)
(* SynthLock::try_acquire, its Drop, and a run's way to it and under it:   *)
(* the sample it captures, try_auto_synthesize, and what other commands    *)
(* do to the profile meanwhile, for one fingerprint without a bundled      *)
(* profile.  The queries do not fail; writes may.                          *)
(*                                                                         *)
(* The lock is a file made with O_CREAT|O_EXCL.  A file older than ten     *)
(* minutes counts as stale and is removed, by path, before the creation is *)
(* tried; Drop removes the path as well, whoever created it.               *)
(***************************************************************************)
EXTENDS Naturals

CONSTANTS
  Procs,        \* the nid processes that run the command
  NoProc,
  SlowHolders,  \* TRUE: a synthesis may outlast the ten minutes (a backend without timeout)
  SampleCap,    \* 64 in run.rs
  ToLock,       \* cfg.synthesis.samples_to_lock
  FastLock,     \* 3 in lockin.rs, when the samples are all the same
  MaxCrashes    \* bound: runs killed on the way, or ended by a write that failed

ASSUME ProcsAssumption  == NoProc \notin Procs
ASSUME SlowAssumption   == SlowHolders \in BOOLEAN
ASSUME BoundsAssumption == {SampleCap, ToLock, FastLock, MaxCrashes} \subseteq Nat

VARIABLES
  lock,      \* the lock file: who created it, and how old it is
  active,    \* the fingerprint has an active profile (ProfileRepo::active_for)
  samples,   \* how many samples are stored; none is ever removed
  pc,        \* where each process is in run and try_auto_synthesize
  crashes,   \* processes killed so far
  wentStale  \* history: some lock file has reached ten minutes

history == <<crashes, wentStale>>
vars == <<lock, active, samples, pc, crashes, wentStale>>

NoLock == [owner |-> NoProc, age |-> "none"]

Steps == {"count", "capture", "verdict", "look",
          "stat", "remove", "create", "recheck", "synthesize", "persist", "drop"}

TypeOK ==
  /\ lock \in [owner : Procs \cup {NoProc}, age : {"none", "fresh", "stale"}]
  /\ lock.age = "none" => lock = NoLock
  /\ active \in BOOLEAN
  /\ samples \in Nat
  /\ pc \in [Procs -> Steps \cup {"idle"}]
  /\ crashes \in Nat
  /\ wentStale \in BOOLEAN

Init ==
  /\ lock = NoLock
  /\ active = FALSE
  /\ samples = 0
  /\ pc = [p \in Procs |-> "idle"]
  /\ crashes = 0
  /\ wentStale = FALSE

Goto(p, step) == pc' = [pc EXCEPT ![p] = step]

\* The owner of the file is still running the code under the lock.
Holding(p) == pc[p] \in {"recheck", "synthesize", "persist", "drop"}
Abandoned  == lock # NoLock /\ ~ (lock.owner \in Procs /\ Holding(lock.owner))

-----------------------------------------------------------------------------
\* A run that finds no profile for the fingerprint, and its command.
Start(p) ==
  /\ pc[p] = "idle"
  /\ ~active
  /\ Goto(p, "count")
  /\ UNCHANGED <<lock, active, samples, history>>

\* count_for: with the samples full the run learns nothing.
CountSamples(p) ==
  /\ pc[p] = "count"
  /\ Goto(p, IF samples < SampleCap THEN "capture" ELSE "idle")
  /\ UNCHANGED <<lock, active, samples, history>>

\* put and insert: an insertion that fails is ignored.
Capture(p) ==
  /\ pc[p] = "capture"
  /\ samples' \in {samples, samples + 1}
  /\ Goto(p, "verdict")
  /\ UNCHANGED <<lock, active, history>>

\* should_lock_in on the samples read: enough, or few that are all the same.
LockIn(p) ==
  /\ pc[p] = "verdict"
  /\ \/ (samples >= ToLock \/ samples >= FastLock) /\ Goto(p, "look")
     \/ samples < ToLock /\ Goto(p, "idle")
  /\ UNCHANGED <<lock, active, samples, history>>

\* The first active_for.
Look(p) ==
  /\ pc[p] = "look"
  /\ Goto(p, IF active THEN "idle" ELSE "stat")
  /\ UNCHANGED <<lock, active, samples, history>>

\* Mutant of Stat: staleness is not looked at, a leftover file stays.
StatIgnored(p) ==
  /\ pc[p] = "stat"
  /\ Goto(p, "create")
  /\ UNCHANGED <<lock, active, samples, history>>

\* Mutant of Stat: any file is cleaned, however old it is.
StatEager(p) ==
  /\ pc[p] = "stat"
  /\ Goto(p, IF lock # NoLock THEN "remove" ELSE "create")
  /\ UNCHANGED <<lock, active, samples, history>>

\* metadata(&path): is there a file older than 600 seconds?
Stat(p) ==
  /\ pc[p] = "stat"
  /\ Goto(p, IF lock.age = "stale" THEN "remove" ELSE "create")
  /\ UNCHANGED <<lock, active, samples, history>>

\* remove_file(&path): whatever file is there by now.
Remove(p) ==
  /\ pc[p] = "remove"
  /\ lock' = NoLock
  /\ Goto(p, "create")
  /\ UNCHANGED <<active, samples, history>>

\* Mutant of Create: create(true) where create_new(true) is meant.
CreateAlways(p) ==
  /\ pc[p] = "create"
  /\ lock' = [owner |-> p, age |-> "fresh"]
  /\ Goto(p, "recheck")
  /\ UNCHANGED <<active, samples, history>>

\* create_new(true): the creation fails if the file exists, and the process
\* goes on without synthesis.
Create(p) ==
  /\ pc[p] = "create"
  /\ \/ /\ lock = NoLock
        /\ lock' = [owner |-> p, age |-> "fresh"]
        /\ Goto(p, "recheck")
     \/ /\ lock # NoLock
        /\ Goto(p, "idle")
        /\ UNCHANGED lock
  /\ UNCHANGED <<active, samples, history>>

\* Mutant of Recheck: the second active_for is left out.
RecheckSkipped(p) ==
  /\ pc[p] = "recheck"
  /\ Goto(p, "synthesize")
  /\ UNCHANGED <<lock, active, samples, history>>

\* The winner of an earlier race may have promoted a profile.
Recheck(p) ==
  /\ pc[p] = "recheck"
  /\ Goto(p, IF active THEN "drop" ELSE "synthesize")
  /\ UNCHANGED <<lock, active, samples, history>>

\* The structural diff, the refinement request and the self-test on every
\* sample: the candidate is kept, or the function returns.
Synthesize(p) ==
  /\ pc[p] = "synthesize"
  /\ \/ Goto(p, "persist")
     \/ Goto(p, "drop")
  /\ UNCHANGED <<lock, active, samples, history>>

\* insert_pending and promote (module Profiles has their steps); either may
\* return an error.  A profile that another command promoted meanwhile is
\* superseded.
Persist(p) ==
  /\ pc[p] = "persist"
  /\ active' \in {active, TRUE}
  /\ Goto(p, "drop")
  /\ UNCHANGED <<lock, samples, history>>

\* Drop removes the path.
Drop(p) ==
  /\ pc[p] = "drop"
  /\ lock' = NoLock
  /\ Goto(p, "idle")
  /\ UNCHANGED <<active, samples, history>>

\* The process is killed: Drop does not run.  Before the lock, put may as well
\* have failed, which ends the run.
Crash(p) ==
  /\ pc[p] # "idle"
  /\ crashes < MaxCrashes
  /\ crashes' = crashes + 1
  /\ Goto(p, "idle")
  /\ lock' = IF lock.owner = p THEN [lock EXCEPT !.owner = NoProc] ELSE lock
  /\ UNCHANGED <<active, samples, wentStale>>

-----------------------------------------------------------------------------
\* Ten minutes pass since the file was made.
Age ==
  /\ lock.age = "fresh"
  /\ Abandoned \/ SlowHolders
  /\ lock' = [lock EXCEPT !.age = "stale"]
  /\ wentStale' = TRUE
  /\ UNCHANGED <<active, samples, pc, crashes>>

\* `nid synthesize`, `nid profiles import` and `rollback` promote without the
\* lock; `revoke`, `purge` and a run that exceeds its budget take a profile away.
OtherCommand ==
  /\ active' = ~active
  /\ UNCHANGED <<lock, samples, pc, history>>

Step(p) ==
  \/ CountSamples(p) \/ Capture(p) \/ LockIn(p) \/ Look(p)
  \/ Stat(p) \/ Remove(p) \/ Create(p) \/ Recheck(p) \/ Synthesize(p)
  \/ Persist(p) \/ Drop(p)

Next ==
  \/ \E p \in Procs : Start(p) \/ Step(p) \/ Crash(p)
  \/ Age
  \/ OtherCommand

Spec == Init /\ [][Next]_vars

\* A process that is not killed goes on (every backend answer or timeout
\* arrives), and people go on running the command, which does not mean that a
\* run gets to the lock: it does so with a sample it has just captured only.
Fairness == \A p \in Procs : WF_vars(Step(p)) /\ WF_vars(Start(p))

FairSpec == Spec /\ Fairness

-----------------------------------------------------------------------------
(* Properties.                                                             *)

\* Two invocations never run synthesis for the same fingerprint at once
\* (the comment at run.rs:737), as long as no lock has gone stale: crashes
\* alone do not break the lock.
MutualExclusion == \A p, q \in Procs : Holding(p) /\ Holding(q) => p = q
MutualExclusionUnlessStale == ~wentStale => MutualExclusion

\* The holder finds its own file when it drops the guard: it never releases
\* the lock of another process.
DropsItsOwn ==
  ~wentStale => \A p \in Procs : Holding(p) => lock = [owner |-> p, age |-> "fresh"]

\* No profile, enough samples, room for one more, and no lock that holds.
Learnable ==
  /\ ~active
  /\ samples \in ToLock .. SampleCap - 1
  /\ lock = NoLock \/ lock.age = "stale"

\* A learnable fingerprint gets a synthesis from the next runs, whatever crashed
\* before: a lock that has gone stale does not prevent it ("ignored to prevent
\* permanent deadlock", run.rs:665).  Only a further crash may, which can take
\* the last sample with it; without room no run comes to the lock any more
\* (run.rs:216-224).
EventuallySynthesized ==
  \A c \in 0 .. MaxCrashes :
    Learnable /\ crashes = c ~> active \/ crashes > c \/ \E p \in Procs : pc[p] = "synthesize"

\* The processes that work on a profile, a crashed one not among them.
Learners == {p \in Procs : pc[p] \in {"synthesize", "persist"}}

Promise == INSTANCE SynthPromise
  WITH learners <- Learners, learned <- active, voided <- wentStale

\* The lock file keeps what auto-synthesis promises (M-R3, run.rs:737) until
\* some lock reaches ten minutes: one run at a time works on a profile, and none
\* begins while there is one, whatever other commands promote or take away.
KeepsPromise == Promise!Spec
=============================================================================
