------------------------------ MODULE Sessions ------------------------------
(***************************************************************************)
(* A run's bookkeeping at the end of `nid <cmd>`, run.rs, and the          *)
(* retention sweep: the rows of `sessions` and `fidelity_events`           *)
(* (session_repo.rs, fidelity_repo.rs), the references a session holds on  *)
(* its output blobs, and the status of the one profile whose runs these    *)
(* are.                                                                    *)
(*                                                                         *)
(* A run stores its outputs, records fidelity events under its session id, *)
(* judges the profile, and only then inserts the session row, which it     *)
(* completes with the blobs' names in a second statement.  Any later run,  *)
(* or `nid gc`, deletes the rows older than the retention period in one    *)
(* transaction and then releases their blobs one by one.                   *)
(***************************************************************************)
EXTENDS Naturals, FiniteSets, FiniteSetsExt

CONSTANTS
  Runs,       \* the runs, each a process of its own and a session id
  Gcs,        \* processes that run `nid gc`
  Sums,       \* what the weights of a run's bypass signals can add up to, in tenths
  Warmup,     \* fidelity.bypass_warmup_runs
  Threshold,  \* fidelity.bypass_threshold, in tenths
  Retentions, \* whether a command may outlast the retention period
  MaxAborts   \* bound: processes killed

Procs == Runs \cup Gcs

ASSUME ProcsAssumption     == Runs \cap Gcs = {} /\ IsFiniteSet(Runs)
ASSUME SumsAssumption      == Sums \subseteq Nat /\ Warmup \in Nat /\ Threshold \in Nat
ASSUME RetentionAssumption == Retentions \subseteq BOOLEAN
ASSUME AbortsAssumption    == MaxAborts \in Nat

VARIABLES
  row,      \* the sessions row of a run: none, inserted, or with its blobs' names
  refs,     \* references held in `blobs` for the outputs of a run
  events,   \* the runs that fidelity_events rows name as their session
  weight,   \* the bypass weight of a run, in tenths
  status,   \* the profile, as the resolver sees it
  expired,  \* the runs that started before the retention cutoff
  pc,       \* where each process is
  todo,     \* the sessions whose blobs a sweep has still to release
  aborts,   \* processes killed so far
  longRuns  \* a command may outlast the retention period

tables == <<row, refs, events, status>>
sweeps == <<expired, todo, aborts, longRuns>>
vars   == <<row, refs, events, weight, status, expired, pc, todo, aborts, longRuns>>

RunSteps   == {"record", "judge", "create", "finalize"}
SweepSteps == {"sweep", "release"}
Busy       == RunSteps \cup SweepSteps

TypeOK ==
  /\ row \in [Runs -> {"none", "open", "final"}]
  /\ refs \in [Runs -> 0 .. 1]
  /\ events \subseteq Runs
  /\ weight \in [Runs -> 0 .. 10]
  /\ status \in {"active", "quarantined"}
  /\ expired \subseteq Runs
  /\ pc \in [Procs -> Busy \cup {"idle", "done"}]
  /\ todo \in [Procs -> SUBSET Runs]
  /\ aborts \in Nat
  /\ longRuns \in Retentions

Init ==
  /\ row = [r \in Runs |-> "none"]
  /\ refs = [r \in Runs |-> 0]
  /\ events = {}
  /\ weight = [r \in Runs |-> 0]
  /\ status = "active"
  /\ expired = {}
  /\ pc = [p \in Procs |-> "idle"]
  /\ todo = [p \in Procs |-> {}]
  /\ aborts = 0
  /\ longRuns \in Retentions

Goto(p, step) == pc' = [pc EXCEPT ![p] = step]

\* A run ends; `nid gc` can be called again.
Leave(p) ==
  /\ Goto(p, IF p \in Runs THEN "done" ELSE "idle")
  /\ todo' = [todo EXCEPT ![p] = {}]

-----------------------------------------------------------------------------
(* nid <cmd>.                                                              *)

\* Mutant of Capped: several signals of one run add up without limit.
Uncapped(w) == w

\* min(1.0) of the signals of one session.
Capped(w) == IF w > 10 THEN 10 ELSE w

\* Mutant of Start: the session row is written first.
StartCreates(r) ==
  /\ pc[r] = "idle"
  /\ refs' = [refs EXCEPT ![r] = 1]
  /\ row' = [row EXCEPT ![r] = "open"]
  /\ \/ /\ status = "active"
        /\ \E w \in Sums : weight' = [weight EXCEPT ![r] = Capped(w)]
        /\ Goto(r, "record")
     \/ /\ status # "active"
        /\ Goto(r, "create")
        /\ UNCHANGED weight
  /\ UNCHANGED <<events, status, sweeps>>

\* Resolve the profile, look for bypass signals, run the command and put its
\* outputs.  Without a profile there is nothing to judge.
Start(r) ==
  /\ pc[r] = "idle"
  /\ refs' = [refs EXCEPT ![r] = 1]
  /\ \/ /\ status = "active"
        /\ \E w \in Sums : weight' = [weight EXCEPT ![r] = Capped(w)]
        /\ Goto(r, "record")
     \/ /\ status # "active"
        /\ Goto(r, "create")
        /\ UNCHANGED weight
  /\ UNCHANGED <<row, events, status, sweeps>>

\* fidelity_events.session_id REFERENCES sessions(id): each record() of a
\* session that has no row fails, and its error is dropped.
Record(r) ==
  /\ pc[r] = "record"
  /\ events' = IF row[r] # "none" THEN events \cup {r} ELSE events
  /\ Goto(r, "judge")
  /\ UNCHANGED <<row, refs, weight, status, sweeps>>

\* distinct_sessions_for and rolling_bypass_score, over fewer sessions than
\* the window of 100 holds: more sessions than the warm-up, and an average
\* weight above the threshold.
Gamed(sessions) ==
  /\ Cardinality(sessions) > Warmup
  /\ MapThenSumSet(LAMBDA r : weight[r], sessions) > Threshold * Cardinality(sessions)

\* The profile is quarantined if its DSL ran out of budget, or for its score.
Judge(r) ==
  /\ pc[r] = "judge"
  /\ \E overBudget \in BOOLEAN :
       status' = IF overBudget \/ Gamed(events) THEN "quarantined" ELSE status
  /\ Goto(r, "create")
  /\ UNCHANGED <<row, refs, events, weight, sweeps>>

\* SessionRepo::create, without the names of the blobs.
Create(r) ==
  /\ pc[r] = "create"
  /\ row' = [row EXCEPT ![r] = "open"]
  /\ Goto(r, "finalize")
  /\ UNCHANGED <<refs, events, weight, status, sweeps>>

\* SessionRepo::finalize: an UPDATE, which finds no row if a sweep took it.
Finalize(r) ==
  /\ pc[r] = "finalize"
  /\ row' = [row EXCEPT ![r] = IF @ = "none" THEN @ ELSE "final"]
  /\ Goto(r, "sweep")
  /\ UNCHANGED <<refs, events, weight, status, sweeps>>

-----------------------------------------------------------------------------
(* Retention: the end of a run, and nid gc.                                *)

\* Another run has swept today (.last_retention_day).
SkipSweep(r) ==
  /\ pc[r] = "sweep"
  /\ Leave(r)
  /\ UNCHANGED <<tables, weight, expired, aborts, longRuns>>

BeginGc(g) ==
  /\ pc[g] = "idle"
  /\ Goto(g, "sweep")
  /\ UNCHANGED <<tables, weight, sweeps>>

Present(old) == {r \in old : row[r] # "none"}

\* The DELETE is undone, for all rows, if an event still names one of them.
Purged(old) == IF Present(old) \cap events = {} THEN Present(old) ELSE {}

\* Mutant of Sweep: the rows are listed and stay.
SweepKeepsRows(p) ==
  /\ pc[p] = "sweep"
  /\ \E old \in SUBSET expired :
       todo' = [todo EXCEPT ![p] = {r \in Purged(old) : row[r] = "final"}]
  /\ Goto(p, "release")
  /\ UNCHANGED <<tables, weight, expired, aborts, longRuns>>

\* purge_older_than, for the retention of the configuration or of the command
\* line: one transaction.
Sweep(p) ==
  /\ pc[p] = "sweep"
  /\ \E old \in SUBSET expired :
       /\ row' = [r \in Runs |-> IF r \in Purged(old) THEN "none" ELSE row[r]]
       /\ todo' = [todo EXCEPT ![p] = {r \in Purged(old) : row[r] = "final"}]
  /\ Goto(p, "release")
  /\ UNCHANGED <<refs, events, weight, status, expired, aborts, longRuns>>

\* Mutant of Release: a cap on the blobs released in one sweep.
ReleaseCapped(p) ==
  /\ pc[p] = "release"
  /\ \E r \in todo[p] : refs' = [refs EXCEPT ![r] = 0]
  /\ Leave(p)
  /\ UNCHANGED <<row, events, weight, status, expired, aborts, longRuns>>

Release(p) ==
  /\ pc[p] = "release"
  /\ \E r \in todo[p] :
       /\ refs' = [refs EXCEPT ![r] = IF @ > 0 THEN @ - 1 ELSE @]
       /\ todo' = [todo EXCEPT ![p] = @ \ {r}]
  /\ UNCHANGED <<row, events, weight, status, pc, expired, aborts, longRuns>>

EndSweep(p) ==
  /\ pc[p] = "release"
  /\ todo[p] = {}
  /\ Leave(p)
  /\ UNCHANGED <<tables, weight, expired, aborts, longRuns>>

-----------------------------------------------------------------------------
\* Time passes: the start of a run falls behind the cutoff.  started_at is
\* taken before the command is spawned.
Expire(r) ==
  /\ r \notin expired
  /\ \/ pc[r] = "done"
     \/ longRuns /\ pc[r] # "idle"
  /\ expired' = expired \cup {r}
  /\ UNCHANGED <<tables, weight, pc, todo, aborts, longRuns>>

\* The process is killed, or a statement other than record() or set_status
\* returns an error; the references it holds are not given back.
Abort(p) ==
  /\ pc[p] \in Busy
  /\ aborts < MaxAborts
  /\ aborts' = aborts + 1
  /\ Leave(p)
  /\ UNCHANGED <<tables, weight, expired, longRuns>>

Next ==
  \/ \E r \in Runs :
       \/ Start(r) \/ Record(r) \/ Judge(r) \/ Create(r) \/ Finalize(r)
       \/ SkipSweep(r) \/ Expire(r)
  \/ \E g \in Gcs : BeginGc(g)
  \/ \E p \in Procs : Sweep(p) \/ Release(p) \/ EndSweep(p) \/ Abort(p)

Spec == Init /\ [][Next]_vars

-----------------------------------------------------------------------------
(* Properties.                                                             *)

\* Who is answerable for the references of run r: the run until it has
\* finalized its session, then the row, then one sweep.
Owners(r) ==
  {p \in Procs : r \in todo[p]} \cup {s \in {r} : row[s] = "final" \/ pc[s] \in RunSteps}

\* References are released once: they have one owner at a time, however many
\* sweeps run at once (purge_older_than reads and deletes the rows in one
\* transaction), and while they have one they are held.
OneOwner ==
  \A r \in Runs :
    /\ \A p, q \in Owners(r) : p = q
    /\ Owners(r) # {} => refs[r] = 1

\* No reference is left behind: unless a process was killed, or a command
\* outlasted the retention period, the outputs that are still stored once all
\* processes are through are those of the session rows (run.rs:649-652).
OutputsOwned ==
  (~longRuns /\ aborts = 0 /\ \A p \in Procs : pc[p] \in {"idle", "done"}) =>
    \A r \in Runs : /\ row[r] # "open"
                    /\ refs[r] = 1 <=> row[r] = "final"

\* The retention sweep is never undone by the foreign key of
\* fidelity_events.session_id (001_initial.sql:86), which has no ON DELETE:
\* no event names a session that it may have to delete.
RetentionNeverBlocked == \A r \in expired : row[r] # "none" => r \notin events

\* "`fidelity_events` `bypass_signal` rows feed a rolling-window score;
\* profiles exceeding threshold get quarantined" (CHANGELOG.md): once more
\* runs than the warm-up have been through, each above the threshold and none
\* killed or swept, the profile is quarantined.
GamedQuarantined ==
  LET judged == {r \in Runs : row[r] = "final" /\ weight[r] > 0}
  IN  (aborts = 0 /\ expired = {} /\ (\A p \in Procs : pc[p] \in {"idle", "done"})
         /\ Gamed(judged)) => status = "quarantined"

=============================================================================
