# A verification project for nid

nid wraps shell commands that coding agents run, compresses their output with
small declarative profiles, and learns a profile for a command once it has seen
enough of its output.  There is no daemon: every `nid <cmd>` is a process of its
own, several of them run at once (agents fire hooks in parallel), and all share
one SQLite database, one directory of blob files and a few marker and lock
files.  Nothing but SQLite's statement and transaction atomicity and the file
system keeps them apart.  That is where the hard behaviour is, and what the
modules in this directory are about.

Paths below are relative to the repository: `run.rs`, `gc.rs`, `profiles.rs`,
`synthesize.rs` are in `crates/nid-cli/src/cmd/`, the `*_repo.rs`, `blob.rs`,
`db.rs` and `sql/001_initial.sql` in `crates/nid-storage/src/`.

## Inventory

| Part | State it keeps | Operations | Hard behaviour | What makes it correct |
|---|---|---|---|---|
| Blob store (`blob.rs`) | `blobs` rows with `ref_count`; one file per content; a shared `.tmp` path | `put`, `get`, `release`, `gc_orphans` | every SQL statement and file call of several processes interleaves; crash or error at any of them | every owner is counted; what is owned can be read; nothing leaks |
| Auto-synthesis lock (`run.rs` `SynthLock`) | a lock file per fingerprint | `try_acquire`, `Drop` | stale locks, slow holders, crashes, commands that promote without the lock | one run at a time learns, and begins only without a profile; a lock left behind does not prevent learning |
| Profile life cycle (`profile_repo.rs`, `profiles.rs`, `synthesize.rs`, `run.rs`) | `profiles` rows: fingerprint, version, status | `insert_pending`, `promote`, `set_status`, `rollback`, `purge`; commands import, rollback, revoke, purge, synthesize, auto-synthesis | ids held across statements, rowids used again, foreign keys, two-commit installation | one active row per fingerprint; quarantine is final; rows have their blob; a lock-in gives a profile |
| Run bookkeeping (`run.rs`, `session_repo.rs`, `fidelity_repo.rs`) | `sessions`, `fidelity_events` | record, judge, create, finalize, gain rollup, exit skew | order of foreign keys; concurrent sweeps; long commands | references of outputs have one owner; bypassed profiles are quarantined |
| Retention and GC (`run.rs`, `gc.rs`) | day markers | `purge_older_than`, releases, `gc_orphans` | concurrent sweeps, crash after the commit | released once; never blocked |
| Database (`db.rs`, migrations) | schema version | open, migrate | first runs at once, busy time-outs | constraints on at all times |
| DSL (`nid-dsl`) | none | rules, budget, validator, invariants, `.nidprofile` | step budget, line and section edges | a budget abort is reported; invariants mean what they say |
| Synthesis (`nid-synthesis`, `nid-dsl/src/diff.rs`) | none | lock-in policy, structural diff, refinement | slow or absent backend | the candidate passes validation and self-test |
| Capture (`run.rs`) | none | `spawn_and_capture`, `read_capped`, the SIGTERM trap | full pipes, two streams, the cap, signals, processes left behind | never stuck; nothing missing without a mark |
| Fingerprint (`fingerprint.rs`) | none | `canonicalize_argv`, `fingerprint` | the look-ahead for a flag's value | equal exactly for commands of one shape |
| Sealed raw output (`sealed.rs`, `show.rs`) | `key`, `key.keytmp` | load or create the key, seal, open | first runs at once, a lost key, kills | no raw output is orphaned by a new key |
| Onboarding (`installer.rs`, `onboard.rs`) | the agents' config files, `onboard.backup.json`, `agent_registry` | plan, apply, uninstall, purge; doctor's check | repeated onboarding, failure between files, edits meanwhile | every hook has its original; uninstall restores it |
| Hook (`hook.rs`, `rewrite.rs`, `shadow.rs`) | `shadow.state`, passthrough patterns | rewrite, enable, disable, commit | repeated passes, the switch turned meanwhile | the command is what was asked, in a mode that was asked |
| Trust (`trust_repo.rs`, `nidprofile.rs`, `trust.rs`) | `trust_keys` | add, revoke, export, verify, import | revocation during an import | only unaltered bundles of trusted signers are stored |
| Update (`update.rs`, `signing.rs`) | the binary, `nid.new`, `nid.old` | verify, walk the rotation chain, swap | two updates, a kill between renames | a trusted, whole binary at every moment |
| Layers, redaction | none | compress, redact | what layer 1 removes before a profile sees it | (in Pipeline) |

How they interact.  A run resolves the profile (Profiles), spawns the command,
puts its outputs and perhaps a sample (BlobStore), may learn a profile
(SynthLock around Profiles and BlobStore), records events, inserts and finalizes
its session and sweeps old ones (Sessions), whose outputs it releases
(BlobStore).  Before that the agent's hook has put `nid` in front of the command
(HookRewrite, installed by Onboard), the fingerprint has chosen its rows
(Fingerprint), its output was read (Capture) and the raw of it is sealed
(SealedKey).  `nid gc`, `nid synthesize` and `nid profiles ...` are other
processes over the same tables.  `PROJECT.json` lists all parts under
`components` and every hazard, with its line, under `hazards`.

## Modules

| Module | Models | State and its counterpart |
|---|---|---|
| `BlobStore` | `blob.rs` | `rows`, `refCount`: table `blobs`; `file`, `tmp`: the two paths of a content, each absent, torn or full; `fd`: where an open file is linked by now; `holders`, `samples`: rows of other tables that name the content, without and with a foreign key; `pc`, `call`: an operation in progress |
| `SynthLock` | `SynthLock`, `try_auto_synthesize` and a run's way there | `lock`: the file, its creator and age; `active`: the result of `active_for`; `samples`: the result of `count_for`; `wentStale`: history |
| `Profiles` | `profile_repo.rs` and its callers | `profile`: the table by rowid; `dslRefs`: `ref_count` of the DSL blobs; `sessions`, `skewed`: the rows whose foreign keys hold a profile; `cmd`: the ids a command keeps in locals |
| `Sessions` | the end of a run, `session_repo.rs`, `fidelity_repo.rs`, the sweeps | `row`: no row, inserted, finalized; `refs`: references on a session's outputs; `events`: sessions named by `fidelity_events`; `expired`: runs behind the cutoff; `todo`: what a sweep has to release |
| `Dsl` | `nid-dsl`: rules, budget, validator, invariant checks | operators on sequences of lines, no state |
| `Pipeline` | what a run does to the output (`run.rs`, `synthesize.rs`, `diff.rs`, `lockin.rs`, `orchestrator.rs`, layers 1 and 2) | `samples`: the table as a bag; `profile`: the active one with its rules; `taken`: versions in use; `trained`, `last`: history, the run in progress |
| `SynthPromise` | what auto-synthesis promises, without the lock file; `SynthLock` implements it | `learners`: who is at work; `learned`: there is an active profile; `voided`: the promise does not bind any more, mapped to a lock that went stale |
| `ProfilePromise` | what the `profiles` table promises to whoever dispatches by it, without rowids, commands and their locals; `Profiles` implements it | `rows`: which versions there are, in which status; `apart`: whether purges overlap nothing |
| `Capture` | `spawn_and_capture`, `read_capped`, the SIGTERM trap | `script`, `wrote`, `command`, `heir`: the command and what it leaves behind; `pipe`; `reader`, `buf`, `cut`, `waited`: the futures; `capture`: the result |
| `Fingerprint` | `nid-core/src/fingerprint.rs` | `argv`, `other`: two commands to compare |
| `SealedKey` | `sealed.rs`, and its use by `run` and `show` | `keyFile`, `keyTmp`: the two paths; `open`: where a file being written is linked by now; `raw`: the key of each blob; `hand`: the key in a process's memory |
| `Onboard` | `installer.rs`, `onboard.rs` of both crates, doctor's check of the hooks | `config`, `backup`, `registry`: the files and the table; `job`: the command under way, `left` the agents it has still to do, of whom an onboarding takes `Due` next; `installed`, `pristine`, `mishaps`: history |
| `HookRewrite` | `rewrite.rs`, `agents.rs`, `hook.rs`, `shadow.rs` | `cmd`: the command so far; `loaded`: the patterns read; `mode`: how it ran; `seen`: history of the switch |
| `Update` | `update.rs`, `RotationChain::resolve` | `exe`, `newFile`, `oldFile`, `stray`: the paths, each a release, torn or absent; `handle`: where a file being written is linked by now |
| `Trust` | `trust_repo.rs`, `nidprofile.rs`, import and export | `trustKeys`: the table; `bundle`, `known`, `flags`: an import's locals; `rowOf`: the profile rows; `since`: history |
| `MCInstall` | puts the last seven side by side | `focus`: the part that moves |
| other `MC*` | values for TLC | |
| `SynthLockProofs`, `SessionsProofs`, `ProfilesProofs` | theorems about the module of that name | |
| `BlobStoreProofs` | theorems about `BlobStore`; its second part is about puts that run alone | |
| `PipelineProofs` | theorems about `Pipeline`, from lemmas about the rules of `Dsl` | |
| `SigningProofs` | theorems about `SealedKey`, `Trust` and `Update` | |
| `InstallProofs` | theorems about `Onboard`, `HookRewrite`, `Capture` and `Fingerprint`, and about all seven parts side by side (`MCInstall`) | |
| `SetInduction` | induction over the natural numbers for a set in place of a predicate | |

Except in `Pipeline`, whose runs come one after the other, and in `Fingerprint`,
which only enumerates commands, every action is one SQL statement that commits
by itself, one transaction, one file system call or one poll of a future, so TLC
and the proofs see all interleavings the code has.
Statements inside a committed transaction (`promote`, `rollback`,
`purge_older_than`) are one action.  Two reads that no write of the same process
separates are merged where the later one decides.  `Abort` (`Crash`) stands for a
killed process as well as for a statement that returns an error: the locals go,
what was committed stays.

A mutant is an operator beside the definition it could replace
(`PutBumpUncounted` beside `PutBump`); `PROJECT.json` says which property each
one breaks.

### What each module leaves out

* `BlobStore`: contents are model values; hash collisions and bit rot do not
  happen.  Retention of `samples` does not exist in the code, so no action
  removes a sample.
* `SynthLock`: one fingerprint (locks of different ones are different files, up
  to a 64-bit hash), without a bundled profile.  A run goes to the lock only with
  a sample it has just captured, so not once `SampleCap` of them are stored; whether
  enough of them are alike is a choice.  The synthesis is a choice between a candidate and none.
  What other commands do (`nid synthesize`, `profiles import` and `rollback`,
  which promote without the lock; `revoke`, `purge`, the quarantine of a run) is one action that
  gives the fingerprint a profile or takes it away, at any moment.
  The clock is monotone; ten minutes pass for a lock whose holder is alive only
  if `SlowHolders`.
* `Profiles`: runs are not held off by the lock, so it allows more than the code
  does (and as much as it does once a lock is stale).  A DSL blob is named by
  fingerprint and version, contents that share both are one blob.  `created_at` counts seconds, so rollback
  takes any superseded row.  A run with a bundled profile is a run with id 0.
* `Sessions`: one profile; the two outputs of a run are one reference; weights
  are tenths; a window of 100 sessions is never full.  The once-a-day marker is a
  nondeterministic skip.  `nid gc` may use any cutoff.

* `Dsl`: a pattern is the set of lines it matches, a line being a text, coloured or not,
  and the carriage returns at its end; a carriage return with only escape sequences behind
  it does not occur.  Every line
  weighs one byte, one placeholder template.  Which texts are a JSON document, which
  paths it has, and what the two JSON path rules print it as are constants (`Json`,
  `Pretty`).  The check `json_path_exists` and the syntax of regular expressions and paths are left
  out.  `slow` lets the clock run out at the first reading, which covers
  every later moment, as an abort always leaves the same empty list.
* `Pipeline`: one fingerprint, one run at a time (the other modules have the
  interleavings).  What a backend answers is any profile of `Refinements`.  Which
  anchors survive the cap of 20, and whether an output looks like a log, are
  choices.  Redaction, shadow mode and bypass signals are left out.
* `Capture`: a stream's bytes are its numbers; decoding (`from_utf8_lossy`) and the
  shell's reading of `argv.join(" ")` are left out.  I/O errors on a pipe are not
  modelled.
* `Fingerprint`: which regular expression a value matches is part of the value; the
  texts of the canonical forms do not occur in commands.
* `SealedKey`: a cipher text is the key it was sealed with.  The key of another
  machine, and a key file the user fills by hand, do not occur.
* `Onboard`: one onboard command at a time.  A configuration is the user's text,
  the hooks in it and whose bytes it has.  Which agents are installed is
  `--agents`; `--purge` deletes both directories in one step.  An onboarding takes the
  agents in the order of detection, an uninstall in any (the code: by name).
* `HookRewrite`: "nid --shadow" is one word; blanks in front of a command and
  quoting are left out.  A payload that does not parse gets no answer.
* `Update`: downloading and archives are left out, a release is what the checks can
  tell of it.  The mode of a file is not part of it.  The code compares neither
  version nor target of a release with its own, and neither does the model.
* `Trust`: a key id stands for its key, so no two keys share one.  The DSL blob of an
  import is in `BlobStore`, the life of its row after promotion in `Profiles`.

## Runs

Passing runs:

| Run | Bounds | Why they are enough |
|---|---|---|
| `blob_store` | 2 processes, 1 content, 2 references, 2 interruptions, three disciplines | contents do not interact in the code; every race found needs two processes; the second owner distinguishes counting from presence |
| `synth_lock` | 3 processes, 2 crashes, slow holders; a cap of 3 samples, lock-in at 2, or 1 when alike | the takeover needs a leftover lock and two processes that both saw it; with 3 samples there are runs before, at and beyond lock-in, and a last one that fills the cap |
| `profiles` | 2 processes, 2 fingerprints, 2 versions, 2 row ids, 1 reference, 1 abort | two ids suffice for an old and a new row of a fingerprint and for the reuse of a rowid by another one |
| `sessions` | 3 runs, 1 `nid gc`, 1 abort | two concurrent sweeps over the session of a third run |
| `pipeline` | 7 outputs of up to 4 lines; about 55 refinements of one or two rules from a menu of 16; lock-in at 4 samples or 3 alike; 12 steps, size 4, 3 anchors, floor 3 | the outputs have an error, an exit line, progress, adjacent and open sections, colours, a blank, lines with one and two carriage returns and a JSON document; each limit is kept by some outputs and exceeded by others |
| `install` | per part: commands of up to 3 tokens from 9, in pairs; 5 scripts on pipes of 2 with caps 0, 2, 5, 6; 2 processes, 2 keys, 2 sessions, 1 kill; one JSON and one YAML agent, 4 moves; 3 passes, 3 turns of the switch, 10 commands; 2 updates, 4 releases, 3 keys, 1 kill; 2 imports, 2 signers, 4 bundles, 2 rows, no import once both are taken; the YAML file absent or blank at first, overlapping updates on an anchored build | a token needs a neighbour before and behind it; a stream must fill its pipe and stay under the cap, reach it exactly and go beyond; races over key, binary and keyring need two processes; onboard, uninstall, an edit and a kill are four moves |
| `install_again` | one JSON agent | two onboardings and an uninstall suffice |

`install` explores seven modules that share no state in one run: `focus`, chosen
in Init, names the part that moves and the others keep one initial state each.
Its states are the sum of the parts' states and not their product, and a property
of a part is checked on exactly the behaviours of that part.

The type invariants of `BlobStore`, `Profiles` and `SynthLock` are not repeated
in the runs: they are theorems.
`Pipeline`, `Sessions` and the parts of `install` check theirs; those of `Sessions`
and of each part of `install` are theorems as well.

`blob_store` asks which promise survives which overlap.  The code excludes
nothing, so the strongest promises fail (below); `overlap` is a constant of a
behaviour, chosen in Init from three disciplines, and each property says which
one it needs: `RefsCoveredApart` when no put overlaps a release or a sweep,
`OwnedReadable` and `QuiescentExact` when puts run alone, `SamplesKeepRow` and
the type invariant (a theorem) always.  The same device in `Profiles` (`usage.purgeAlone`)
and `Sessions` (`longRuns`) marks the conditions under which held ids stay
valid and no reference is orphaned.

* `synth_lock`: until a lock goes stale, whatever crashes, it is exclusive, its holder
  releases its own file only, and all it does is a behaviour of `SynthPromise`
  (`KeepsPromise`, a refinement: `learners` is mapped to the processes between the
  second look and the promotion, `learned` to the active profile): one run at a time
  works on a profile, and it begins only while there is none.  The promise says nothing of
  what becomes of the work: other commands promote without the lock, also while a run
  synthesizes, and the later promotion supersedes the earlier.  Whatever goes stale, a fingerprint
  with enough samples, room for one more and no lock but a stale one gets to a
  synthesis (`EventuallySynthesized`), unless a further run is killed.  Without room it need
  not (see the disagreements below).
* `profiles`: one active row per fingerprint; ids, sessions and DSL references stay
  right while purges run apart; only an aborted command leaves a pending row.  The
  table without its rowids is a behaviour of `ProfilePromise` (`RowsKeepPromise`, a
  refinement): while purges run apart only a pending or superseded version comes into
  use, and there is no way out of quarantine but a purge.  `QuarantineSticks`, which
  says the last for each rowid, is a theorem and no run repeats it.
* `sessions`: each reference has exactly one owner, through overlapping sweeps;
  no leak without a crash or a very long command; the foreign key of
  `fidelity_events` never undoes a sweep.  The last one holds because of the
  disagreement shown by `sessions_bypass`: repairing that order without an
  `ON DELETE` breaks it, which is its mutant (`StartCreates`).

* `pipeline`: whatever rules but the two JSON path rules a profile composes, verbatim
  lines are input lines in their order, up to colours and carriage returns
  (`NeverRewritten`); a budget abort loses nothing; collapse placeholders account for
  every line; and the baseline, tested on raw samples but used on what layer 1 leaves of them,
  passes its invariants and stays within budget on what it was trained on, if no line of
  that output ends with a carriage return.  The
  last two are about the baseline: a backend's profile may match colours or
  duplicates that layer 1 removes.  Each of the three conditions is needed: the run's outputs
  and profiles violate the property without it.

* `install`:
  * fingerprints of two commands agree exactly if stem, flags and the kept or
    collapsed values agree token by token (`FingerprintApart`);
  * the capture never waits for a command that waits for it (`NeverStuck`), and
    what it returns is all there was or exactly its half of the cap, marked
    (`CaptureTrue`);
  * if first uses come one after another no raw blob ever loses its key, whatever
    is killed, removed and purged (`SealedOpens`); if they overlap, a torn key
    file has a writer or a kill behind it (`TornExplained`).  They may well
    orphan each other's output then, which is why `oneByOne` is a condition;
  * every hooked file has an original in the backup, unless an onboarding was cut
    short (files come before the backup), covered fewer agents than the last, or
    the backup was purged (`HookedCovered`); one onboarding and an uninstall, cut
    short and repeated, leave what the user wrote (`RoundTrip`); doctor's OK means
    a hook (`DoctorAgrees`).  `mishaps` records what voids a promise: a second
    onboarding, a partial one, an abort, an edit since the onboarding, a write of
    another hand while it ran, a purge after one of these, an uninstall from a
    backup that is out of date;
  * the hook alters a command by its prefix and its escapes only, however often it
    sees it (`HookFaithful`), and no command runs in a mode nobody asked for
    (`ShadowHonoured`);
  * whatever an update leaves at a path was verified, on an anchored build back to
    the anchor (`InstalledTrusted`), and there is always a binary to run if updates
    do not overlap (`BinaryWhole`);
  * an import stores only unaltered bundles whose signer was active while it ran,
    or that the user accepted (`RevokedStaysOut`).

Runs that end in a violation, each a disagreement between the code and what the
repository says about it:

* `blob_store_race`: `put` counts a reference on a row that a release deletes
  between its SELECT and its UPDATE.
* `synth_lock_stale`: two processes clean one stale lock, the second removes the
  fresh lock of the first, both synthesize.
* `profiles_relearn`: a quarantined 1.0.0 row makes every later lock-in of the
  fingerprint fail on `UNIQUE (fingerprint, version)`.  This is the case without a backend;
  a backend may return another version, which `profiles` allows.
* `sessions_bypass`: events are recorded before the session row exists, the
  foreign key rejects them, and the bypass quarantine never fires.

* `pipeline_errors`: a baseline learned from successful runs keeps only their
  common lines, so the first error the command prints is not shown.  The failed
  invariant is noted, the output is printed without the line.

* `install_again`: a second onboarding reads files that have the hook already into
  the backup and replaces the first one; uninstall then restores hooked files
  (README.md:481 promises the originals).

Disagreements without a run of their own, each the reason for a condition in a
property above:

* README.md:61 says that lines are never rewritten.  `json_path_keep` and
  `json_path_drop` (interpreter.rs:209-253) print the document anew, as verbatim lines
  the command never printed.  `NeverRewritten` is about profiles without them.
* run.rs:665 has stale locks ignored "to prevent permanent deadlock".  A run comes to the lock only
  after it has captured a sample, of which 64 are kept and none is removed
  (run.rs:216-225).  If a run is killed under the lock and the 64th sample is stored
  within ten minutes, no run looks at the lock again, and only `nid synthesize` or an
  import gives the fingerprint a profile.  `Learnable` therefore asks for room.
* The self-test keeps carriage returns (interpreter.rs:73-78), and in use layer 1
  strips them before the profile sees a line (layer1.rs:85-87).  A baseline learned from CRLF output
  may pass the self-test and then fail its invariants on the same output, when a line ends in
  two carriage returns or more, or exceed its budget there, when its anchors match in use
  only and more lines go on to the rules behind them; README.md:848 says profiles that
  abort on their own training samples are rejected before promotion.  `TrainedPasses` and
  `TrainedWithinBudget` therefore ask for an output without them.

Other things met while modelling, which no run states:

* `sealed.rs:117` takes any blob for a sealed one.  Blobs of a run whose raw output is
  not kept, or of an import, make the first sealed run refuse to draw a key, after
  the command has run, and its output is lost with the error.  Likewise any
  storage error after the command hides output and exit code
  (docs/v1-architecture.md:393 says the exit code is never masked).
* `nid show` reads the blob and then the key; if a purge empties the store in
  between and the key is gone, `show` draws a new one.
* Two passes through the hook undo the escape: `NID_RAW=1 x` becomes `x`, then
  `nid x`.  README.md:702 says that `nid nid x` collapses; the code leaves it.
* docs/v1-architecture.md:518 has a revocation cascade to imported profiles,
  README.md:529 keeps them; the code keeps them.  `nid profiles pin` and `sign` are
  stubs.
* nid waits for a process the command left in the background as long as that holds
  the pipes; `NeverStuck` exempts it.  A SIGTERM to nid alone ends neither nid nor
  the command (docs/v1-architecture.md:166 says it exits cleanly).  The trap is a
  task of the same thread, so a signal may come without the marker.
* A negative number is a flag to the fingerprint, and `--oneline`, which takes no
  value, keeps the token behind it literally; values kept with blanks in them run
  together with their neighbours (`FingerprintApart` exempts these).
* After an update Linux calls the running executable "nid (deleted)"; a second
  update begun before writes a file of that name (`stray`).
* Several runs at once may store more than 64 samples; a crash right after the day's
  marker skips that day's sweep; anchors taken from coloured lines do not match
  what `strip_ansi` leaves.

### Fairness

`SynthLock`: weak fairness of each process's own steps (a process that is not
killed goes on: HTTP backends have time-outs, a subprocess ends) and of
starting runs (the command goes on being used).  Starting a run is not reaching the lock:
that takes a sample captured while there was room, and enough of them.  Time need not pass; a lock
that holds is no case of `Learnable`.
`BlobStore`: weak fairness of a running operation's steps and strong fairness of
starting a sweep, since the first run of each day starts one
(`gc::opportunistic`), however often other operations get in between.  `Profiles`,
`Sessions`, `Pipeline` and the parts of `install` claim no liveness and assume no
fairness; `NeverStuck` says that a step is always enabled (and `CaptureGoesOn`
proves it).

## Theorems

All for any finite or infinite sets the assumptions allow and any bounds.  Every
safety property of the passing runs is a theorem, except for `NeverStuck`, which says
`ENABLED` (below).

* `SynthLockProofs`: type correctness, `MutualExclusionUnlessStale`,
  `DropsItsOwn`, `KeepsPromise`.  Mutual exclusion is not inductive: a process
  about to create must know that a holder's file is there.  The invariant adds
  that without a stale lock nobody is about to remove a file, and that every
  holder finds its own fresh file (`DropsItsOwn`), from which exclusion follows.  `LockKeepsPromise` maps
  initial states to initial states of `SynthPromise` and each step to one of its steps or a stutter; `Recheck`
  is a `Begin` because the invariant leaves no other holder, and because it is the second look itself
  that sees no profile; that there is none later under the lock is neither true nor claimed, since
  `OtherCommand` (an `Elsewhere`) may promote at any moment.
* `BlobStoreProofs`: type correctness; `SamplesKeepRow`, under every interleaving;
  `RefsCoveredApart`.  `Refs(s) <= refCount[s]` alone is not
  inductive, since a put in flight holds a reference its caller has not recorded
  and a release one its caller has already dropped.  The invariant says that the
  count covers the owners plus the operations in flight (a cardinality), that
  no row means no count, that a put about to bump finds its row, and
  that rows about to be deleted are at zero; each needs that puts keep apart from
  releases and sweeps.  Finite-set cardinality facts come from
  `FiniteSetTheorems`; hence `ProcsAssumption`.
* `BlobStoreProofs`, second part: `OwnedReadable` and `QuiescentExact`, both about puts that overlap
  nothing.  The invariant adds what a put and a removal know of the content they
  are at work on, that a row at zero has a release on its way to it
  (`ZeroReleased`), and that a row whose file is gone is at zero and somebody is
  about to delete it (`FilesKept`).  One interruption uses up one of the two
  explanations `FilesKept` allows, so the bound of `OwnedReadable` is exact.  As long as
  nothing is cut short, counts are not above their owners either, and each file without a
  row, final or temporary, belongs to an operation (`Exact`).
* `ProfilesProofs`: type correctness; `AtMostOneActive`, inductive together with it,
  from the fact that `Activate` moves the old active row in the same step.  While no
  purge overlaps anything (`PurgeApart`), rows come and change status but never go
  under another command: hence `HeldIdValid` and `SessionsMatch` from the fingerprints
  of the rows held; and `QuarantineSticks`, an action property, because what an
  installation is about to promote is pending and nobody else's (`PendingApart`).
  `RowsKeepPromiseHolds` is the refinement: each statement is one step of
  `ProfilePromise` on the rows without their ids, or a stutter.  That a version has one
  row (`OneRow`, from `UNIQUE`) makes the step change that row alone, and
  `PendingApart` gives the guards on `Use` and `Quarantine`; a purge of a row already gone
  and a status set again change nothing.
  `PendingOnlyAfterAbort`
  is strengthened to: each pending row is in the hands of an installation, until the first
  abort (`PendingHeld`).  `DslCounted` needs besides that an installation about to insert its row
  has its reference, and that a purge releases one no other row has (`DslHeld`).
* `SessionsProofs`: type correctness; `OneOwner`; `OutputsOwned`, from an owner for
  every reference (the run before it finalizes, the row, a sweep after
  its transaction); `RetentionNeverBlocked` and
  `ScoreNeverQuarantines`, which both follow from `events = {}`: the order of
  the run's statements makes every recorded event fail.
* `SigningProofs`: type correctness of its three components.  `SealedOpens`,
  `TornExplained`: where first uses come
  one by one, the invariant says that without a key file at most one process is
  under way, that it finds the store empty from the draw to the rename, and that
  whoever is about to seal has the key of the file in hand.  Otherwise it says that
  a torn temporary file has a writer, by where its handle is linked, or a kill.
  `BinaryWhole`: a torn file is followed from `nid.new` to
  the executable by its writer's handle; for updates that take turns the invariant
  says what the one update has prepared so far, and that the old binary goes only
  once it is put aside.  `InstalledTrusted`: what an update carries is trusted from the
  step that verified it, and so is what is at the paths; that the walk over a chain
  ends at a key the anchor vouches for is an induction over its links.
  `RevokedStaysOut`: the invariant says of each step of an
  import what permission it carries: what `known` has was active since its start,
  and past the verification the bundle is unaltered and there is a reason to take it.
* `InstallProofs`, installer: type correctness, `HookedCovered`, `RoundTrip`,
  `DoctorAgrees`.  What the files promise between commands, the invariant
  carries through them: every hooked file is still due or taken (`Cover`), what was
  taken is what the user wrote, and what differs from it is in the backup or on the way there
  (`Clean`), what an onboarding has done and what the registry lists has a hook or takes
  none (`Recorded`), each under the mishaps its property names.
* `InstallProofs`, hook: type correctness, `HookFaithful`, `ShadowHonoured`.  The invariant
  has the property from the submission on, and says how the command of each pass relates to the
  one submitted; that a further escape may only be dropped behind those dropped
  before is an induction over the words.
* `InstallProofs`, capture: type correctness, `CaptureTrue`, `CaptureGoesOn`.  A stream is whole
  (what is kept and what is in the pipe is what was written, in order) until it
  is cut at exactly its half; a reader is done only at an empty pipe without a writer.
  From the latter no pipe stays full while somebody could read it.
* `InstallProofs`, fingerprint: type correctness, `FingerprintApart`.  The recursion over
  tokens has a solution, and from each token at which a step of it begins it yields one
  pair per token: both by induction from the end of the command.

* `InstallProofs`, side by side: a step of one part is a stutter of the others, so the
  specification of the run `install` implements that of each part
  (`PartsKeepTheirSpecs`), and every theorem about a part holds of the run's
  specification; `InstallTypeOK` follows from the seven type theorems.
* `PipelineProofs`: all six invariants of `Pipeline`.  See the next section.

### The pipeline

A rule goes through the lines with a loop; `Dsl` writes every loop as `Fold`, whose body
is a function of what has been computed and the next line.  `FoldLaws` gives the
two equations of such a loop, for the empty sequence and for one more line, and
`SeqInduct` the induction over sequences; every fact about a loop is
one about its body and these two.

* `NeverRewritten`: each rule but the JSON path rules yields a list whose verbatim lines are, uncoloured,
  a subsequence of those it was given (`Keeps`, reflexive and transitive).
  `ApplyLaws` shows it rule by rule, `ApplyRulesKeeps` for any list of
  rules under any budget, and `LayersKeep` for the layers around them.
* `NothingLostToAbort`: an aborted run shows what layer 1 left, and layer 1 leaves
  each text once at least (`LayerOneTexts`).
* `ElidedCounted`: the weight of a list is its verbatim lines and what its
  placeholders count; a loop over lines keeps the weight of what it has put out and what
  it still holds, the run of `collapse_repeated` or the open section of
  `collapse_between` (`CollapseRunsWeighs`, `CollapseSectionWeighs`).
* `TrainedPasses`, `TrainedWithinBudget`: the self-test applies the baseline to the raw sample,
  a run to what layer 1 makes of it.  The baseline takes the colours off, keeps and drops
  lines by pattern, removes repetitions and truncates; layer 1 has taken the colours off and
  removed the repetitions before it.  Without carriage
  returns at line ends `StripCr` and `Read` change nothing (`NoCrIs`, `ReadIs`).  The lemmas compare both courses rule by
  rule: removing repetitions before filtering changes nothing once
  they are removed again (`DedupFilter`); lines that are equal up to repetitions, and no more of
  them, stay so along a filter (`ThinnerFilter`), and a rule over fewer lines takes no more
  steps and is within the size the other was in (`StepTied`, `FilterTied`).  At the end
  of the baseline both have the same lines (`BaselineTied`).  A run that a slow machine cuts off
  shows layer 1, which has every line the self-test left (`LayerOnePasses`).
* The invariant (`IInv`) says of the active profile that, if it is a baseline a run learned, its rules
  have the baseline's form and it passed the self-test on each output it was tested on
  (`ProfileOK`), and of the run in progress
  which profile, clock and layers made what is shown (`LastOK`).  Neither is in a
  property, and what is shown cannot be judged without it.  That the number of
  samples stays below the cap needs that the rows counted are finitely many
  (`RoomForEach`, `OneMoreSample`).

The installed provers cannot use an induction theorem that takes a predicate.
`SetInduction` states induction for a set of numbers, which they can, so a
fact about every length or every number of steps is put as membership in a
set.  It rests on the well-foundedness of strict inclusion among finite sets, a theorem of
the library, and on no assumption.

The theorems rest on the named assumptions of the modules only.  Those beyond the obvious types
keep tokens of the data apart: `NoFile` is no configuration
(`NoFileAssumption`), the two words of nid differ (`WordsAssumption`), the mark of
a missing value is neither a word nor a form (`TokensAssumption`), no flag is not a
flag whose value is kept (`ShapeAssumption`).  `Pipeline` assumes besides that a command prints verbatim
lines (`OutputsAssumption`), that a JSON document is printed as lines
(`JsonAssumption`), that backends answer with profiles of the language
(`RefinementsAssumption`), and that the marker `[... truncated to N bytes ...]`
(interpreter.rs:199) is no exit line (`MarkerAssumption`), which the anchored
expression of invariants.rs:84 rules out.

Model-checked only:

* the liveness properties (`ZeroRowsSwept`, `EventuallySynthesized`) and `NeverStuck` as it stands, which are beyond the prover (fairness,
  `ENABLED`); `CaptureGoesOn` proves `NeverStuck` with the guards written out.

## Plan

1. Abstract specifications: a counted store that `BlobStore` refines when puts
   run alone.
2. Composition: learning under the lock (`SynthLock` with `Profiles` and the DSL
   reference), and a run with its blobs (`Sessions` with `BlobStore`).
3. Algorithms still outside: the check `json_path_exists`, the structural subset check,
   lock-in checkpoints, exit skew, the rolling window of 100; first runs that
   migrate the database at once.

## Not modelled

The backends (network and subprocesses: their only effect here is how long a
synthesis takes and which version it returns), configuration parsing and paths
(values are constants), redaction patterns and layer formats (regular
expressions), the tables `gain`, `sessions` and `version` print, statistics (gain
rollup, use counters), and the bundled profiles (data).
