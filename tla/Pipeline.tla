------------------------------ MODULE Pipeline ------------------------------
(***************************************************************************)
(* What nid does to the output of one command, run after run: layers 1     *)
(* and 2 while there is no profile, samples, lock-in, the structural-diff  *)
(* baseline and its refinement, the self-test, and the learned profile in  *)
(* use until it exceeds its budget (crates/nid-cli/src/cmd/run.rs,         *)
(* synthesize.rs; crates/nid-synthesis; crates/nid-dsl).                   *)
(*                                                                         *)
(* One fingerprint, one run at a time: SynthLock and Profiles deal with    *)
(* concurrent runs.  Redaction, signals of a bypass and shadow mode are    *)
(* left out.                                                               *)
(***************************************************************************)
EXTENDS Dsl

CONSTANTS
  Outputs,         \* what the command may print: sequences of verbatim lines
  Refinements,     \* profiles a backend may answer with
  SamplesToLock,   \* cfg.synthesis.samples_to_lock
  SampleCap,       \* 64 in run.rs
  AnchorCap,       \* 20 in diff.rs
  Floor,           \* 64 KiB in diff.rs
  Budget,          \* [steps, every, peak]
  ErrorLines, ExitLines, BlankLines, DebugLines,  \* patterns of the code
  None

\* A command prints lines; the patterns are what the regular expressions match.
ASSUME OutputsAssumption == Outputs \subseteq Seq({l \in Lines : l.verbatim})
ASSUME PatternsAssumption ==
  {ErrorLines, ExitLines, BlankLines, DebugLines} \subseteq Patterns

\* The marker of truncate_to is no exit line (invariants.rs:84, interpreter.rs:199).
ASSUME MarkerAssumption == ~Matches(ExitLines, Truncated)

ProfileRows ==
  [version : STRING, refined : BOOLEAN, auto : BOOLEAN, rules : Seq(Rules),
   invariants : SUBSET Checks]

ASSUME RefinementsAssumption == Refinements \subseteq {r \in ProfileRows : r.refined}
ASSUME BoundsAssumption ==
  /\ SampleCap \in Nat /\ Floor \in Nat \ {0}
  /\ Budget \in [steps : Nat, every : Nat \ {0}, peak : Nat]

VARIABLES
  samples,   \* a bag: how often each output was captured
  profile,   \* the active profile, or None
  trained,   \* the outputs that profile was tested on
  taken,     \* versions in the profiles table
  learning,  \* the run captured a sample, try_auto_synthesize is next
  last       \* the run in progress: what was printed, what is shown and how, or None

vars == <<samples, profile, trained, taken, learning, last>>

Captured == {o \in Outputs : samples[o] > 0}

\* One row for each sample captured.
Rows == {r \in Outputs \X (1 .. SampleCap) : r[2] <= samples[r[1]]}
Count == Cardinality(Rows)
-----------------------------------------------------------------------------
StripCr(lines) == [i \in DOMAIN lines |-> [lines[i] EXCEPT !.cr = 0]]
LayerOne(raw) == Dedup(StripAnsi(StripCr(raw)))
LayerTwo(lines, log) == IF log THEN DropMatching(lines, DebugLines) ELSE lines

LinesOf(o) == {<<Read(o)[i].text, o[i].colour, Read(o)[i].cr>> : i \in DOMAIN o}

\* Lines that occur in every sample, colours and all.
Constant(outputs) ==
  {a \in UNION {LinesOf(o) : o \in outputs} :
     a \notin BlankLines /\ \A o \in outputs : a \in LinesOf(o)}

\* The anchors kept: the first AnchorCap in an order the model leaves open.
AnchorSets(outputs) ==
  LET all == Constant(outputs)
      n == IF Cardinality(all) < AnchorCap THEN Cardinality(all) ELSE AnchorCap
  IN {A \in SUBSET all : Cardinality(A) = n}

BaselineOf(rules) ==
  [version |-> "1.0.0", refined |-> FALSE, auto |-> FALSE, rules |-> rules,
   invariants |-> {[kind |-> "all_matching_preserved", match |-> ErrorLines],
                   [kind |-> "exit_line_preserved", match |-> ExitLines]}]

Filters(anchors) ==
  (IF anchors = {} THEN <<>> ELSE <<[kind |-> "keep_lines", match |-> anchors]>>)
    \o <<[kind |-> "drop_lines", match |-> BlankLines],
         [kind |-> "dedup"],
         [kind |-> "truncate_to", n |-> Floor]>>

\* The baseline without its first rule.
BaselineColoured(anchors) == BaselineOf(Filters(anchors))

Baseline(anchors) == BaselineOf(<<[kind |-> "strip_ansi"]>> \o Filters(anchors))

\* What the orchestrator may return: a refinement is kept if it validates.
ValidRefinements == {r \in Refinements : ValidProfile(r)}
Candidates(outputs) == {Baseline(A) : A \in AnchorSets(outputs)} \cup ValidRefinements

LockIn ==
  \/ Count >= SamplesToLock
  \/ Count >= 3 /\ Cardinality(Captured) = 1

\* `nid synthesize` does not ask whether the budget aborted.
SelfTestManual(p, sample) ==
  \E slow \in BOOLEAN :
    PassesAll(p, sample, ApplyRules(sample, p.rules, Budget, slow).lines)

\* The sample as it was captured, not as layer 1 would pass it on.
SelfTest(p, sample) ==
  LET out == ApplyRules(sample, p.rules, Budget, FALSE)
  IN ~out.aborted /\ PassesAll(p, sample, out.lines)
-----------------------------------------------------------------------------
Init ==
  /\ samples = [o \in Outputs |-> 0]
  /\ profile = None
  /\ trained = {}
  /\ taken = {}
  /\ learning = FALSE
  /\ last = None

Ran(raw, shown, aborted, slow) ==
  [raw |-> raw, shown |-> shown, aborted |-> aborted, slow |-> slow, by |-> profile,
   trained |-> trained]

\* Every run leaves a sample.
RoomAlways == TRUE

Room == Count < SampleCap

\* A run without a profile: layers 1 and 2, then a sample while there is room.
RunUnlearned(raw, log) ==
  /\ last = None /\ profile = None
  /\ last' = Ran(raw, LayerTwo(LayerOne(raw), log), FALSE, FALSE)
  /\ IF Room THEN samples' = [samples EXCEPT ![raw] = @ + 1] /\ learning' = TRUE
             ELSE UNCHANGED <<samples, learning>>
  /\ UNCHANGED <<profile, trained, taken>>

\* The caller does not look at budget_aborted.
ShownPartial(raw, out) == out.lines

Shown(raw, out) == IF out.aborted THEN LayerOne(raw) ELSE out.lines

Quarantine == profile' = None /\ trained' = {}

\* A run with a profile: its rules on what layer 1 leaves, or, when they abort,
\* layer 1 alone and quarantine.
RunLearned(raw, slow) ==
  /\ last = None /\ profile # None
  /\ LET out == ApplyRules(LayerOne(raw), profile.rules, Budget, slow)
     IN /\ last' = Ran(raw, Shown(raw, out), out.aborted, slow)
        /\ IF out.aborted THEN Quarantine ELSE UNCHANGED <<profile, trained>>
  /\ UNCHANGED <<samples, taken, learning>>

\* insert_pending and promote: a version in the table makes the first fail.
Install(p, auto) ==
  /\ p.version \notin taken
  /\ profile' = [p EXCEPT !.auto = auto]
  /\ trained' = Captured
  /\ taken' = taken \cup {p.version}

AutoSynthesize ==
  /\ learning /\ LockIn
  /\ \E p \in Candidates(Captured) :
       /\ Install(p, TRUE)
       /\ \A s \in Captured : SelfTest(p, s)
  /\ learning' = FALSE
  /\ last' = None
  /\ UNCHANGED samples

\* The run ends: with a profile, or without learning one for want of samples, by
\* a failed self-test, a version that is taken or a crash.
Exit ==
  /\ last # None
  /\ learning' = FALSE
  /\ last' = None
  /\ UNCHANGED <<samples, profile, trained, taken>>

\* `nid synthesize`, with or without --force.
Synthesize ==
  /\ last = None /\ Captured # {}
  /\ \E p \in Candidates(Captured) :
       /\ Install(p, FALSE)
       /\ \A s \in Captured : SelfTestManual(p, s)
  /\ UNCHANGED <<samples, learning, last>>

Next ==
  \/ \E raw \in Outputs, b \in BOOLEAN : RunUnlearned(raw, b) \/ RunLearned(raw, b)
  \/ AutoSynthesize \/ Synthesize \/ Exit

Spec == Init /\ [][Next]_vars
-----------------------------------------------------------------------------
(***************************************************************************)
(* Properties.                                                             *)
(***************************************************************************)
VerbatimOf(lines) == Filter(lines, {l \in Lines : l.verbatim})

\* s is t with lines left out: each line of s has a place in t, in their order.
IsSubsequence(s, t) ==
  \E place \in [DOMAIN s -> DOMAIN t] :
    /\ \A i \in DOMAIN s : s[i] = t[place[i]]
    /\ \A i, j \in DOMAIN s : i < j => place[i] < place[j]

Elided(lines) == Fold([p \in Nat \X Lines |-> p[1] + p[2].count], 0, lines)

InUse == last # None /\ last.by # None
InUseAsTrained == InUse /\ ~last.by.refined /\ last.raw \in last.trained

\* A profile that prints JSON documents anew.
Reprints(p) == \E i \in DOMAIN p.rules : p.rules[i].kind \in JsonKinds

NoCr(lines) == \A i \in DOMAIN lines : lines[i].cr = 0

TypeOK ==
  /\ samples \in [Outputs -> 0..SampleCap] /\ Count <= SampleCap
  /\ profile # None => ValidProfile(profile) /\ profile.version \in taken
  /\ trained \subseteq Outputs
  /\ taken \subseteq {"1.0.0"} \cup {r.version : r \in Refinements}
  /\ learning \in BOOLEAN
  /\ last # None => last.raw \in Outputs

\* Whatever rules but the two JSON path rules a profile composes, and whatever
\* the layers around them do, the verbatim lines of the output are lines of the
\* input in their order, none twice (README.md:61 "Lines are never rewritten";
\* interpreter.rs, run.rs:146-187).  The JSON path rules do rewrite them
\* (interpreter.rs:209-253).
NeverRewritten ==
  last # None /\ (last.by # None => ~Reprints(last.by)) =>
    IsSubsequence(VerbatimOf(last.shown), StripAnsi(StripCr(last.raw)))

\* A profile that exceeds its budget costs the user nothing: every text the
\* command printed is still shown (run.rs:170-176).  The interpreter itself has
\* taken the lines away when it aborts.
NothingLostToAbort ==
  last # None /\ last.aborted =>
    {last.raw[i].text : i \in DOMAIN last.raw} \subseteq
      {last.shown[i].text : i \in DOMAIN last.shown}

\* A collapse rule loses no line from the account: in a profile that only
\* collapses once, lines shown and lines counted by placeholders are those that
\* layer 1 passed on (interpreter.rs:277-356).
ElidedCounted ==
  InUse /\ ~last.aborted /\ Len(last.by.rules) = 1
    /\ last.by.rules[1].kind \in {"collapse_repeated", "collapse_between"} =>
    Len(VerbatimOf(last.shown)) + Elided(last.shown) = Len(LayerOne(last.raw))

\* The self-test reads the sample as it was captured, a run hands the profile
\* what layer 1 leaves of it.  For the baseline and an output without carriage
\* returns at line ends that makes no difference: on an output it was tested on
\* it passes its invariants in use (run.rs:237-266, 758-790).  With carriage
\* returns, which only layer 1 strips (layer1.rs:85-87), it need not.
TrainedPasses ==
  InUseAsTrained /\ last.by.auto /\ NoCr(last.raw) => PassesAll(last.by, last.raw, last.shown)

\* Nor does it exceed its budget there, unless the machine is slow
\* (README.md:845; run.rs:762-775).  With carriage returns the anchors may match
\* in use only, and more lines go through the rules behind them.
TrainedWithinBudget ==
  InUseAsTrained /\ last.by.auto /\ NoCr(last.raw) /\ ~last.slow => ~last.aborted

\* "Error messages, exit indicators, and pattern matches are preserved"
\* (README.md:61).  The baseline keeps the lines common to all samples, so an
\* error the samples did not have is dropped; the failed invariant is recorded,
\* and the output is printed all the same (diff.rs:47-69, run.rs:237-266).
ErrorsShown ==
  InUse /\ last.by.auto /\ ~last.by.refined =>
    {last.raw[i].text : i \in {j \in DOMAIN last.raw : Matches(ErrorLines, last.raw[j])}} \subseteq
      {last.shown[i].text : i \in DOMAIN last.shown}
=============================================================================
