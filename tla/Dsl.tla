-------------------------------- MODULE Dsl --------------------------------
(***************************************************************************)
(* The profile language of crates/nid-dsl: what each rule does to a list   *)
(* of lines, what it costs, when its budget aborts it, what the validator  *)
(* accepts and what an invariant check says.                               *)
(*                                                                         *)
(* A line is verbatim (a text, coloured or not by ANSI sequences, and the  *)
(* number of carriage returns that end it) or a placeholder.  A regular    *)
(* expression is the set of <<text, colour, cr>> triples it matches, so an *)
(* anchored one may tell a coloured text from a plain one.  Every line     *)
(* weighs one unit of bytes and is printed with a newline; a carriage      *)
(* return with only escape sequences behind it is left out, and so is      *)
(* the syntax of regular expressions and JSON paths.                       *)
(***************************************************************************)
EXTENDS Naturals, Sequences, FiniteSets, SequencesExt

CONSTANTS
  Json,    \* the texts that are a JSON document: its paths (serde_json)
  Pretty   \* the texts it is printed as again, by rule kind and paths found

JsonKinds == {"json_path_keep", "json_path_drop"}

\* Every document is printed again as texts, whatever was found.
ASSUME JsonAssumption ==
  \A texts \in DOMAIN Json : \A kind \in JsonKinds, found \in SUBSET Json[texts] :
    Pretty[<<kind, texts, found>>] \in Seq(STRING)

\* A placeholder says how many lines it stands for.
Lines ==
  [verbatim : {TRUE}, text : STRING, colour : BOOLEAN, cr : Nat, count : {0}]
    \cup [verbatim : {FALSE}, text : {"elided", "truncated"}, colour : {FALSE}, cr : {0},
          count : Nat]

Patterns == SUBSET (STRING \X BOOLEAN \X Nat)

Verbatim(text, colour, cr) ==
  [verbatim |-> TRUE, text |-> text, colour |-> colour, cr |-> cr, count |-> 0]
Placeholder(n) ==
  [verbatim |-> FALSE, text |-> "elided", colour |-> FALSE, cr |-> 0, count |-> n]
Truncated ==
  [verbatim |-> FALSE, text |-> "truncated", colour |-> FALSE, cr |-> 0, count |-> 0]

Matches(pattern, line) == <<line.text, line.colour, line.cr>> \in pattern
Hits(pattern, line) == line.verbatim /\ Matches(pattern, line)
FirstHit(pattern, lines) == SelectInSeq(lines, LAMBDA l : Hits(pattern, l))

Plain(line) == [line EXCEPT !.colour = FALSE]

\* str::lines(): the newline takes one carriage return with it.
Read(lines) ==
  [i \in DOMAIN lines |-> [lines[i] EXCEPT !.cr = IF @ = 0 THEN 0 ELSE @ - 1]]

\* A loop over a sequence, its body a function of what it has and the next element.
Fold(visit, base, seq) == FoldLeft(LAMBDA acc, e : visit[<<acc, e>>], base, seq)

Filter(lines, keep) ==
  Fold([p \in Seq(Lines) \X Lines |-> IF p[2] \in keep THEN Append(p[1], p[2]) ELSE p[1]],
       <<>>, lines)
-----------------------------------------------------------------------------
(***************************************************************************)
(* The rules.                                                              *)
(***************************************************************************)
StateDefs == [enter : Patterns, keep : SUBSET Patterns, drop : SUBSET Patterns]

Rules ==
  [kind : {"dedup", "strip_ansi"}]
    \cup [kind : {"keep_lines", "drop_lines", "ndjson_filter"}, match : Patterns]
    \cup [kind : {"head", "tail", "truncate_to"}, n : Nat]
    \cup [kind : {"head_after", "tail_before", "collapse_repeated"}, match : Patterns, n : Nat]
    \cup [kind : {"collapse_between"}, match : Patterns, end : Patterns]
    \cup [kind : {"state_machine"}, states : Seq(StateDefs)]
    \cup [kind : JsonKinds, paths : SUBSET STRING]

KeepMatching(lines, pattern) == Filter(lines, {l \in Lines : ~l.verbatim \/ Matches(pattern, l)})
DropMatching(lines, pattern) == Filter(lines, {l \in Lines : ~Hits(pattern, l)})

\* The run is not reset and comes again with the next line.
FlushAgain(acc, min) ==
  [out |-> acc.out \o (IF Len(acc.run) >= min THEN <<Placeholder(Len(acc.run))>>
                                              ELSE acc.run),
   run |-> acc.run]

\* A run that ends: one placeholder when it is long enough, else its lines.
Flush(acc, min) ==
  [out |-> acc.out \o (IF Len(acc.run) >= min THEN <<Placeholder(Len(acc.run))>>
                                              ELSE acc.run),
   run |-> <<>>]

RunStep(acc, l, pattern, min) ==
  IF Hits(pattern, l)
    THEN [acc EXCEPT !.run = Append(@, l)]
    ELSE LET done == Flush(acc, min) IN [done EXCEPT !.out = Append(@, l)]

RunsIn(lines, pattern, min) ==
  Fold([p \in [out : Seq(Lines), run : Seq(Lines)] \X Lines |-> RunStep(p[1], p[2], pattern, min)],
       [out |-> <<>>, run |-> <<>>], lines)

CollapseRuns(lines, pattern, min) == Flush(RunsIn(lines, pattern, min), min).out

\* Fences stay; what is between them, or behind an open one, is counted.
FenceStep(acc, l, begin, end) ==
  IF ~acc.inside
    THEN [out |-> Append(acc.out, l), inside |-> Hits(begin, l), n |-> 0]
    ELSE IF Hits(end, l)
      THEN [out |-> acc.out \o <<Placeholder(acc.n), l>>, inside |-> FALSE, n |-> 0]
      ELSE [out |-> acc.out, inside |-> TRUE, n |-> acc.n + 1]

Fenced(lines, begin, end) ==
  Fold([p \in [out : Seq(Lines), inside : BOOLEAN, n : Nat] \X Lines |->
          FenceStep(p[1], p[2], begin, end)],
       [out |-> <<>>, inside |-> FALSE, n |-> 0], lines)

\* A section that is still open at the end of the output is lost silently.
CollapseSectionOpenLost(lines, begin, end) == Fenced(lines, begin, end).out

CollapseSection(lines, begin, end) ==
  LET acc == Fenced(lines, begin, end)
  IN IF acc.inside /\ acc.n > 0 THEN Append(acc.out, Placeholder(acc.n)) ELSE acc.out

FirstOf(lines, n) == SubSeq(lines, 1, IF n < Len(lines) THEN n ELSE Len(lines))
LastOf(lines, n) == SubSeq(lines, IF n < Len(lines) THEN Len(lines) - n + 1 ELSE 1, Len(lines))

\* Everything up to the anchor and n lines more.
HeadAfter(lines, n, pattern) ==
  LET hit == FirstHit(pattern, lines)
  IN IF hit = 0 THEN lines ELSE FirstOf(lines, hit + n)

\* The line, counted from 1, that tail_before starts with.
TailStart(lines, n, pattern) ==
  LET hit == FirstHit(pattern, lines) IN IF hit > n THEN hit - n ELSE 1

\* n lines before the anchor and everything from the anchor on.
TailBefore(lines, n, pattern) ==
  IF FirstHit(pattern, lines) = 0
    THEN lines ELSE SubSeq(lines, TailStart(lines, n, pattern), Len(lines))

Dedup(lines) ==
  Fold([p \in Seq(Lines) \X Lines |->
          IF p[1] # <<>> /\ p[1][Len(p[1])] = p[2] THEN p[1] ELSE Append(p[1], p[2])],
       <<>>, lines)

StripAnsi(lines) == [i \in DOMAIN lines |-> Plain(lines[i])]

\* `active` is the state entered last, 0 before the first.
Entered(active, l, states) ==
  LET i == SelectInSeq(states, LAMBDA s : Matches(s.enter, l))
  IN IF i = 0 THEN active ELSE i

KeptIn(state, l) ==
  /\ \A p \in state.drop : ~Matches(p, l)
  /\ state.keep = {} \/ \E p \in state.keep : Matches(p, l)

StateStep(acc, l, states) ==
  LET active == IF l.verbatim THEN Entered(acc.active, l, states) ELSE acc.active
  IN [active |-> active,
      out |-> IF l.verbatim /\ active # 0 /\ ~KeptIn(states[active], l)
                THEN acc.out ELSE Append(acc.out, l)]

RunStates(lines, states) ==
  Fold([p \in [active : Nat, out : Seq(Lines)] \X Lines |-> StateStep(p[1], p[2], states)],
       [active |-> 0, out |-> <<>>], lines).out

TruncateTo(lines, bytes) ==
  IF Len(lines) <= bytes THEN lines ELSE Append(FirstOf(lines, bytes), Truncated)

\* The lines as one document, printed anew; what does not parse is left alone.
\* An escape sequence is no JSON, a carriage return is white space there.
Reprint(rule, lines) ==
  LET texts == [i \in DOMAIN lines |-> lines[i].text]
      new == Pretty[<<rule.kind, texts, rule.paths \cap Json[texts]>>]
  IN IF texts \in DOMAIN Json /\ \A i \in DOMAIN lines : ~lines[i].colour
       THEN [i \in DOMAIN new |-> Verbatim(new[i], FALSE, 0)]
       ELSE lines

Applied(rule, lines) ==
  CASE rule.kind \in {"keep_lines", "ndjson_filter"} -> KeepMatching(lines, rule.match)
    [] rule.kind = "drop_lines"        -> DropMatching(lines, rule.match)
    [] rule.kind = "collapse_repeated" -> CollapseRuns(lines, rule.match, rule.n)
    [] rule.kind = "collapse_between"  -> CollapseSection(lines, rule.match, rule.end)
    [] rule.kind = "head"              -> FirstOf(lines, rule.n)
    [] rule.kind = "tail"              -> LastOf(lines, rule.n)
    [] rule.kind = "head_after"        -> HeadAfter(lines, rule.n, rule.match)
    [] rule.kind = "tail_before"       -> TailBefore(lines, rule.n, rule.match)
    [] rule.kind = "dedup"             -> Dedup(lines)
    [] rule.kind = "strip_ansi"        -> StripAnsi(lines)
    [] rule.kind = "state_machine"     -> RunStates(lines, rule.states)
    [] rule.kind = "truncate_to"       -> TruncateTo(lines, rule.n)
    [] rule.kind \in JsonKinds         -> Reprint(rule, lines)

\* One step for each line a rule visits.
Ticks(rule, lines) ==
  LET len == Len(lines)
      hit == FirstHit(rule.match, lines)
      AtMost(n) == IF n < len THEN n ELSE len
  IN CASE rule.kind \in {"ndjson_filter", "truncate_to"} \cup JsonKinds -> 0
       [] rule.kind \in {"head", "tail"} -> AtMost(rule.n)
       [] rule.kind = "head_after" /\ hit # 0 -> AtMost(hit + rule.n + 1)
       [] rule.kind = "tail_before" /\ hit # 0 ->
            hit + len - TailStart(lines, rule.n, rule.match) + 1
       [] OTHER -> len
-----------------------------------------------------------------------------
(***************************************************************************)
(* The interpreter under a budget: [steps, every, peak].  The clock is     *)
(* read each `every` steps; `slow` says that it has run out by the first   *)
(* reading.  A rule that aborts has already taken the lines away.          *)
(***************************************************************************)
OverSteps(budget, slow, before, after) ==
  \/ after > budget.steps
  \/ slow /\ after \div budget.every > before \div budget.every

Exceeds(acc, rule, budget, slow) ==
  \/ Len(acc.lines) > budget.peak
  \/ OverSteps(budget, slow, acc.steps, acc.steps + Ticks(rule, acc.lines))
  \/ Len(Applied(rule, acc.lines)) > budget.peak

ApplyOne(acc, rule, budget, slow) ==
  IF acc.aborted THEN acc
  ELSE IF Exceeds(acc, rule, budget, slow)
    THEN [acc EXCEPT !.lines = <<>>, !.aborted = TRUE]
    ELSE [acc EXCEPT !.lines = Applied(rule, acc.lines),
                     !.steps = @ + Ticks(rule, acc.lines)]

ApplyRules(lines, rules, budget, slow) ==
  Fold([p \in [lines : Seq(Lines), steps : Nat, aborted : BOOLEAN] \X Rules |->
          ApplyOne(p[1], p[2], budget, slow)],
       [lines |-> lines, steps |-> 0, aborted |-> FALSE], rules)
-----------------------------------------------------------------------------
(***************************************************************************)
(* The validator and the invariant checks.                                 *)
(***************************************************************************)
ValidRule(rule) ==
  /\ rule.kind = "collapse_repeated" => rule.n >= 2
  /\ rule.kind \in {"head", "tail", "head_after", "tail_before", "truncate_to"} => rule.n > 0
  /\ rule.kind = "ndjson_filter" => rule.match # {}
  /\ rule.kind = "state_machine" => rule.states # <<>>

Checks ==
  [kind : {"all_matching_preserved", "exit_line_preserved", "first_line_matches",
           "last_line_matches"}, match : Patterns]
    \cup [kind : {"count_matches_at_least"}, match : Patterns, n : Nat]

ValidProfile(p) == \A i \in DOMAIN p.rules : ValidRule(p.rules[i])

\* Compared as printed: a coloured line is preserved by a coloured line only.
AllPreserved(pattern, raw, compressed) ==
  \A i \in DOMAIN raw : Matches(pattern, raw[i])
     => \E j \in DOMAIN compressed : Matches(pattern, compressed[j]) /\ compressed[j] = raw[i]

SomePreserved(pattern, raw, compressed) ==
  (\E i \in DOMAIN raw : Matches(pattern, raw[i]))
     => \E j \in DOMAIN compressed : Matches(pattern, compressed[j])

\* An empty output has an empty first and last line.
LineAt(lines, i) == IF i \in DOMAIN lines THEN lines[i] ELSE Verbatim("", FALSE, 0)

Passes(check, raw, compressed) ==
  CASE check.kind = "all_matching_preserved" -> AllPreserved(check.match, raw, compressed)
    [] check.kind = "exit_line_preserved"    -> SomePreserved(check.match, raw, compressed)
    [] check.kind = "first_line_matches"     -> Matches(check.match, LineAt(compressed, 1))
    [] check.kind = "last_line_matches"      ->
         Matches(check.match, LineAt(compressed, Len(compressed)))
    [] check.kind = "count_matches_at_least" ->
         Cardinality({j \in DOMAIN compressed : Matches(check.match, compressed[j])}) >= check.n

PassesAll(p, raw, compressed) ==
  \A check \in p.invariants : Passes(check, Read(raw), Read(compressed))
=============================================================================
