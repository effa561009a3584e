----------------------------- MODULE MCPipeline -----------------------------
(***************************************************************************)
(* Values for model-checking Pipeline: a few outputs with an error, an     *)
(* exit line, progress lines, fences, colours, blanks, carriage returns    *)
(* and a JSON document, and every profile of one rule, or of a first rule  *)
(* and another, from a menu.                                               *)
(***************************************************************************)
EXTENDS Pipeline

Forms(text) == {text} \X BOOLEAN \X (0..2)

MCErrorLines == Forms("error")
MCExitLines == {"exit"} \X {FALSE} \X (0..2)
MCBlankLines == {""} \X {FALSE} \X (0..2)
MCDebugLines == Forms("step1")

P(text) == Verbatim(text, FALSE, 0)
C(text) == Verbatim(text, TRUE, 0)
CR(text, n) == Verbatim(text, FALSE, n)

Document == <<"{", "key", "more", "}">>

MCOutputs == {
  <<>>,
  <<CR("step1", 1), CR("error", 2)>>,
  <<C("ok"), P("ok"), C("error"), P("")>>,
  <<P("ok"), P("step1"), P("step2"), P("exit")>>,
  <<P("ok"), P("exit")>>,
  <<CR("begin", 1), CR("end", 1), CR("begin", 1), CR("step1", 1)>>,
  [i \in DOMAIN Document |-> P(Document[i])]}

\* `keep` prints an object of paths, `drop` the document without them.
MCJson == [texts \in {Document} |-> {"$.key"}]
MCPretty ==
  [p \in JsonKinds \X {Document} \X SUBSET {"$.key"} |->
     CASE p[1] = "json_path_keep" /\ p[3] = {} -> <<"{}">>
       [] p[1] = "json_path_keep" /\ p[3] # {} -> <<"{", "$.key", "}">>
       [] p[1] = "json_path_drop" /\ p[3] = {} -> Document
       [] p[1] = "json_path_drop" /\ p[3] # {} -> <<"{", "more", "}">>]

Steps == Forms("step1") \cup Forms("step2")

Menu == {
  [kind |-> "strip_ansi"],
  [kind |-> "dedup"],
  [kind |-> "keep_lines", match |-> Forms("ok")],
  [kind |-> "drop_lines", match |-> {<<"error", TRUE, 0>>, <<"error", FALSE, 2>>}],
  [kind |-> "ndjson_filter", match |-> Forms("error")],
  [kind |-> "collapse_repeated", match |-> Steps, n |-> 2],
  [kind |-> "collapse_between", match |-> Forms("begin") \cup Forms("ok"),
   end |-> Forms("end") \cup Forms("exit")],
  [kind |-> "head", n |-> 2],
  [kind |-> "head", n |-> 0],
  [kind |-> "tail", n |-> 2],
  [kind |-> "head_after", n |-> 1, match |-> Forms("begin")],
  [kind |-> "tail_before", n |-> 1, match |-> Forms("exit")],
  [kind |-> "state_machine",
   states |-> <<[enter |-> Forms("begin"), keep |-> {}, drop |-> {Steps}],
                [enter |-> Forms("ok"), keep |-> {Forms("ok")}, drop |-> {}]>>],
  [kind |-> "truncate_to", n |-> 2],
  [kind |-> "json_path_keep", paths |-> {"$.key"}],
  [kind |-> "json_path_drop", paths |-> {"$.key", "$.other"}]}

Collapsing == {r \in Menu : r.kind \in {"collapse_repeated", "collapse_between"}}
Plainly == {r \in Menu \ Collapsing : r.kind \notin JsonKinds}
MCChecks == {[kind |-> "last_line_matches", match |-> Forms("exit") \cup Forms("ok")],
           [kind |-> "all_matching_preserved", match |-> MCErrorLines],
           [kind |-> "count_matches_at_least", match |-> Forms("ok"), n |-> 1]}

MCRefinements ==
  {[version |-> "1.1.0", refined |-> TRUE, auto |-> FALSE, rules |-> p[1], invariants |-> p[2]] :
     p \in {<<<<r>>, checks>> : r \in Menu, checks \in {{}, MCChecks}}
        \cup {<<<<c, r>>, {}>> : c \in Collapsing, r \in Plainly}}

MCBudget == [steps |-> 12, every |-> 6, peak |-> 4]
=============================================================================
