------------------------------ MODULE MCInstall ------------------------------
(***************************************************************************)
(* The parts of nid around its store: the fingerprint of a command, the    *)
(* capture of its output, the key that seals it, the installation of the   *)
(* hooks, the hook itself, the update of the binary and the import of      *)
(* signed profiles.  They share no state but the directories they live in, *)
(* so that one run explores them side by side: the initial state says      *)
(* which part moves, and the rest stands still.  The model values are      *)
(* those of the run.                                                       *)
(***************************************************************************)
EXTENDS Fingerprint, Capture, SealedKey, Onboard, HookRewrite, Update, Trust, TLC

CONSTANTS
  Parts,                                  \* the parts that are explored
  claude, aider,                          \* a JSON configuration and the YAML one
  b1, prefix,                             \* a path of nid, the YAML line
  blank, broken, closed,                  \* the texts of a configuration
  ka, kb, kc,                             \* release keys
  s1, s2, f1                              \* signers and a fingerprint

VARIABLE focus

installVars ==
  <<focus, fingerprintVars, captureVars, keyVars, onboardVars, hookVars, updateVars, trustVars>>

\* One binary by two paths and another one; words, numbers and a text of the two
\* words, and a flag of either kind alone and with a number behind `=`.
Program(s, p) == [stem |-> s, around |-> p]
SomePrograms == {Program("git", ""), Program("git", "/bin"), Program("gh", "")}
Value(ws, f) == [words |-> ws, form |-> f]
SomeArgTokens ==
  {[flag |-> NoFlag, value |-> v] :
     v \in {Value(<<"a">>, "a"), Value(<<"b">>, "b"), Value(<<"5">>, "<n>"),
            Value(<<"7">>, "<n>"), Value(<<"a", "b">>, "<str>")}}
    \cup {[flag |-> f, value |-> v] :
            f \in {"-v", "--format"}, v \in {NoValue, Value(<<"7">>, "<n>")}}

\* One stream beyond its half of the cap, both, one before and after the other.
SomeScripts ==
  {<<>>, <<"out">>, <<"err", "err", "err", "err", "out">>,
   <<"out", "err", "out", "out", "out">>, <<"out", "out", "err", "err", "err", "err">>}

OneOfEach == <<claude, aider>>
OneJson   == <<claude>>

\* One of each first word, the escape alone, twice, and before nid.
SomeCommands ==
  {<<"NID_RAW=1", "pytest">>, <<"NID_RAW=1", "NID_RAW=1", "pytest">>,
   <<"NID_RAW=1", "/opt/nid", "pytest">>, <<"NID_RAW=1">>,
   <<"nid", "pytest">>, <<"nid --shadow", "pytest">>, <<"/opt/nid", "pytest">>,
   <<"cd">>, <<"cat >">>, <<"pytest">>}

\* A release of the anchor, one two links away, one behind a link that does not
\* hold, one whose manifest does not verify.
Link(k, l, g) == [from |-> k, to |-> l, good |-> g]
SomeReleases ==
  {[signer |-> ka, sound |-> TRUE, intact |-> TRUE, chain |-> <<>>],
   [signer |-> kc, sound |-> TRUE, intact |-> TRUE,
    chain |-> <<Link(kb, kc, TRUE), Link(ka, kb, TRUE)>>],
   [signer |-> kc, sound |-> TRUE, intact |-> TRUE,
    chain |-> <<Link(ka, kb, FALSE), Link(kb, kc, TRUE)>>],
   [signer |-> kb, sound |-> FALSE, intact |-> TRUE, chain |-> <<Link(ka, kb, TRUE)>>]}

\* Two signers' bundles, and two that were altered: in the name, in the body.
SomeTarballs ==
  LET b == Packed(f1, s1) IN
    {b, Packed(f1, s2), [b EXCEPT !.names = s2], [b EXCEPT !.body = FALSE]}

Symmetry == Permutations(Importers) \cup Permutations(Updaters)

\* The YAML file is absent or blank at first (edits make it any other), and builds
\* that differ only in what they verify do not overlap their updates.
InstallInit ==
  /\ focus \in Parts
  /\ FingerprintInit /\ argv.bin = Program("git", "")
  /\ CaptureInit /\ KeyInit /\ OnboardInit /\ HookInit /\ UpdateInit /\ TrustInit
  /\ focus # "capture" => script = <<>> /\ cap = 0
  /\ focus # "key" => oneByOne
  /\ focus # "onboard" => \A a \in Agents : config[a] = NoFile
  /\ \A a \in Wrapped : config[a] # NoFile => config[a].text = blank
  /\ focus # "hook" => shadowState = "absent" /\ patterns = {}
  /\ focus # "update" => build = "anchored" /\ ~windows /\ alone
  /\ build = "anchored" \/ alone

InstallNext ==
  \/ /\ focus = "fingerprint" /\ FingerprintNext
     /\ UNCHANGED <<focus, captureVars, keyVars, onboardVars, hookVars, updateVars, trustVars>>
  \/ /\ focus = "capture" /\ CaptureNext
     /\ UNCHANGED <<focus, fingerprintVars, keyVars, onboardVars, hookVars, updateVars, trustVars>>
  \/ /\ focus = "key" /\ KeyNext
     /\ UNCHANGED <<focus, fingerprintVars, captureVars, onboardVars, hookVars, updateVars, trustVars>>
  \/ /\ focus = "onboard" /\ OnboardNext
     /\ UNCHANGED <<focus, fingerprintVars, captureVars, keyVars, hookVars, updateVars, trustVars>>
  \/ /\ focus = "hook" /\ HookNext
     /\ UNCHANGED <<focus, fingerprintVars, captureVars, keyVars, onboardVars, updateVars, trustVars>>
  \/ /\ focus = "update" /\ UpdateNext
     /\ UNCHANGED <<focus, fingerprintVars, captureVars, keyVars, onboardVars, hookVars, trustVars>>
  \/ /\ focus = "trust" /\ TrustNext
     /\ UNCHANGED <<focus, fingerprintVars, captureVars, keyVars, onboardVars, hookVars, updateVars>>

InstallSpec == InstallInit /\ [][InstallNext]_installVars

\* The type invariants of the modules; a part that stands still is as the
\* initial states with its own focus have it.
InstallTypeOK ==
  /\ focus = "fingerprint" => FingerprintTypeOK
  /\ focus = "capture" => CaptureTypeOK
  /\ focus = "key"     => KeyTypeOK
  /\ focus = "onboard" => OnboardTypeOK
  /\ focus = "hook"    => HookTypeOK
  /\ focus = "update"  => UpdateTypeOK
  /\ focus = "trust"   => TrustTypeOK
=============================================================================
