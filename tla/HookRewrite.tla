----------------------------- MODULE HookRewrite -----------------------------
(***************************************************************************)
(* The hot path in front of `nid <cmd>`: the agent's PreTool hook          *)
(* (`nid __hook`, crates/nid-cli/src/cmd/hook.rs) takes the command the    *)
(* agent is about to run, reads the passthrough patterns and the shadow    *)
(* switch, and answers with the command to run instead (nid-hooks/src/     *)
(* agents.rs and rewrite.rs).  The shell runs the answer; `nid` then reads *)
(* the shadow switch once more (run.rs).  Users turn the switch and edit   *)
(* the patterns at any time (cmd/shadow.rs), and an agent with more than   *)
(* one hook entry, or that submits an answer again, sends a command        *)
(* through the rewrite several times.                                      *)
(*                                                                         *)
(* A command is a sequence of words; "nid --shadow" counts as one.         *)
(***************************************************************************)
EXTENDS Naturals, Sequences

CONSTANTS
  RawWord,      \* NID_RAW=1
  NidWords,     \* the first words that name nid, or a path to it
  Nid, NidShadow,   \* the two prefixes the rewrite adds
  Builtins,     \* the shell builtins
  Plumbing,     \* tee or cat with a redirection or a pipe
  OtherWords,   \* any other command
  Commands,     \* bound: the commands agents submit
  MaxPasses,    \* bound: passes of one command through the hook
  MaxToggles    \* bound: turns of the switch and edits while a command is under way

Words == {RawWord} \cup NidWords \cup Builtins \cup Plumbing \cup OtherWords

ASSUME WordsAssumption ==
  /\ {Nid, NidShadow} \subseteq NidWords /\ Nid # NidShadow
  /\ RawWord \notin NidWords \cup Builtins \cup Plumbing \cup OtherWords
  /\ NidWords \cap (Builtins \cup Plumbing \cup OtherWords) = {}
ASSUME CommandsAssumption == Commands \subseteq Seq(Words)
ASSUME HookBoundsAssumption == MaxPasses \in Nat \ {0} /\ MaxToggles \in Nat

VARIABLES
  shadowState,  \* <config>/shadow.state
  patterns,     \* hook.passthrough_patterns: the words they match
  request,      \* what the agent submitted: the command, the tool, its shadow flag
  cmd,          \* the command as it is after the hook's answers so far
  at,           \* where it is
  loaded,       \* the patterns the hook has read
  mode,         \* how it ran: raw, live (compressed) or shadow
  passes,       \* times it went through the hook
  seen,         \* history: whether shadow was on, since it was submitted
  toggles       \* history: turns of the switch and edits since then

hookVars == <<shadowState, patterns, request, cmd, at, loaded, mode, passes, seen, toggles>>
settings == <<shadowState, patterns>>

HookTypeOK ==
  /\ shadowState \in {"absent", "empty", "enable"}
  /\ patterns \in SUBSET Words
  /\ request.cmd \in Commands \cup {<<>>}
  /\ request.tool \in {"bash", "other"}
  /\ request.shadow \in BOOLEAN
  /\ cmd \in Seq(Words)
  /\ at \in {"agent", "config", "switch", "answered", "ran"}
  /\ loaded \in SUBSET Words
  /\ mode \in {"none", "raw", "live", "shadow"}
  /\ passes \in 0 .. MaxPasses
  /\ seen \in SUBSET BOOLEAN
  /\ toggles \in 0 .. MaxToggles

Nothing == [cmd |-> <<>>, tool |-> "bash", shadow |-> FALSE]

HookInit ==
  /\ shadowState \in {"absent", "enable"}
  /\ patterns \in {{}, OtherWords}
  /\ request = Nothing
  /\ cmd = <<>>
  /\ at = "agent"
  /\ loaded = {}
  /\ mode = "none"
  /\ passes = 0
  /\ seen = {}
  /\ toggles = 0

-----------------------------------------------------------------------------
(* rewrite_command: the rules, in their order.                             *)

StartsWith(c, set) == c # <<>> /\ Head(c) \in set

\* The escape is the word and a blank: the word alone is a command.
RawEscape(c) == Len(c) > 1 /\ Head(c) = RawWord

\* Mutant of StartsWithNid: a path to nid is not recognised.
StartsWithPlainNid(c) == StartsWith(c, {Nid, NidShadow})

StartsWithNid(c) == StartsWith(c, NidWords)

\* The patterns are searched for anywhere in the command.
UserPassthrough(c, listed) == \E i \in 1 .. Len(c) : c[i] \in listed

RewriteCommand(c, shadow, listed) ==
  IF RawEscape(c) THEN Tail(c)
  ELSE IF StartsWithNid(c) \/ c = <<>> \/ StartsWith(c, Builtins \cup Plumbing)
          \/ UserPassthrough(c, listed)
       THEN c
  ELSE <<IF shadow THEN NidShadow ELSE Nid>> \o c

\* handle_payload: other tools are left alone.
HandlePayload(c, tool, shadow, listed) ==
  IF tool = "bash" THEN RewriteCommand(c, shadow, listed) ELSE c

ShadowOn == shadowState = "enable"

-----------------------------------------------------------------------------
(* One command on its way.                                                 *)

\* The agent submits a command; its payload may ask for shadow mode itself.
Submit ==
  /\ at = "agent"
  /\ \E c \in Commands, tool \in {"bash", "other"}, shadow \in BOOLEAN :
       /\ request' = [cmd |-> c, tool |-> tool, shadow |-> shadow]
       /\ cmd' = c
  /\ at' = "config"
  /\ passes' = 0
  /\ toggles' = 0
  /\ seen' = {ShadowOn}
  /\ UNCHANGED <<settings, loaded, mode>>

\* nid __hook reads its configuration ...
LoadConfig ==
  /\ at = "config"
  /\ loaded' = patterns
  /\ at' = "switch"
  /\ UNCHANGED <<settings, request, cmd, mode, passes, seen, toggles>>

\* Mutant of Answer: the flag of the payload is lost.
AnswerSwitchOnly ==
  /\ at = "switch"
  /\ cmd' = HandlePayload(cmd, request.tool, ShadowOn, loaded)
  /\ passes' = passes + 1
  /\ at' = "answered"
  /\ UNCHANGED <<settings, request, loaded, mode, seen, toggles>>

\* ... and the switch, and answers.
Answer ==
  /\ at = "switch"
  /\ cmd' = HandlePayload(cmd, request.tool, request.shadow \/ ShadowOn, loaded)
  /\ passes' = passes + 1
  /\ at' = "answered"
  /\ UNCHANGED <<settings, request, loaded, mode, seen, toggles>>

\* The answer goes through the hook once more.
Resubmit ==
  /\ at = "answered" /\ passes < MaxPasses
  /\ at' = "config"
  /\ UNCHANGED <<settings, request, cmd, loaded, mode, passes, seen, toggles>>

\* The shell runs the answer: nid runs in shadow mode if its flag says so, or
\* the switch as it is by then.
Shell ==
  /\ at = "answered"
  /\ mode' = IF ~StartsWith(cmd, NidWords) THEN "raw"
             ELSE IF Head(cmd) = NidShadow \/ ShadowOn THEN "shadow" ELSE "live"
  /\ at' = "ran"
  /\ UNCHANGED <<settings, request, cmd, loaded, passes, seen, toggles>>

Finish ==
  /\ at = "ran"
  /\ at' = "agent"
  /\ mode' = "none"
  /\ request' = Nothing /\ cmd' = <<>> /\ loaded' = {} /\ passes' = 0
  /\ seen' = {} /\ toggles' = 0
  /\ UNCHANGED settings

-----------------------------------------------------------------------------
(* nid shadow enable | disable | commit, and the configuration file.       *)

Turn(s) ==
  /\ toggles < MaxToggles
  /\ shadowState' = s
  /\ seen' = IF at = "agent" THEN seen ELSE seen \cup {s = "enable"}
  /\ toggles' = IF at = "agent" THEN toggles ELSE toggles + 1
  /\ UNCHANGED <<patterns, request, cmd, at, loaded, mode, passes>>

\* fs::write truncates the file, which turns a switch that is on off, ...
EnableTruncates == shadowState # "empty" /\ Turn("empty")

\* ... and writes the word.
EnableWrites == shadowState = "empty" /\ Turn("enable")

DisableOrCommit == shadowState # "absent" /\ Turn("absent")

EditPatterns ==
  /\ toggles < MaxToggles
  /\ \E listed \in {{}, OtherWords, {RawWord}} :
       listed # patterns /\ patterns' = listed
  /\ toggles' = IF at = "agent" THEN toggles ELSE toggles + 1
  /\ UNCHANGED <<shadowState, request, cmd, at, loaded, mode, passes, seen>>

HookNext ==
  \/ Submit \/ LoadConfig \/ Answer \/ Resubmit \/ Shell \/ Finish
  \/ EnableTruncates \/ EnableWrites \/ DisableOrCommit \/ EditPatterns

HookSpec == HookInit /\ [][HookNext]_hookVars

-----------------------------------------------------------------------------
(* Properties.                                                             *)

\* The first k words of the request, taken off, are the escapes of k passes.
Unescaped(k) == SubSeq(request.cmd, k + 1, Len(request.cmd))
Escapes(k) == k < Len(request.cmd) /\ \A i \in 1 .. k : request.cmd[i] = RawWord

\* However often a command goes through the hook and whatever is turned meanwhile
\* ("Idempotent", README.md:702; rule 1 at rewrite.rs:51), it gets at most one
\* nid in front, none if it had one, loses at most one NID_RAW=1 a pass and is
\* otherwise the command submitted; the first pass honours the escape, and only
\* commands of the shell are touched.
HookFaithful ==
  at \in {"answered", "ran"} =>
    /\ \E k \in 0 .. passes :
         /\ k = 0 \/ Escapes(k)
         /\ \/ cmd = Unescaped(k)
            \/ /\ \E p \in {Nid, NidShadow} : cmd = <<p>> \o Unescaped(k)
               /\ ~StartsWith(Unescaped(k), NidWords \cup Builtins)
    /\ passes = 1 /\ RawEscape(request.cmd) /\ request.tool = "bash" => cmd = Tail(request.cmd)
    /\ request.tool # "bash" => cmd = request.cmd

\* A command runs in shadow mode only if it was asked to or the switch was on at
\* some moment since it was submitted, and compressed only if the switch was off
\* at one and neither the command nor, when the hook wrapped it, the payload
\* asked for shadow mode (shadow.rs, hook.rs:25, run.rs:47).
ShadowHonoured ==
  /\ mode = "shadow" =>
       \/ TRUE \in seen \/ request.shadow
       \/ \E i \in 1 .. Len(request.cmd) : request.cmd[i] = NidShadow
  /\ mode = "live" =>
       /\ FALSE \in seen
       /\ Head(request.cmd) # NidShadow
       /\ request.shadow => \E i \in 1 .. Len(request.cmd) : request.cmd[i] \in NidWords
=============================================================================
