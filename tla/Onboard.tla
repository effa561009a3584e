------------------------------- MODULE Onboard -------------------------------
(***************************************************************************)
(* `nid onboard` (crates/nid-cli/src/cmd/onboard.rs) and the installer it  *)
(* calls (crates/nid-hooks/src/installer.rs): the plan over the detected   *)
(* agents, the merge of nid's hook into each agent's configuration, the    *)
(* backup of the originals, the registry of what was installed, which      *)
(* `nid doctor` compares with the files, and `--uninstall [--purge]`.      *)
(*                                                                         *)
(* One onboard command at a time; the user, or the agent itself, may write *)
(* a configuration between any two of its steps.  A file is replaced by a  *)
(* rename (atomic_write), so a step is one file read or one replacement.   *)
(* A configuration is what the code can tell of it: the user's text, the   *)
(* binaries whose hook is in it, and whether the bytes are as the user     *)
(* wrote them or as serde_json printed them.                               *)
(***************************************************************************)
EXTENDS Naturals, Sequences

CONSTANTS
  AgentOrder,   \* AgentKind::all(): the agents, in the order they are detected
  Wrapped,      \* those without a hook API, wrapped by a line in a YAML file
  Binaries,     \* the paths nid may be run from
  Prefix,       \* the value of that line
  Texts,        \* what users write in a configuration
  Blank,        \* an empty file, or an empty object
  Broken,       \* the texts that are no JSON object: the merge ends in an error
  Closed,       \* the texts that take no entry: the key is there, not a list
  NoFile,
  NoBackup,
  MaxMoves      \* bound: commands begun or cut short, and edits

Agents == {AgentOrder[i] : i \in 1 .. Len(AgentOrder)}

ASSUME AgentsAssumption == AgentOrder \in Seq(Agents) /\ Wrapped \subseteq Agents
ASSUME TextsAssumption ==
  Blank \in Texts /\ Broken \subseteq Texts \ {Blank} /\ Closed \subseteq Texts \ {Blank}
ASSUME HooksAssumption == Prefix \notin Binaries
ASSUME MovesAssumption == MaxMoves \in Nat

VARIABLES
  config,     \* the configuration of each agent
  backup,     \* onboard.backup.json: the original of each agent it lists
  registry,   \* agent_registry: the content each agent's row has the hash of
  job,        \* the onboard command under way
  installed,  \* history: an onboarding began that no clean uninstall undid
  pristine,   \* history: the configurations as the user last wrote them
  mishaps,    \* history: what happened since, that the originals may not survive
  moves       \* history: the moves counted

onboardVars == <<config, backup, registry, job, installed, pristine, mishaps, moves>>
history == <<installed, pristine, mishaps, moves>>

\* form: the bytes of the user, or those of serde_json.
Contents == [text : Texts, form : {"user", "nid"}, hooks : SUBSET (Binaries \cup {Prefix})]
Files    == Contents \cup {NoFile}
Mishaps  == {"again", "partly", "abort", "edit", "raced", "purged", "stale"}

ASSUME NoFileAssumption ==
  NoFile \notin Contents /\ \A s \in SUBSET Agents : NoBackup \notin [s -> Files]

\* left: the agents still to do; taken: the originals read so far.
Idle == [op |-> "none", left |-> {}, bin |-> Prefix, taken |-> <<>>]

\* A backup, or the rows of a table, is a map of some of the agents.
Maps(f, S) == DOMAIN f \subseteq Agents /\ f \in [DOMAIN f -> S]

OnboardTypeOK ==
  /\ config \in [Agents -> Files]
  /\ backup # NoBackup => Maps(backup, Files)
  /\ Maps(registry, Contents)
  /\ job.op \in {"none", "apply", "record", "uninstall"}
  /\ job.left \subseteq Agents
  /\ job.bin \in Binaries \cup {Prefix}
  /\ Maps(job.taken, Files)
  /\ installed \in BOOLEAN
  /\ pristine \in [Agents -> Files]
  /\ mishaps \in SUBSET Mishaps
  /\ moves \in 0 .. MaxMoves

\* Any set of configurations that nid has not touched yet.
OnboardInit ==
  /\ config \in [Agents -> {NoFile} \cup [text : Texts, form : {"user"}, hooks : {{}}]]
  /\ backup = NoBackup
  /\ registry = <<>>
  /\ job = Idle
  /\ installed = FALSE
  /\ pristine = config
  /\ mishaps = {}
  /\ moves = 0

Move == moves < MaxMoves /\ moves' = moves + 1

-----------------------------------------------------------------------------
(* The merge: merge_hook_into, inject_claude_code, inject_simple and       *)
(* merge_aider_yaml.                                                       *)

Existing(c, form) == IF c = NoFile THEN [text |-> Blank, form |-> form, hooks |-> {}] ELSE c

\* The entry is added unless one names this binary already; the document is
\* printed anew.  The YAML file has a line appended unless it has the key.
Merged(a, c, b) ==
  LET old == Existing(c, "nid")
      more == IF old.text \in Closed THEN {} ELSE IF a \in Wrapped THEN {Prefix} ELSE {b}
  IN  [text |-> old.text, hooks |-> old.hooks \cup more,
       form |-> IF a \in Wrapped THEN old.form ELSE "nid"]

\* The ? on serde_json, or the unwrap on a document that is not an object.
MergeFails(a, c) == a \notin Wrapped /\ c # NoFile /\ c.text \in Broken

Put(f, a, x) == [b \in DOMAIN f \cup {a} |-> IF b = a THEN x ELSE f[b]]
Hooked(c) == c # NoFile /\ c.hooks # {}

\* onboard::plan: every detected agent that --agents names, in order: the one
\* whose turn it is, of those still to do.
Due ==
  AgentOrder[CHOOSE i \in 1 .. Len(AgentOrder) :
    AgentOrder[i] \in job.left /\ \A j \in 1 .. i - 1 : AgentOrder[j] \notin job.left]

-----------------------------------------------------------------------------
(* nid onboard --non-interactive | --reconfigure  [--agents ..]            *)

BeginApply ==
  /\ Move
  /\ job = Idle
  /\ \E filter \in SUBSET Agents, b \in Binaries :
       /\ job' = [op |-> "apply", left |-> filter, bin |-> b, taken |-> <<>>]
       /\ mishaps' = mishaps
            \cup (IF installed THEN {"again"} ELSE {})
            \cup (IF installed /\ backup # NoBackup /\ ~(DOMAIN backup \subseteq filter)
                  THEN {"partly"} ELSE {})
  /\ installed' = TRUE
  /\ UNCHANGED <<config, backup, registry, pristine>>

\* The original is read into the backup that apply builds in memory.
ReadOriginal ==
  /\ job.op = "apply" /\ job.left # {}
  /\ Due \notin DOMAIN job.taken
  /\ job' = [job EXCEPT !.taken = Put(@, Due, config[Due])]
  /\ UNCHANGED <<config, backup, registry, history>>

\* The file is replaced by the merge of what was read.
WriteHook ==
  /\ job.op = "apply" /\ job.left # {}
  /\ LET a == Due IN
       /\ a \in DOMAIN job.taken
       /\ ~MergeFails(a, job.taken[a])
       /\ config' = [config EXCEPT ![a] = Merged(a, job.taken[a], job.bin)]
       /\ job' = [job EXCEPT !.left = @ \ {Due}]
  /\ UNCHANGED <<backup, registry, history>>

\* apply ends midway: the files done so far keep the hook, no backup is written.
FailMerge ==
  /\ job.op = "apply" /\ job.left # {}
  /\ Due \in DOMAIN job.taken
  /\ MergeFails(Due, job.taken[Due])
  /\ job' = Idle
  /\ mishaps' = mishaps \cup {"abort"}
  /\ UNCHANGED <<config, backup, registry, installed, pristine, moves>>

\* Mutant of WriteBackup: the backup is not written if there is one.
WriteBackupOnce ==
  /\ job.op = "apply" /\ job.left = {}
  /\ backup' = IF backup = NoBackup THEN job.taken ELSE backup
  /\ job' = [job EXCEPT !.op = "record", !.left = DOMAIN job.taken]
  /\ UNCHANGED <<config, registry, history>>

\* When every file is done the backup replaces whatever backup there was.
WriteBackup ==
  /\ job.op = "apply" /\ job.left = {}
  /\ backup' = job.taken
  /\ job' = [job EXCEPT !.op = "record", !.left = DOMAIN job.taken]
  /\ UNCHANGED <<config, registry, history>>

\* Mutant of RecordHook: the hash is of the original, not of the file as it is now.
RecordOriginal ==
  /\ job.op = "record" /\ job.left # {}
  /\ LET a == Due IN
       registry' = IF job.taken[a] = NoFile THEN registry ELSE Put(registry, a, job.taken[a])
  /\ job' = [job EXCEPT !.left = @ \ {Due}]
  /\ UNCHANGED <<config, backup, history>>

\* The row of each planned agent gets the hash of the file as it is read now;
\* an agent without a file, or a failed upsert, leaves its row as it was.
RecordHook ==
  /\ job.op = "record" /\ job.left # {}
  /\ LET a == Due IN
       \/ config[a] # NoFile /\ registry' = Put(registry, a, config[a])
       \/ UNCHANGED registry
  /\ job' = [job EXCEPT !.left = @ \ {Due}]
  /\ UNCHANGED <<config, backup, history>>

EndApply ==
  /\ job.op = "record" /\ job.left = {}
  /\ job' = Idle
  /\ UNCHANGED <<config, backup, registry, history>>

-----------------------------------------------------------------------------
(* nid onboard --uninstall [--purge].                                      *)

\* The backup is read; without one the command says so and ends.  A backup
\* outlives the uninstall: a second one takes the files back to it once more.
BeginUninstall ==
  /\ Move
  /\ job = Idle /\ backup # NoBackup
  /\ job' = [op |-> "uninstall", left |-> DOMAIN backup, bin |-> Prefix,
             taken |-> backup]
  /\ mishaps' = IF installed THEN mishaps ELSE {"stale"}
  /\ installed' = TRUE
  /\ UNCHANGED <<config, backup, registry, pristine>>

\* Mutant of RestoreConfig: a file that onboarding created is left behind.
RestoreKnown ==
  /\ job.op = "uninstall" /\ job.left # {}
  /\ \E a \in job.left :
       /\ config' = IF job.taken[a] = NoFile THEN config
                    ELSE [config EXCEPT ![a] = job.taken[a]]
       /\ job' = [job EXCEPT !.left = @ \ {a}]
  /\ UNCHANGED <<backup, registry, history>>

\* The original is written back, or the file that was not there is removed, one
\* agent after the other in the order of their names, which is left open here.
RestoreConfig ==
  /\ job.op = "uninstall" /\ job.left # {}
  /\ \E a \in job.left :
       /\ config' = [config EXCEPT ![a] = job.taken[a]]
       /\ job' = [job EXCEPT !.left = @ \ {a}]
  /\ UNCHANGED <<backup, registry, history>>

\* Backup and registry stay, unless --purge removes the data and the
\* configuration directories.
EndUninstall ==
  /\ job.op = "uninstall" /\ job.left = {}
  /\ job' = Idle
  /\ installed' = (mishaps # {})
  /\ \/ UNCHANGED <<backup, registry, mishaps>>
     \/ /\ backup' = NoBackup /\ registry' = <<>>
        /\ mishaps' = IF mishaps = {} THEN {} ELSE mishaps \cup {"purged"}
  /\ UNCHANGED <<config, pristine, moves>>

-----------------------------------------------------------------------------
(* The environment.                                                        *)

\* The command is killed, or fails on a file or on the database.
Abort ==
  /\ Move
  /\ job # Idle
  /\ job' = Idle
  /\ mishaps' = IF job.op = "apply" THEN mishaps \cup {"abort"} ELSE mishaps
  /\ UNCHANGED <<config, backup, registry, installed, pristine>>

\* The user writes a configuration anew, keeps or drops nid's entries, or
\* removes the file.
EditConfig ==
  /\ Move
  /\ \E a \in Agents :
       \E c \in {NoFile} \cup
           [text : Texts, form : {"user"},
            hooks : SUBSET (IF config[a] = NoFile THEN {} ELSE config[a].hooks)] :
         /\ c # config[a]
         /\ config' = [config EXCEPT ![a] = c]
         /\ pristine' = IF installed THEN pristine ELSE [pristine EXCEPT ![a] = c]
  /\ mishaps' = mishaps \cup (IF installed THEN {"edit"} ELSE {})
                        \cup (IF job.op \in {"apply", "record"} THEN {"raced"} ELSE {})
  /\ UNCHANGED <<backup, registry, job, installed>>

OnboardNext ==
  \/ BeginApply \/ ReadOriginal \/ WriteHook \/ FailMerge \/ WriteBackup
  \/ RecordHook \/ EndApply
  \/ BeginUninstall \/ RestoreConfig \/ EndUninstall
  \/ Abort \/ EditConfig

OnboardSpec == OnboardInit /\ [][OnboardNext]_onboardVars

-----------------------------------------------------------------------------
(* Properties.                                                             *)

\* doctor.rs: the state of an agent's hook.
Doctor(a) ==
  CASE a \notin DOMAIN registry  -> "unlisted"
    [] a \in DOMAIN registry /\ config[a] = NoFile -> "missing"
    [] a \in DOMAIN registry /\ config[a] # NoFile ->
         IF config[a] = registry[a] THEN "ok" ELSE "drift"

\* Uninstall always has an original for every hooked configuration, unless an
\* onboarding was cut short, left out an agent hooked before, or the backup was
\* purged: the loop of apply writes the files before the backup (installer.rs:33).
HookedCovered ==
  job = Idle /\ mishaps \cap {"abort", "partly", "purged"} = {} =>
    \A a \in Agents : Hooked(config[a]) => backup # NoBackup /\ a \in DOMAIN backup

\* "Restore byte-perfect from a backup file" (installer.rs:69): after an
\* uninstall, and whatever was cut short in one before it, every configuration
\* is again what the user last wrote, if one onboarding is all that went before.
RoundTrip == ~installed => config = pristine

\* The same where the only other thing that happened is that onboarding was
\* repeated, as --reconfigure is for.
UninstallRestores ==
  [][EndUninstall /\ mishaps \subseteq {"again"} => config' = pristine]_onboardVars

\* When `nid doctor` says the hook is OK there is a hook, unless the file takes
\* none or was written by another hand while the onboarding ran: the hash is of
\* the file as it is after the last write, not of what was written.
DoctorAgrees ==
  \A a \in Agents :
    job = Idle /\ "raced" \notin mishaps /\ Doctor(a) = "ok" =>
      Hooked(config[a]) \/ config[a].text \in Closed
=============================================================================
