----------------------------- MODULE InstallProofs -----------------------------
(***************************************************************************)
(* What is proved of the installer of the hooks (Onboard), of the hook     *)
(* (HookRewrite), of the capture of a command's output (Capture) and of    *)
(* the fingerprint (Fingerprint): the safety properties of the run         *)
(* `install` for every set of agents, every command and every size, each   *)
(* from an invariant that its steps preserve.  Last, what the seven parts  *)
(* of MCInstall keep while they move side by side.                         *)
(***************************************************************************)
EXTENDS MCInstall, SigningProofs, SequenceTheorems

-----------------------------------------------------------------------------
(* The installer.                                                          *)

Written(c) == c # NoFile /\ (Hooked(c) \/ c.text \in Closed)

\* Before an onboarding, and after a clean uninstall, there is nothing of nid's.
Fresh ==
  /\ \A a \in Agents : ~Hooked(pristine[a])
  /\ ~installed => mishaps = {} /\ job = Idle /\ config = pristine

\* What the command under way has read, or will write back.
JobOK ==
  /\ job = [op |-> job.op, left |-> job.left, bin |-> job.bin, taken |-> job.taken]
  /\ job.op = "none" => job = Idle
  /\ job.op = "record" => backup = job.taken /\ job.left \subseteq DOMAIN job.taken
  /\ job.op = "uninstall" => backup = job.taken /\ job.left \subseteq DOMAIN job.taken

Changed(a) == config[a] # pristine[a]

AsFound(f) == \A a \in DOMAIN f : f[a] = pristine[a]

\* One onboarding, undisturbed.
Clean ==
  mishaps = {} /\ installed =>
    /\ job.op = "none" =>
         backup # NoBackup /\ AsFound(backup) /\ \A a \in Agents : Changed(a) => a \in DOMAIN backup
    /\ job.op # "none" => AsFound(job.taken)
    /\ job.op \in {"apply", "record"} => \A a \in Agents : Changed(a) => a \in DOMAIN job.taken
    /\ job.op = "uninstall" => \A a \in Agents : Changed(a) => a \in job.left

Cover ==
  mishaps \cap {"abort", "partly", "purged"} = {} =>
    \A a \in Agents : Hooked(config[a]) =>
      /\ job.op = "none" => backup # NoBackup /\ a \in DOMAIN backup
      /\ job.op = "apply" => a \in job.left \cup DOMAIN job.taken
      /\ job.op \in {"record", "uninstall"} => a \in DOMAIN job.taken

Recorded ==
  "raced" \notin mishaps =>
    /\ \A a \in DOMAIN registry : Written(registry[a])
    /\ job.op = "apply" => \A a \in DOMAIN job.taken \ job.left : Written(config[a])
    /\ job.op = "record" => \A a \in job.left : Written(config[a])

OnboardInv == OnboardTypeOK /\ Fresh /\ JobOK /\ Clean /\ Cover /\ Recorded

-----------------------------------------------------------------------------
LEMMA DueIsLeft ==
  ASSUME job.left \subseteq Agents, job.left # {}
  PROVE  Due \in job.left
<1> DEFINE T == {i \in 1 .. Len(AgentOrder) : AgentOrder[i] \in job.left}
<1>1. T # {} /\ T \subseteq Nat
  <2>1. PICK a \in job.left : a \in Agents
    OBVIOUS
  <2>2. PICK i \in 1 .. Len(AgentOrder) : AgentOrder[i] = a
    BY <2>1 DEF Agents
  <2>3. i \in T
    BY <2>1, <2>2
  <2>4. Len(AgentOrder) \in Nat
    BY AgentsAssumption
  <2> QED
    BY <2>3, <2>4
<1>2. PICK k \in T : \A j \in T : k <= j
  <2> HIDE DEF T
  <2> QED
    BY <1>1, LeastNumber
<1>3. \A j \in 1 .. k - 1 : AgentOrder[j] \notin job.left
  <2> SUFFICES ASSUME NEW j \in 1 .. k - 1, AgentOrder[j] \in job.left PROVE FALSE
    OBVIOUS
  <2>1. Len(AgentOrder) \in Nat
    BY AgentsAssumption
  <2>2. j \in T
    BY <2>1
  <2> QED
    BY <1>2, <2>1, <2>2
<1> QED
  BY <1>2, <1>3 DEF Due

LEMMA PutMaps ==
  ASSUME NEW F, NEW f, Maps(f, F), NEW a \in Agents, NEW x \in F
  PROVE  Maps(Put(f, a, x), F)
<1>1. Put(f, a, x) \in [DOMAIN f \cup {a} -> F]
  BY DEF Put, Maps
<1> QED
  BY <1>1 DEF Put, Maps

LEMMA EmptyMaps ==
  ASSUME NEW F
  PROVE  Maps(<<>>, F) /\ DOMAIN <<>> = {}
<1>1. <<>> \in [{} -> F] /\ DOMAIN <<>> = {}
  OBVIOUS
<1> QED
  BY <1>1 DEF Maps

LEMMA MergedIs ==
  ASSUME NEW a \in Agents, NEW c \in Files, NEW b \in Binaries \cup {Prefix}
  PROVE  Merged(a, c, b) \in Contents /\ Written(Merged(a, c, b))
<1> DEFINE old == Existing(c, "nid")
           more == IF old.text \in Closed THEN {} ELSE IF a \in Wrapped THEN {Prefix} ELSE {b}
           m == Merged(a, c, b)
<1>1. old \in Contents
  BY TextsAssumption DEF Existing, Files, Contents
<1>2. m = [text |-> old.text, hooks |-> old.hooks \cup more,
           form |-> IF a \in Wrapped THEN old.form ELSE "nid"]
  BY DEF Merged
<1>3. more \subseteq Binaries \cup {Prefix} /\ (old.text \notin Closed => more # {})
  OBVIOUS
<1> HIDE DEF old, more, m
<1>4. m \in Contents
  BY <1>1, <1>2, <1>3 DEF Contents
<1>5. m # NoFile
  BY <1>4, NoFileAssumption
<1>6. m.hooks # {} \/ m.text \in Closed
  BY <1>2, <1>3
<1>7. Written(m)
  BY <1>5, <1>6 DEF Written, Hooked
<1> QED
  BY <1>4, <1>7 DEF m

-----------------------------------------------------------------------------
LEMMA OnboardInitInv == OnboardInit => OnboardInv
<1> SUFFICES ASSUME OnboardInit PROVE OnboardInv
  OBVIOUS
<1> USE DEF OnboardInit
<1>1. [text : Texts, form : {"user"}, hooks : {{}}] \subseteq Contents
  BY DEF Contents
<1>2. OnboardTypeOK
  <2>1. config \in [Agents -> Files]
    BY <1>1 DEF Files
  <2>2. Maps(registry, Contents) /\ Maps(job.taken, Files)
    BY EmptyMaps DEF Idle
  <2>3. job.op = "none" /\ job.left = {} /\ job.bin = Prefix
    BY DEF Idle
  <2>4. /\ backup = NoBackup /\ installed = FALSE /\ pristine = config /\ mishaps = {}
        /\ moves \in 0 .. MaxMoves
    BY MovesAssumption
  <2> HIDE DEF OnboardInit
  <2> QED
    BY <2>1, <2>2, <2>3, <2>4 DEF OnboardTypeOK
<1>3. \A a \in Agents : ~Hooked(config[a])
  BY DEF Hooked
<1>4. DOMAIN registry = {}
  BY EmptyMaps
<1> QED
  BY <1>2, <1>3, <1>4
  DEF OnboardInv, Fresh, JobOK, Clean, Cover, Recorded, Idle, Hooked

LEMMA BeginApplyInv == OnboardInv /\ BeginApply => OnboardInv'
<1> SUFFICES ASSUME OnboardInv, BeginApply PROVE OnboardInv'
  OBVIOUS
<1>1. PICK filter \in SUBSET Agents, b \in Binaries :
        /\ job' = [op |-> "apply", left |-> filter, bin |-> b, taken |-> <<>>]
        /\ mishaps' = mishaps
            \cup (IF installed THEN {"again"} ELSE {})
            \cup (IF installed /\ backup # NoBackup /\ ~(DOMAIN backup \subseteq filter)
                  THEN {"partly"} ELSE {})
  BY DEF BeginApply
<1>2. /\ job = Idle /\ installed' = TRUE
      /\ UNCHANGED <<config, backup, registry, pristine>>
      /\ moves < MaxMoves /\ moves' = moves + 1
  BY DEF BeginApply, Move
<1>3. Maps(<<>>, Files) /\ DOMAIN <<>> = {}
  BY EmptyMaps
<1> USE DEF OnboardInv
<1>4. OnboardTypeOK'
  <2>1. moves' \in 0 .. MaxMoves
    BY <1>2, MovesAssumption DEF OnboardTypeOK
  <2>2. mishaps' \in SUBSET Mishaps
    BY <1>1 DEF OnboardTypeOK, Mishaps
  <2>3. job'.op = "apply" /\ job'.left \subseteq Agents /\ job'.bin \in Binaries \cup {Prefix}
        /\ Maps(job'.taken, Files)
    BY <1>1, <1>3
  <2> QED
    BY <1>2, <2>1, <2>2, <2>3 DEF OnboardTypeOK
<1>5. Fresh'
  BY <1>2 DEF Fresh
<1>6. JobOK'
  BY <1>1 DEF JobOK
<1>7. Clean'
  BY <1>1, <1>2, <1>3 DEF Clean, Fresh, Changed, AsFound
<1>8. Cover'
  <2> SUFFICES ASSUME mishaps' \cap {"abort", "partly", "purged"} = {},
                      NEW a \in Agents, Hooked(config[a])
               PROVE  a \in filter
    BY <1>1, <1>2 DEF Cover
  <2>1. mishaps \cap {"abort", "partly", "purged"} = {}
    BY <1>1
  <2>2. backup # NoBackup /\ a \in DOMAIN backup
    BY <1>2, <2>1 DEF Cover, Idle
  <2>3. installed
    BY <1>2 DEF Fresh
  <2>4. DOMAIN backup \subseteq filter
    BY <1>1, <2>2, <2>3
  <2> QED
    BY <2>2, <2>4
<1>9. Recorded'
  BY <1>1, <1>2, <1>3 DEF Recorded
<1> QED
  BY <1>4, <1>5, <1>6, <1>7, <1>8, <1>9

LEMMA ReadOriginalInv == OnboardInv /\ ReadOriginal => OnboardInv'
<1> SUFFICES ASSUME OnboardInv, ReadOriginal PROVE OnboardInv'
  OBVIOUS
<1> USE DEF OnboardInv
<1>1. PICK a : a = Due
  OBVIOUS
<1>2. /\ job.op = "apply" /\ a \in job.left /\ a \in Agents /\ a \notin DOMAIN job.taken
      /\ job' = [job EXCEPT !.taken = Put(@, a, config[a])]
      /\ UNCHANGED <<config, backup, registry, installed, pristine, mishaps, moves>>
  BY <1>1, DueIsLeft DEF ReadOriginal, OnboardTypeOK, history
<1>3. config[a] \in Files
  BY <1>2 DEF OnboardTypeOK
<1> DEFINE t == Put(job.taken, a, config[a])
<1>4. Maps(t, Files) /\ DOMAIN t = DOMAIN job.taken \cup {a} /\ t[a] = config[a]
      /\ \A b \in DOMAIN job.taken \ {a} : t[b] = job.taken[b]
  <2>1. Maps(job.taken, Files)
    BY DEF OnboardTypeOK
  <2>2. Maps(Put(job.taken, a, config[a]), Files)
    BY <1>2, <1>3, <2>1, PutMaps
  <2> QED
    BY <2>2 DEF Put
<1>5. job' = [op |-> job.op, left |-> job.left, bin |-> job.bin, taken |-> t]
  BY <1>2 DEF JobOK
<1> HIDE DEF t
<1>6. OnboardTypeOK'
  BY <1>2, <1>4, <1>5 DEF OnboardTypeOK
<1>7. Fresh'
  <2>1. installed
    BY <1>2 DEF Fresh, Idle
  <2> QED
    BY <1>2, <2>1 DEF Fresh
<1>8. JobOK'
  BY <1>2, <1>5 DEF JobOK
<1>9. Clean'
  BY <1>2, <1>4, <1>5 DEF Clean, Changed, AsFound
<1>10. Cover'
  BY <1>2, <1>4, <1>5 DEF Cover
<1>11. Recorded'
  BY <1>2, <1>4, <1>5 DEF Recorded
<1> QED
  BY <1>6, <1>7, <1>8, <1>9, <1>10, <1>11

LEMMA WriteHookInv == OnboardInv /\ WriteHook => OnboardInv'
<1> SUFFICES ASSUME OnboardInv, WriteHook PROVE OnboardInv'
  OBVIOUS
<1> USE DEF OnboardInv
<1>1. PICK a : a = Due
  OBVIOUS
<1>2. /\ job.op = "apply" /\ a \in job.left /\ a \in Agents /\ a \in DOMAIN job.taken
      /\ config' = [config EXCEPT ![a] = Merged(a, job.taken[a], job.bin)]
      /\ job' = [job EXCEPT !.left = @ \ {a}]
      /\ UNCHANGED <<backup, registry, installed, pristine, mishaps, moves>>
  BY <1>1, DueIsLeft DEF WriteHook, OnboardTypeOK, history
<1>3. PICK m : m = Merged(a, job.taken[a], job.bin)
  OBVIOUS
<1>4. m \in Contents /\ Written(m)
  BY <1>2, <1>3, MergedIs DEF OnboardTypeOK, Maps
<1>5. config' = [config EXCEPT ![a] = m]
  BY <1>2, <1>3
<1>6. job' = [op |-> job.op, left |-> job.left \ {a}, bin |-> job.bin, taken |-> job.taken]
  BY <1>2 DEF JobOK
<1>7. config \in [Agents -> Files]
  BY DEF OnboardTypeOK
<1>8. OnboardTypeOK'
  BY <1>2, <1>4, <1>5, <1>6 DEF OnboardTypeOK, Files
<1>9. Fresh'
  <2>1. installed
    BY <1>2 DEF Fresh, Idle
  <2> QED
    BY <1>2, <2>1 DEF Fresh
<1>10. JobOK'
  BY <1>2, <1>6 DEF JobOK
<1>11. Clean'
  BY <1>2, <1>5, <1>6, <1>7 DEF Clean, Changed, AsFound
<1>12. Cover'
  BY <1>2, <1>5, <1>6, <1>7 DEF Cover
<1>13. Recorded'
  BY <1>2, <1>4, <1>5, <1>6, <1>7 DEF Recorded, OnboardTypeOK, Maps
<1> QED
  BY <1>8, <1>9, <1>10, <1>11, <1>12, <1>13

LEMMA FailMergeInv == OnboardInv /\ FailMerge => OnboardInv'
<1> SUFFICES ASSUME OnboardInv, FailMerge PROVE OnboardInv'
  OBVIOUS
<1> USE DEF OnboardInv
<1>1. /\ job.op = "apply" /\ job' = Idle /\ mishaps' = mishaps \cup {"abort"}
      /\ UNCHANGED <<config, backup, registry, installed, pristine, moves>>
  BY DEF FailMerge
<1>2. OnboardTypeOK'
  BY <1>1, EmptyMaps DEF OnboardTypeOK, Idle, Mishaps
<1>3. Fresh'
  <2>1. installed
    BY <1>1 DEF Fresh, Idle
  <2> QED
    BY <1>1, <2>1 DEF Fresh
<1>4. JobOK'
  BY <1>1 DEF JobOK, Idle
<1>5. Clean' /\ Cover'
  BY <1>1 DEF Clean, Cover
<1>6. Recorded'
  BY <1>1 DEF Recorded, Idle
<1> QED
  BY <1>2, <1>3, <1>4, <1>5, <1>6

LEMMA WriteBackupInv == OnboardInv /\ WriteBackup => OnboardInv'
<1> SUFFICES ASSUME OnboardInv, WriteBackup PROVE OnboardInv'
  OBVIOUS
<1> USE DEF OnboardInv
<1>1. /\ job.op = "apply" /\ job.left = {} /\ backup' = job.taken
      /\ UNCHANGED <<config, registry, installed, pristine, mishaps, moves>>
  BY DEF WriteBackup, history
<1>2. job' = [op |-> "record", left |-> DOMAIN job.taken, bin |-> job.bin, taken |-> job.taken]
  BY DEF WriteBackup, JobOK
<1>3. OnboardTypeOK'
  BY <1>1, <1>2 DEF OnboardTypeOK, Maps
<1>4. Fresh'
  <2>1. installed
    BY <1>1 DEF Fresh, Idle
  <2> QED
    BY <1>1, <2>1 DEF Fresh
<1>5. JobOK'
  BY <1>1, <1>2 DEF JobOK
<1>6. Clean'
  BY <1>1, <1>2 DEF Clean, Changed, AsFound
<1>7. Cover'
  BY <1>1, <1>2 DEF Cover
<1>8. Recorded'
  BY <1>1, <1>2 DEF Recorded
<1> QED
  BY <1>3, <1>4, <1>5, <1>6, <1>7, <1>8

LEMMA RecordHookInv == OnboardInv /\ RecordHook => OnboardInv'
<1> SUFFICES ASSUME OnboardInv, RecordHook PROVE OnboardInv'
  OBVIOUS
<1> USE DEF OnboardInv
<1>1. PICK a : a = Due
  OBVIOUS
<1>2. /\ job.op = "record" /\ a \in job.left /\ a \in Agents
      /\ \/ config[a] # NoFile /\ registry' = Put(registry, a, config[a])
         \/ registry' = registry
      /\ job' = [job EXCEPT !.left = @ \ {a}]
      /\ UNCHANGED <<config, backup, installed, pristine, mishaps, moves>>
  BY <1>1, DueIsLeft DEF RecordHook, OnboardTypeOK, history
<1>3. job' = [op |-> job.op, left |-> job.left \ {a}, bin |-> job.bin, taken |-> job.taken]
  BY <1>2 DEF JobOK
<1>4. Maps(registry, Contents)
  BY DEF OnboardTypeOK
<1>5. /\ Maps(registry', Contents)
      /\ \A b \in DOMAIN registry' :
           \/ b \in DOMAIN registry /\ registry'[b] = registry[b]
           \/ b = a /\ registry'[b] = config[a]
  <2>1. CASE registry' = registry
    BY <1>4, <2>1
  <2>2. CASE config[a] # NoFile /\ registry' = Put(registry, a, config[a])
    <3>1. config[a] \in Contents
      BY <1>2, <2>2 DEF OnboardTypeOK, Files
    <3>2. PICK x : x = config[a]
      OBVIOUS
    <3>3. Maps(Put(registry, a, x), Contents)
      BY <1>2, <1>4, <3>1, <3>2, PutMaps
    <3>4. registry' = Put(registry, a, x)
      BY <2>2, <3>2
    <3>5. \A b \in DOMAIN registry' : \/ b \in DOMAIN registry /\ registry'[b] = registry[b]
                                      \/ b = a /\ registry'[b] = x
      BY <3>4 DEF Put
    <3> QED
      BY <3>2, <3>3, <3>4, <3>5
  <2> QED
    BY <1>2, <2>1, <2>2
<1>6. OnboardTypeOK'
  BY <1>2, <1>3, <1>5 DEF OnboardTypeOK
<1>7. Fresh'
  <2>1. installed
    BY <1>2 DEF Fresh, Idle
  <2> QED
    BY <1>2, <2>1 DEF Fresh
<1>8. JobOK'
  BY <1>2, <1>3 DEF JobOK
<1>9. Clean'
  BY <1>2, <1>3 DEF Clean, Changed, AsFound
<1>10. Cover'
  BY <1>2, <1>3 DEF Cover
<1>11. Recorded'
  BY <1>2, <1>3, <1>5 DEF Recorded
<1> QED
  BY <1>6, <1>7, <1>8, <1>9, <1>10, <1>11

LEMMA EndApplyInv == OnboardInv /\ EndApply => OnboardInv'
<1> SUFFICES ASSUME OnboardInv, EndApply PROVE OnboardInv'
  OBVIOUS
<1> USE DEF OnboardInv
<1>1. /\ job.op = "record" /\ job.left = {} /\ job' = Idle
      /\ UNCHANGED <<config, backup, registry, installed, pristine, mishaps, moves>>
  BY DEF EndApply, history
<1>2. backup = job.taken /\ Maps(backup, Files) /\ backup # NoBackup
  <2>1. backup = job.taken /\ Maps(backup, Files)
    BY <1>1 DEF JobOK, OnboardTypeOK
  <2> QED
    BY <2>1, NoFileAssumption DEF Maps
<1>3. OnboardTypeOK'
  BY <1>1, EmptyMaps DEF OnboardTypeOK, Idle
<1>4. Fresh' /\ JobOK'
  <2>1. installed
    BY <1>1 DEF Fresh, Idle
  <2> QED
    BY <1>1, <2>1 DEF Fresh, JobOK, Idle
<1>5. Clean'
  BY <1>1, <1>2 DEF Clean, Changed, AsFound, Idle
<1>6. Cover'
  BY <1>1, <1>2 DEF Cover, Idle
<1>7. Recorded'
  BY <1>1 DEF Recorded, Idle
<1> QED
  BY <1>3, <1>4, <1>5, <1>6, <1>7

LEMMA BeginUninstallInv == OnboardInv /\ BeginUninstall => OnboardInv'
<1> SUFFICES ASSUME OnboardInv, BeginUninstall PROVE OnboardInv'
  OBVIOUS
<1> USE DEF OnboardInv
<1>1. /\ job = Idle /\ backup # NoBackup /\ installed' = TRUE
      /\ job' = [op |-> "uninstall", left |-> DOMAIN backup, bin |-> Prefix, taken |-> backup]
      /\ mishaps' = IF installed THEN mishaps ELSE {"stale"}
      /\ UNCHANGED <<config, backup, registry, pristine>>
  BY DEF BeginUninstall
<1>2. moves' \in 0 .. MaxMoves
  BY MovesAssumption DEF BeginUninstall, Move, OnboardTypeOK
<1>3. Maps(backup, Files)
  BY <1>1 DEF OnboardTypeOK
<1>4. OnboardTypeOK'
  <2>1. mishaps' \in SUBSET Mishaps
    BY <1>1 DEF OnboardTypeOK, Mishaps
  <2> QED
    BY <1>1, <1>2, <1>3, <2>1 DEF OnboardTypeOK, Maps
<1>5. Fresh' /\ JobOK'
  BY <1>1 DEF Fresh, JobOK
<1>6. Clean'
  BY <1>1 DEF Clean, Changed, AsFound, Idle
<1>7. Cover'
  <2> SUFFICES ASSUME mishaps' \cap {"abort", "partly", "purged"} = {},
                      NEW a \in Agents, Hooked(config[a])
               PROVE  a \in DOMAIN backup
    BY <1>1 DEF Cover
  <2>1. mishaps \cap {"abort", "partly", "purged"} = {}
    BY <1>1 DEF Fresh
  <2> QED
    BY <1>1, <2>1 DEF Cover, Idle
<1>8. Recorded'
  BY <1>1 DEF Recorded, Fresh
<1> QED
  BY <1>4, <1>5, <1>6, <1>7, <1>8

LEMMA RestoreConfigInv == OnboardInv /\ RestoreConfig => OnboardInv'
<1> SUFFICES ASSUME OnboardInv, RestoreConfig PROVE OnboardInv'
  OBVIOUS
<1> USE DEF OnboardInv
<1>1. PICK a \in job.left : /\ config' = [config EXCEPT ![a] = job.taken[a]]
                            /\ job' = [job EXCEPT !.left = @ \ {a}]
  BY DEF RestoreConfig
<1>2. /\ job.op = "uninstall" /\ a \in job.left /\ a \in Agents
      /\ config' = [config EXCEPT ![a] = job.taken[a]]
      /\ job' = [job EXCEPT !.left = @ \ {a}]
      /\ UNCHANGED <<backup, registry, installed, pristine, mishaps, moves>>
  BY <1>1 DEF RestoreConfig, OnboardTypeOK, history
<1>3. job' = [op |-> job.op, left |-> job.left \ {a}, bin |-> job.bin, taken |-> job.taken]
  BY <1>2 DEF JobOK
<1>4. a \in DOMAIN job.taken /\ job.taken[a] \in Files
  BY <1>2 DEF JobOK, OnboardTypeOK, Maps
<1>5. config \in [Agents -> Files]
  BY DEF OnboardTypeOK
<1>6. OnboardTypeOK'
  BY <1>2, <1>3, <1>4 DEF OnboardTypeOK
<1>7. Fresh' /\ JobOK'
  <2>1. installed
    BY <1>2 DEF Fresh, Idle
  <2> QED
    BY <1>2, <1>3, <2>1 DEF Fresh, JobOK
<1>8. Clean'
  BY <1>2, <1>3, <1>4, <1>5 DEF Clean, Changed, AsFound
<1>9. Cover'
  BY <1>2, <1>3, <1>4, <1>5 DEF Cover
<1>10. Recorded'
  BY <1>2, <1>3 DEF Recorded
<1> QED
  BY <1>6, <1>7, <1>8, <1>9, <1>10

LEMMA EndUninstallInv == OnboardInv /\ EndUninstall => OnboardInv'
<1> SUFFICES ASSUME OnboardInv, EndUninstall PROVE OnboardInv'
  OBVIOUS
<1> USE DEF OnboardInv
<1>1. /\ job.op = "uninstall" /\ job.left = {} /\ job' = Idle
      /\ installed' = (mishaps # {})
      /\ UNCHANGED <<config, pristine, moves>>
  BY DEF EndUninstall
<1>2. \/ UNCHANGED <<backup, registry, mishaps>>
      \/ /\ backup' = NoBackup /\ registry' = <<>>
         /\ mishaps' = IF mishaps = {} THEN {} ELSE mishaps \cup {"purged"}
  BY DEF EndUninstall
<1>3. installed
  BY <1>1 DEF Fresh, Idle
<1>4. mishaps = {} => config = pristine
  <2> SUFFICES ASSUME mishaps = {} PROVE config = pristine
    OBVIOUS
  <2>1. \A a \in Agents : config[a] = pristine[a]
    BY <1>1, <1>3 DEF Clean, Changed
  <2> QED
    BY <2>1 DEF OnboardTypeOK
<1>5. mishaps' = {} <=> mishaps = {}
  BY <1>2
<1>6. backup = job.taken
  BY <1>1 DEF JobOK
<1>7. backup # NoBackup
  BY <1>6, NoFileAssumption DEF OnboardTypeOK, Maps
<1>8. OnboardTypeOK'
  <2>1. (backup' # NoBackup => Maps(backup', Files)) /\ Maps(registry', Contents)
    BY <1>2, EmptyMaps DEF OnboardTypeOK
  <2>2. mishaps' \in SUBSET Mishaps
    BY <1>2 DEF OnboardTypeOK, Mishaps
  <2>3. installed' \in BOOLEAN /\ Maps(job'.taken, Files) /\ job'.op = "none"
        /\ job'.left = {} /\ job'.bin = Prefix
    BY <1>1, EmptyMaps DEF Idle
  <2> QED
    BY <1>1, <2>1, <2>2, <2>3 DEF OnboardTypeOK
<1>9. Fresh' /\ JobOK'
  BY <1>1, <1>4, <1>5 DEF Fresh, JobOK, Idle
<1>10. Clean'
  BY <1>1, <1>5 DEF Clean
<1>11. Cover'
  <2> SUFFICES ASSUME mishaps' \cap {"abort", "partly", "purged"} = {},
                      NEW a \in Agents, Hooked(config[a])
               PROVE  backup' # NoBackup /\ a \in DOMAIN backup'
    BY <1>1 DEF Cover, Idle
  <2>1. mishaps # {}
    BY <1>4 DEF Fresh
  <2>2. UNCHANGED <<backup, registry, mishaps>>
    BY <1>2, <2>1
  <2> QED
    BY <1>1, <1>6, <1>7, <2>2 DEF Cover
<1>12. Recorded'
  <2>1. "raced" \in mishaps' <=> "raced" \in mishaps
    BY <1>2
  <2>2. registry' = registry \/ DOMAIN registry' = {}
    BY <1>2, EmptyMaps
  <2> QED
    BY <1>1, <2>1, <2>2 DEF Recorded, Idle
<1> QED
  BY <1>8, <1>9, <1>10, <1>11, <1>12

LEMMA OnboardAbortInv == OnboardInv /\ Abort => OnboardInv'
<1> SUFFICES ASSUME OnboardInv, Abort PROVE OnboardInv'
  OBVIOUS
<1> USE DEF OnboardInv
<1>1. /\ job # Idle /\ job' = Idle
      /\ mishaps' = IF job.op = "apply" THEN mishaps \cup {"abort"} ELSE mishaps
      /\ UNCHANGED <<config, backup, registry, installed, pristine>>
  BY DEF Abort
<1>2. moves' \in 0 .. MaxMoves
  BY MovesAssumption DEF Abort, Move, OnboardTypeOK
<1>3. installed /\ job.op # "none"
  BY <1>1 DEF Fresh, JobOK
<1>4. job.op # "apply" => backup = job.taken /\ backup # NoBackup /\ job.left \subseteq DOMAIN backup
  <2> SUFFICES ASSUME job.op # "apply"
               PROVE  backup = job.taken /\ backup # NoBackup /\ job.left \subseteq DOMAIN backup
    OBVIOUS
  <2>1. backup = job.taken /\ job.left \subseteq DOMAIN backup
    BY <1>3 DEF JobOK, OnboardTypeOK
  <2> QED
    BY <2>1, NoFileAssumption DEF OnboardTypeOK, Maps
<1>5. OnboardTypeOK'
  <2>1. mishaps' \in SUBSET Mishaps
    BY <1>1 DEF OnboardTypeOK, Mishaps
  <2>2. Maps(job'.taken, Files) /\ job'.op = "none" /\ job'.left = {} /\ job'.bin = Prefix
    BY <1>1, EmptyMaps DEF Idle
  <2> QED
    BY <1>1, <1>2, <2>1, <2>2 DEF OnboardTypeOK
<1>6. Fresh' /\ JobOK'
  BY <1>1, <1>3 DEF Fresh, JobOK, Idle
<1>7. Clean'
  <2> SUFFICES ASSUME mishaps' = {} PROVE Clean'
    BY DEF Clean
  <2>1. mishaps = {} /\ job.op \in {"record", "uninstall"}
    BY <1>1, <1>3 DEF OnboardTypeOK
  <2> QED
    BY <1>1, <1>3, <1>4, <2>1 DEF Clean, Changed, AsFound, Idle
<1>8. Cover'
  <2> SUFFICES ASSUME mishaps' \cap {"abort", "partly", "purged"} = {} PROVE Cover'
    BY DEF Cover
  <2>1. mishaps' = mishaps /\ job.op \in {"record", "uninstall"}
    BY <1>1, <1>3 DEF OnboardTypeOK
  <2> QED
    BY <1>1, <1>4, <2>1 DEF Cover, Idle
<1>9. Recorded'
  BY <1>1 DEF Recorded, Idle
<1> QED
  BY <1>5, <1>6, <1>7, <1>8, <1>9

LEMMA EditConfigInv == OnboardInv /\ EditConfig => OnboardInv'
<1> SUFFICES ASSUME OnboardInv, EditConfig PROVE OnboardInv'
  OBVIOUS
<1> USE DEF OnboardInv
<1>1. PICK a \in Agents :
        \E c \in {NoFile} \cup
            [text : Texts, form : {"user"},
             hooks : SUBSET (IF config[a] = NoFile THEN {} ELSE config[a].hooks)] :
          /\ config' = [config EXCEPT ![a] = c]
          /\ pristine' = IF installed THEN pristine ELSE [pristine EXCEPT ![a] = c]
  BY DEF EditConfig
<1>2. PICK c \in {NoFile} \cup
            [text : Texts, form : {"user"},
             hooks : SUBSET (IF config[a] = NoFile THEN {} ELSE config[a].hooks)] :
          /\ config' = [config EXCEPT ![a] = c]
          /\ pristine' = IF installed THEN pristine ELSE [pristine EXCEPT ![a] = c]
  BY <1>1
<1>3. /\ mishaps' = mishaps \cup (IF installed THEN {"edit"} ELSE {})
                           \cup (IF job.op \in {"apply", "record"} THEN {"raced"} ELSE {})
      /\ UNCHANGED <<backup, registry, job, installed>>
  BY DEF EditConfig
<1>4. moves' \in 0 .. MaxMoves
  BY MovesAssumption DEF EditConfig, Move, OnboardTypeOK
<1>5. config \in [Agents -> Files] /\ pristine \in [Agents -> Files]
  BY DEF OnboardTypeOK
<1>6. c \in Files
  <2>1. CASE c = NoFile
    BY <2>1 DEF Files
  <2>2. CASE c # NoFile
    <3>1. CASE config[a] = NoFile
      BY <1>2, <2>2, <3>1 DEF Files, Contents
    <3>2. CASE config[a] # NoFile
      <4>1. config[a] \in Contents
        BY <1>5, <3>2 DEF Files
      <4>2. config[a].hooks \in SUBSET (Binaries \cup {Prefix})
        BY <4>1 DEF Contents
      <4> QED
        BY <2>2, <3>2, <4>2 DEF Files, Contents
    <3> QED
      BY <3>1, <3>2
  <2> QED
    BY <2>1, <2>2
<1>7. Hooked(c) => Hooked(config[a])
  BY DEF Hooked
<1>8. OnboardTypeOK'
  <2>1. mishaps' \in SUBSET Mishaps
    BY <1>3 DEF OnboardTypeOK, Mishaps
  <2>2. config' \in [Agents -> Files] /\ pristine' \in [Agents -> Files]
    BY <1>2, <1>5, <1>6
  <2> QED
    BY <1>3, <1>4, <2>1, <2>2 DEF OnboardTypeOK
<1>9. Fresh'
  <2>1. CASE installed
    BY <1>2, <1>3, <2>1 DEF Fresh
  <2>2. CASE ~installed
    <3>1. mishaps = {} /\ job = Idle /\ config = pristine
      BY <2>2 DEF Fresh
    <3>2. config' = [config EXCEPT ![a] = c] /\ pristine' = [pristine EXCEPT ![a] = c]
      BY <1>2, <2>2
    <3>3. \A b \in Agents : ~Hooked(pristine'[b])
      BY <1>5, <1>7, <3>1, <3>2 DEF Fresh
    <3>4. job.op = "none"
      BY <3>1 DEF Idle
    <3>5. mishaps' = {}
      BY <1>3, <2>2, <3>1, <3>4
    <3> QED
      BY <1>3, <3>1, <3>2, <3>3, <3>5 DEF Fresh
  <2> QED
    BY <2>1, <2>2
<1>10. JobOK'
  BY <1>3 DEF JobOK
<1>11. Clean'
  BY <1>3 DEF Clean
<1>12. Cover'
  <2>1. \A b \in Agents : Hooked(config'[b]) => Hooked(config[b])
    BY <1>2, <1>5, <1>7
  <2> QED
    BY <1>3, <2>1 DEF Cover
<1>13. Recorded'
  BY <1>3 DEF Recorded
<1> QED
  BY <1>8, <1>9, <1>10, <1>11, <1>12, <1>13

LEMMA OnboardStay == OnboardInv /\ UNCHANGED onboardVars => OnboardInv'
BY DEF onboardVars, OnboardInv, OnboardTypeOK, Fresh, JobOK, Clean, Cover, Recorded,
       Changed, AsFound

LEMMA OnboardInductive == OnboardSpec => []OnboardInv
<1>1. OnboardInv /\ [OnboardNext]_onboardVars => OnboardInv'
  BY BeginApplyInv, ReadOriginalInv, WriteHookInv, FailMergeInv, WriteBackupInv, RecordHookInv,
     EndApplyInv, BeginUninstallInv, RestoreConfigInv, EndUninstallInv, OnboardAbortInv,
     EditConfigInv, OnboardStay DEF OnboardNext
<1> QED
  BY OnboardInitInv, <1>1, PTL DEF OnboardSpec

\* The state of the installer is always of its type: what is merged into a
\* configuration is a configuration (installer.rs:96).
THEOREM OnboardTypeCorrect == OnboardSpec => []OnboardTypeOK
<1>1. OnboardInv => OnboardTypeOK
  BY DEF OnboardInv
<1> QED
  BY OnboardInductive, <1>1, PTL

\* Between commands the backup lists every agent that is hooked, unless an
\* onboarding was cut short or left one out, or the backup was purged
\* (installer.rs:33).
THEOREM HookedCoveredHolds == OnboardSpec => []HookedCovered
<1>1. OnboardInv => HookedCovered
  BY DEF OnboardInv, Cover, HookedCovered, Idle
<1> QED
  BY OnboardInductive, <1>1, PTL

\* After an uninstall that undid one onboarding every configuration is byte for
\* byte what the user last wrote, whatever was cut short in an uninstall before it
\* (installer.rs:69).
THEOREM RoundTripHolds == OnboardSpec => []RoundTrip
<1>1. OnboardInv => RoundTrip
  BY DEF OnboardInv, Fresh, RoundTrip
<1> QED
  BY OnboardInductive, <1>1, PTL

\* When doctor says a hook is OK the file has one, or takes none, unless another
\* hand wrote while an onboarding ran (doctor.rs).
THEOREM DoctorAgreesHolds == OnboardSpec => []DoctorAgrees
<1>1. OnboardInv => DoctorAgrees
  <2> SUFFICES ASSUME OnboardInv, NEW a \in Agents,
                      "raced" \notin mishaps, Doctor(a) = "ok"
               PROVE  Hooked(config[a]) \/ config[a].text \in Closed
    BY DEF DoctorAgrees
  <2>1. a \in DOMAIN registry /\ config[a] = registry[a]
    BY DEF Doctor
  <2>2. Written(registry[a])
    BY <2>1 DEF OnboardInv, Recorded
  <2> QED
    BY <2>1, <2>2 DEF Written
<1> QED
  BY OnboardInductive, <1>1, PTL

-----------------------------------------------------------------------------
(* The hook.                                                               *)

\* The hook answers a command less often than the bound, and at least once
\* before the shell has it; the switch as it is now has been seen.
Passing ==
  /\ at \in {"config", "switch"} => passes < MaxPasses
  /\ at \in {"answered", "ran"} => passes >= 1
  /\ mode # "none" => at = "ran"
  /\ at # "agent" => ShadowOn \in seen /\ request.cmd \in Commands

\* The hook has put a prefix before what is left after k escapes, and which one
\* says what it saw.
Prefixed(k, p) ==
  /\ cmd = <<p>> \o Unescaped(k)
  /\ Unescaped(k) # <<>> /\ ~StartsWith(Unescaped(k), NidWords \cup Builtins)
  /\ p = NidShadow => TRUE \in seen \/ request.shadow
  /\ p = Nid => FALSE \in seen /\ ~request.shadow

Faithful ==
  /\ \E k \in 0 .. passes :
       /\ k = 0 \/ Escapes(k)
       /\ cmd = Unescaped(k) \/ \E p \in {Nid, NidShadow} : Prefixed(k, p)
  /\ passes = 0 => cmd = request.cmd
  /\ passes = 1 /\ RawEscape(request.cmd) /\ request.tool = "bash" => cmd = Tail(request.cmd)
  /\ request.tool # "bash" => cmd = request.cmd

HookInv ==
  /\ HookTypeOK
  /\ Passing
  /\ at # "agent" => Faithful
  /\ ShadowHonoured

LEMMA CommandWords == ASSUME NEW c \in Commands PROVE c \in Seq(Words)
  BY CommandsAssumption

\* What is left of a command after k words, one word further.
LEMMA UnescapedFacts ==
  ASSUME request.cmd \in Seq(Words), NEW k \in Nat, k = 0 \/ Escapes(k)
  PROVE  /\ Unescaped(k) \in Seq(Words)
         /\ Unescaped(0) = request.cmd
         /\ Unescaped(k) # <<>> =>
              /\ k + 1 \in 1 .. Len(request.cmd)
              /\ Head(Unescaped(k)) = request.cmd[k + 1]
              /\ Len(Unescaped(k)) = Len(request.cmd) - k
              /\ Tail(Unescaped(k)) = Unescaped(k + 1)
<1>. DEFINE c == request.cmd
<1>1. Len(c) \in Nat /\ \A i \in 1 .. Len(c) : c[i] \in Words
  BY LenProperties, ElementOfSeq
<1>2. Unescaped(k) \in Seq(Words)
      /\ Len(Unescaped(k)) = IF k + 1 <= Len(c) THEN Len(c) - (k + 1) + 1 ELSE 0
  BY <1>1, SubSeqProperties DEF Unescaped
<1>3. Unescaped(0) = c
  BY SubSeqFull DEF Unescaped
<1>4. ASSUME Unescaped(k) # <<>>
      PROVE  /\ k + 1 \in 1 .. Len(c)
             /\ Head(Unescaped(k)) = c[k + 1]
             /\ Len(Unescaped(k)) = Len(c) - k
             /\ Tail(Unescaped(k)) = Unescaped(k + 1)
  <2>1. k + 1 <= Len(c)
    <3>1. CASE ~(k + 1 <= Len(c))
      <4>1. Unescaped(k) = <<>>
        BY <1>1, <3>1, SubSeqEmpty DEF Unescaped
      <4>2. QED
        BY <1>4, <4>1
    <3>2. QED
      BY <3>1
  <2>2. k + 1 \in 1 .. Len(c) /\ Len(c) \in (k + 1) .. Len(c)
    BY <1>1, <2>1
  <2>3. /\ Head(SubSeq(c, k + 1, Len(c))) = c[k + 1]
        /\ Tail(SubSeq(c, k + 1, Len(c))) = SubSeq(c, (k + 1) + 1, Len(c))
    BY <2>2, HeadTailOfSubSeq
  <2>4. QED
    BY <1>1, <1>2, <2>1, <2>2, <2>3 DEF Unescaped
<1>5. QED
  BY <1>2, <1>3, <1>4

LEMMA PrefixedFacts ==
  ASSUME request.cmd \in Seq(Words), NEW k \in Nat, k = 0 \/ Escapes(k), NEW p \in {Nid, NidShadow},
         cmd = <<p>> \o Unescaped(k)
  PROVE  /\ Head(cmd) = p /\ cmd # <<>> /\ Len(cmd) \in Nat /\ p \in Words /\ cmd \in Seq(Words)
         /\ p \in NidWords /\ p # RawWord
<1>1. p \in Words /\ p \in NidWords /\ p # RawWord
  BY WordsAssumption DEF Words
<1>2. Unescaped(k) \in Seq(Words) /\ <<p>> \in Seq(Words) /\ Len(<<p>>) = 1 /\ <<p>>[1] = p
  BY <1>1, UnescapedFacts
<1>3. cmd \in Seq(Words) /\ Len(cmd) = 1 + Len(Unescaped(k)) /\ Len(Unescaped(k)) \in Nat
      /\ cmd[1] = p
  BY <1>2, ConcatProperties, LenProperties
<1>4. cmd # <<>> /\ Head(cmd) = cmd[1]
  BY <1>3
<1>5. QED
  BY <1>1, <1>3, <1>4

\* One pass of the hook.
LEMMA AnswerFaithful ==
  ASSUME HookTypeOK, Passing, Faithful, Answer
  PROVE  Faithful' /\ cmd' \in Seq(Words)
<1>. DEFINE shadow == request.shadow \/ ShadowOn
<1>1. /\ at = "switch" /\ cmd' = HandlePayload(cmd, request.tool, shadow, loaded)
      /\ passes' = passes + 1 /\ UNCHANGED <<request, seen>>
      /\ request.cmd \in Seq(Words) /\ ShadowOn \in seen /\ passes \in Nat
      /\ request.shadow \in BOOLEAN /\ ShadowOn \in BOOLEAN
  BY CommandWords DEF Answer, HookTypeOK, Passing, ShadowOn
<1>2. PICK k \in 0 .. passes :
        /\ k = 0 \/ Escapes(k)
        /\ cmd = Unescaped(k) \/ \E p \in {Nid, NidShadow} : Prefixed(k, p)
  BY DEF Faithful
<1>3. \A j : Unescaped(j)' = Unescaped(j) /\ Escapes(j)' = Escapes(j)
  BY <1>1 DEF Unescaped, Escapes
<1>n. /\ passes \in Nat /\ passes' = passes + 1 /\ k \in Nat /\ k <= passes
      /\ request' = request /\ seen' = seen /\ request.cmd \in Seq(Words)
  BY <1>1, <1>2
<1>4. CASE request.tool # "bash"
  <2>1. cmd' = cmd
    BY <1>1, <1>4 DEF HandlePayload
  <2>2. cmd = request.cmd /\ Unescaped(0) = request.cmd
    BY <1>1, <1>4, UnescapedFacts DEF Faithful
  <2>3. QED
    BY <1>1, <1>3, <1>4, <2>1, <2>2 DEF Faithful
<1>5. CASE request.tool = "bash"
  <2>1. cmd' = RewriteCommand(cmd, shadow, loaded)
    BY <1>1, <1>5 DEF HandlePayload
  <2>2. CASE \E p \in {Nid, NidShadow} : Prefixed(k, p)
    <3>1. PICK p \in {Nid, NidShadow} : Prefixed(k, p)
      BY <2>2
    <3>2. Head(cmd) \in NidWords /\ Head(cmd) # RawWord /\ cmd # <<>> /\ cmd \in Seq(Words)
      BY <1>n, <1>2, <3>1, PrefixedFacts DEF Prefixed
    <3>3. cmd' = cmd
      BY <2>1, <3>2 DEF RewriteCommand, RawEscape, StartsWithNid, StartsWith
    <3>4. passes # 0
      <4>1. CASE passes = 0
        <5>1. k = 0 /\ cmd = request.cmd /\ Unescaped(k) = cmd
          BY <1>1, <1>2, <4>1, UnescapedFacts DEF Faithful
        <5>2. QED
          BY <3>1, <3>2, <5>1 DEF Prefixed, StartsWith
      <4>2. QED
        BY <4>1
    <3>5. Prefixed(k, p)'
      BY <1>1, <1>3, <3>1, <3>3 DEF Prefixed, StartsWith
    <3>6. k \in 0 .. passes' /\ (k = 0 \/ Escapes(k)')
      BY <1>1, <1>2, <1>3
    <3>7. QED
      BY <1>1, <1>5, <3>2, <3>3, <3>4, <3>5, <3>6 DEF Faithful
  <2>3. CASE cmd = Unescaped(k)
    <3>1. Unescaped(k) \in Seq(Words)
      BY <1>1, <1>2, UnescapedFacts
    <3>2. CASE RawEscape(cmd)
      <4>1. cmd' = Tail(cmd) /\ cmd # <<>> /\ Len(cmd) > 1 /\ Head(cmd) = RawWord
        BY <2>1, <2>3, <3>1, <3>2 DEF RewriteCommand, RawEscape
      <4>2. /\ Head(cmd) = request.cmd[k + 1] /\ Len(cmd) = Len(request.cmd) - k
            /\ Tail(cmd) = Unescaped(k + 1) /\ Len(request.cmd) \in Nat
        BY <1>1, <1>2, <2>3, <4>1, UnescapedFacts, LenProperties
      <4>3. Escapes(k + 1)
        BY <1>2, <4>1, <4>2 DEF Escapes
      <4>4. cmd' = Unescaped(k + 1) /\ k + 1 \in 0 .. passes'
        BY <1>n, <4>1, <4>2
      <4>5. passes' = 1 => cmd' = Tail(request.cmd)
        BY <1>n, <4>1 DEF Faithful
      <4>6. cmd' \in Seq(Words)
        BY <1>1, <4>1, <4>3, <4>4, UnescapedFacts
      <4>7. QED
        BY <1>1, <1>3, <1>5, <4>3, <4>4, <4>5, <4>6 DEF Faithful
    <3>3. CASE ~RawEscape(cmd)
      <4>1. passes' = 1 => cmd = request.cmd
        BY <1>1 DEF Faithful
      <4>2. passes' = 1 => ~RawEscape(request.cmd')
        BY <1>1, <3>3, <4>1
      <4>3. CASE cmd' = cmd
        BY <1>1, <1>2, <1>3, <1>5, <2>3, <3>1, <4>2, <4>3 DEF Faithful
      <4>4. CASE cmd' # cmd
        <5>1. PICK p \in {Nid, NidShadow} :
                /\ p = IF shadow THEN NidShadow ELSE Nid
                /\ cmd' = <<p>> \o cmd /\ cmd # <<>>
                /\ ~StartsWith(cmd, NidWords) /\ ~StartsWith(cmd, Builtins \cup Plumbing)
          BY <2>1, <3>3, <4>4 DEF RewriteCommand, StartsWithNid
        <5>2. ~StartsWith(cmd, NidWords \cup Builtins)
          BY <5>1 DEF StartsWith
        <5>3. p = NidShadow => TRUE \in seen \/ request.shadow
          BY <1>1, <5>1, WordsAssumption
        <5>4. p = Nid => FALSE \in seen /\ ~request.shadow
          BY <1>1, <5>1, WordsAssumption
        <5>6. Prefixed(k, p)'
          BY <1>n, <1>3, <2>3, <5>1, <5>2, <5>3, <5>4 DEF Prefixed, StartsWith
        <5>7. k \in 0 .. passes' /\ (k = 0 \/ Escapes(k)')
          BY <1>n, <1>2, <1>3
        <5>8. cmd' \in Seq(Words)
          <6>1. p \in Words
            BY WordsAssumption DEF Words
          <6>2. <<p>> \in Seq(Words)
            BY <6>1
          <6>3. QED
            BY <2>3, <3>1, <5>1, <6>2, ConcatProperties
        <5>9. QED
          BY <1>n, <1>5, <4>2, <5>6, <5>7, <5>8 DEF Faithful
      <4>5. QED
        BY <4>3, <4>4
    <3>4. QED
      BY <3>2, <3>3
  <2>4. QED
    BY <1>2, <2>2, <2>3
<1>6. QED
  BY <1>4, <1>5

\* What a command has seen does not go away while it is under way.
LEMMA FaithfulKept ==
  ASSUME Faithful, seen \subseteq seen', UNCHANGED <<cmd, request, passes>>
  PROVE  Faithful'
<1>1. \A j : Unescaped(j)' = Unescaped(j) /\ Escapes(j)' = Escapes(j)
  BY DEF Unescaped, Escapes
<1>2. \A k, p : Prefixed(k, p) => Prefixed(k, p)'
  BY <1>1 DEF Prefixed, StartsWith
<1>3. QED
  BY <1>1, <1>2 DEF Faithful

LEMMA ShadowKept ==
  ASSUME ShadowHonoured, seen \subseteq seen', UNCHANGED <<request, mode>>
  PROVE  ShadowHonoured'
  BY DEF ShadowHonoured

\* The mode in which the shell runs what it was answered.
LEMMA ShellShadow ==
  ASSUME HookTypeOK, Passing, Faithful, Shell
  PROVE  ShadowHonoured'
<1>1. /\ mode' = IF ~StartsWith(cmd, NidWords) THEN "raw"
                 ELSE IF Head(cmd) = NidShadow \/ ShadowOn THEN "shadow" ELSE "live"
      /\ UNCHANGED <<request, seen>> /\ ShadowOn \in seen
      /\ request.cmd \in Seq(Words) /\ request.shadow \in BOOLEAN /\ ShadowOn \in BOOLEAN
  BY CommandWords DEF Shell, Passing, HookTypeOK, ShadowOn
<1>2. PICK k \in 0 .. passes :
        /\ k = 0 \/ Escapes(k)
        /\ cmd = Unescaped(k) \/ \E p \in {Nid, NidShadow} : Prefixed(k, p)
  BY DEF Faithful
<1>k. k \in Nat
  BY <1>2 DEF HookTypeOK
<1>3. ASSUME mode' = "shadow"
      PROVE  \/ TRUE \in seen \/ request.shadow
             \/ \E i \in 1 .. Len(request.cmd) : request.cmd[i] = NidShadow
  <2>1. cmd # <<>> /\ (Head(cmd) = NidShadow \/ ShadowOn)
    BY <1>1, <1>3 DEF StartsWith
  <2>2. CASE ShadowOn
    BY <1>1, <2>2
  <2>3. CASE Head(cmd) = NidShadow /\ cmd = Unescaped(k)
    BY <1>1, <1>2, <1>k, <2>1, <2>3, UnescapedFacts
  <2>4. CASE Head(cmd) = NidShadow /\ \E p \in {Nid, NidShadow} : Prefixed(k, p)
    <3>1. PICK p \in {Nid, NidShadow} : Prefixed(k, p)
      BY <2>4
    <3>2. p = NidShadow
      BY <1>1, <1>2, <1>k, <2>4, <3>1, PrefixedFacts DEF Prefixed
    <3>3. QED
      BY <3>1, <3>2 DEF Prefixed
  <2>5. QED
    BY <1>2, <2>1, <2>2, <2>3, <2>4
<1>4. ASSUME mode' = "live"
      PROVE  /\ FALSE \in seen /\ Head(request.cmd) # NidShadow
             /\ request.shadow => \E i \in 1 .. Len(request.cmd) : request.cmd[i] \in NidWords
  <2>1. cmd # <<>> /\ Head(cmd) \in NidWords /\ Head(cmd) # NidShadow /\ ~ShadowOn
    BY <1>1, <1>4 DEF StartsWith
  <2>2. FALSE \in seen
    BY <1>1, <2>1
  <2>3. Unescaped(k) # <<>>
    BY <1>2, <2>1 DEF Prefixed
  <2>4. k # 0 => Head(request.cmd) = RawWord
    <3>1. ASSUME k # 0 PROVE Head(request.cmd) = RawWord
      <4>1. k < Len(request.cmd) /\ Len(request.cmd) \in Nat /\ request.cmd[1] = RawWord
        BY <1>1, <1>2, <1>k, <3>1, LenProperties DEF Escapes
      <4>2. QED
        BY <1>1, <1>k, <4>1
    <3>2. QED
      BY <3>1
  <2>5. CASE cmd = Unescaped(k)
    <3>1. k = 0 => cmd = request.cmd
      BY <1>1, <1>k, <2>5, UnescapedFacts
    <3>2. Head(request.cmd) # NidShadow
      BY <2>1, <2>4, <3>1, WordsAssumption
    <3>3. \E i \in 1 .. Len(request.cmd) : request.cmd[i] \in NidWords
      BY <1>1, <1>2, <1>k, <2>1, <2>5, UnescapedFacts
    <3>4. QED
      BY <2>2, <3>2, <3>3
  <2>6. CASE \E p \in {Nid, NidShadow} : Prefixed(k, p)
    <3>1. PICK p \in {Nid, NidShadow} : Prefixed(k, p)
      BY <2>6
    <3>2. p = Nid
      BY <1>1, <1>2, <1>k, <2>1, <3>1, PrefixedFacts DEF Prefixed
    <3>3. k = 0 => Unescaped(k) = request.cmd
      BY <1>1, UnescapedFacts
    <3>4. Head(request.cmd) # NidShadow
      BY <2>3, <2>4, <3>1, <3>3, WordsAssumption DEF Prefixed, StartsWith
    <3>5. QED
      BY <2>2, <3>1, <3>2, <3>4 DEF Prefixed
  <2>7. QED
    BY <1>2, <2>5, <2>6
<1>5. QED
  BY <1>1, <1>3, <1>4 DEF ShadowHonoured

-----------------------------------------------------------------------------
LEMMA HookInitInv == HookInit => HookInv
  BY HookBoundsAssumption
     DEF HookInit, HookInv, HookTypeOK, Passing, ShadowHonoured, Nothing, Words

LEMMA HookStep == HookInv /\ [HookNext]_hookVars => HookInv'
<1> SUFFICES ASSUME HookInv, [HookNext]_hookVars PROVE HookInv'
  OBVIOUS
<1>. USE DEF HookInv
<1>1. CASE Submit
  <2>1. PICK c \in Commands, tool \in {"bash", "other"}, shadow \in BOOLEAN :
          /\ request' = [cmd |-> c, tool |-> tool, shadow |-> shadow] /\ cmd' = c
    BY <1>1 DEF Submit
  <2>2. /\ at = "agent" /\ at' = "config" /\ passes' = 0 /\ toggles' = 0 /\ seen' = {ShadowOn}
        /\ UNCHANGED <<shadowState, patterns, loaded, mode>>
    BY <1>1 DEF Submit, settings
  <2>3. HookTypeOK'
    BY <2>1, <2>2, CommandWords, HookBoundsAssumption DEF HookTypeOK, ShadowOn
  <2>4. Passing' /\ mode = "none"
    BY <2>1, <2>2, HookBoundsAssumption DEF HookTypeOK, Passing, ShadowOn
  <2>5. request'.cmd = c /\ request'.cmd \in Seq(Words)
    BY <2>1, CommandWords
  <2>6. Unescaped(0)' = cmd'
    BY <2>1, <2>5, SubSeqFull DEF Unescaped
  <2>7. Faithful'
    BY <2>1, <2>2, <2>5, <2>6 DEF Faithful
  <2>8. ShadowHonoured'
    BY <2>2, <2>4 DEF ShadowHonoured
  <2>9. QED
    BY <2>3, <2>4, <2>7, <2>8
<1>2. CASE LoadConfig
  <2>1. HookTypeOK' /\ Passing'
    BY <1>2 DEF LoadConfig, HookTypeOK, Passing, settings, ShadowOn
  <2>2. QED
    BY <1>2, <2>1, FaithfulKept, ShadowKept DEF LoadConfig
<1>3. CASE Answer
  <2>1. Faithful' /\ cmd' \in Seq(Words)
    BY <1>3, AnswerFaithful DEF Answer
  <2>2. /\ at = "switch" /\ at' = "answered" /\ passes' = passes + 1
        /\ UNCHANGED <<settings, request, loaded, mode, seen, toggles>>
    BY <1>3 DEF Answer
  <2>3. HookTypeOK' /\ Passing'
    BY <2>1, <2>2, HookBoundsAssumption DEF HookTypeOK, Passing, settings, ShadowOn
  <2>4. QED
    BY <2>1, <2>2, <2>3, ShadowKept
<1>4. CASE Resubmit
  <2>1. HookTypeOK' /\ Passing'
    BY <1>4 DEF Resubmit, HookTypeOK, Passing, settings, ShadowOn
  <2>2. QED
    BY <1>4, <2>1, FaithfulKept, ShadowKept DEF Resubmit
<1>5. CASE Shell
  <2>1. HookTypeOK' /\ Passing'
    BY <1>5 DEF Shell, HookTypeOK, Passing, settings, ShadowOn
  <2>2. QED
    BY <1>5, <2>1, FaithfulKept, ShellShadow DEF Shell
<1>6. CASE Finish
  <2>1. /\ at' = "agent" /\ mode' = "none" /\ request' = Nothing /\ cmd' = <<>> /\ loaded' = {}
        /\ passes' = 0 /\ seen' = {} /\ toggles' = 0 /\ UNCHANGED <<shadowState, patterns>>
    BY <1>6 DEF Finish, settings
  <2>2. HookTypeOK'
    BY <2>1, HookBoundsAssumption DEF HookTypeOK, Nothing
  <2>3. Passing' /\ ShadowHonoured'
    BY <2>1 DEF Passing, ShadowHonoured
  <2>4. QED
    BY <2>1, <2>2, <2>3
<1>7. ASSUME NEW s \in {"absent", "empty", "enable"}, Turn(s) PROVE HookInv'
  <2>1. /\ shadowState' = s /\ toggles' = (IF at = "agent" THEN toggles ELSE toggles + 1)
        /\ toggles < MaxToggles /\ seen' = (IF at = "agent" THEN seen ELSE seen \cup {s = "enable"})
        /\ UNCHANGED <<patterns, request, cmd, at, loaded, mode, passes>>
    BY <1>7 DEF Turn
  <2>a. seen' \in SUBSET BOOLEAN
    BY <2>1 DEF HookTypeOK
  <2>b. toggles' \in 0 .. MaxToggles
    BY <2>1, HookBoundsAssumption DEF HookTypeOK
  <2>2. HookTypeOK'
    BY <2>1, <2>a, <2>b DEF HookTypeOK
  <2>3. Passing'
    BY <2>1 DEF Passing, ShadowOn
  <2>4. QED
    BY <2>1, <2>2, <2>3, FaithfulKept, ShadowKept
<1>8. CASE EditPatterns
  <2>1. /\ toggles < MaxToggles /\ toggles' = (IF at = "agent" THEN toggles ELSE toggles + 1)
        /\ patterns' \in {{}, OtherWords, {RawWord}}
        /\ UNCHANGED <<shadowState, request, cmd, at, loaded, mode, passes, seen>>
    BY <1>8 DEF EditPatterns
  <2>2. HookTypeOK' /\ Passing'
    BY <2>1, HookBoundsAssumption DEF HookTypeOK, Passing, ShadowOn, Words
  <2>3. QED
    BY <2>1, <2>2, FaithfulKept, ShadowKept
<1>9. CASE UNCHANGED hookVars
  <2>1. HookTypeOK' /\ Passing'
    BY <1>9 DEF hookVars, HookTypeOK, Passing, ShadowOn
  <2>2. QED
    BY <1>9, <2>1, FaithfulKept, ShadowKept DEF hookVars
<1>10. QED
  BY <1>1, <1>2, <1>3, <1>4, <1>5, <1>6, <1>7, <1>8, <1>9
     DEF HookNext, EnableTruncates, EnableWrites, DisableOrCommit

LEMMA HookInvariant == HookSpec => []HookInv
  BY HookInitInv, HookStep, PTL DEF HookSpec

\* The state of the hook is always of its type: a command is a sequence of words
\* after any number of passes (rewrite.rs:30).
THEOREM HookTypeCorrect == HookSpec => []HookTypeOK
<1>1. HookInv => HookTypeOK
  BY DEF HookInv
<1>2. QED
  BY <1>1, HookInvariant, PTL

\* However often a command goes through the hook and whatever is turned meanwhile,
\* it gets at most one nid in front, none if it had one, loses at most one
\* NID_RAW=1 a pass and is otherwise what was submitted (rewrite.rs:51).
THEOREM HookFaithfulHolds == HookSpec => []HookFaithful
<1>1. HookInv => HookFaithful
  <2> SUFFICES ASSUME HookInv, at \in {"answered", "ran"} PROVE HookFaithful
    BY DEF HookFaithful
  <2>1. Faithful
    BY DEF HookInv
  <2>2. \A k, p : Prefixed(k, p) => cmd = <<p>> \o Unescaped(k)
                                    /\ ~StartsWith(Unescaped(k), NidWords \cup Builtins)
    BY DEF Prefixed
  <2>3. QED
    BY <2>1, <2>2 DEF Faithful, HookFaithful
<1>2. QED
  BY <1>1, HookInvariant, PTL

\* A command runs in shadow mode only if it asked for it or the switch was on at
\* some moment since, compressed only if the switch was off at one (run.rs:47).
THEOREM ShadowHonouredHolds == HookSpec => []ShadowHonoured
<1>1. HookInv => ShadowHonoured
  BY DEF HookInv
<1>2. QED
  BY <1>1, HookInvariant, PTL

-----------------------------------------------------------------------------
(* The capture.                                                            *)

Numbered(q) == \A i \in 1 .. Len(q) : q[i] = i

\* What was read of a stream and what its pipe holds is what was written to it.
WholeStream(s) ==
  /\ Len(buf[s]) + Len(pipe[s]) = wrote[s]
  /\ \A i \in 1 .. Len(pipe[s]) : pipe[s][i] = Len(buf[s]) + i
  /\ cap # 0 => Len(buf[s]) <= Half

CutStream(s) == cap # 0 /\ Len(buf[s]) = Half /\ Half < wrote[s]

Streaming ==
  \A s \in Streams :
    /\ Numbered(buf[s])
    /\ IF s \in cut THEN CutStream(s) /\ reader[s] # "reading"
       ELSE WholeStream(s) /\ reader[s] # "draining"
    /\ reader[s] = "done" => pipe[s] = <<>> /\ ~Alive

Ended ==
  /\ waited => command # "running"
  /\ flag => sigterm

Collected ==
  capture # Pending =>
    /\ waited /\ \A s \in Streams : reader[s] = "done"
    /\ capture.out = buf["out"] /\ capture.err = buf["err"]
    /\ capture.truncated <=> cut # {}
    /\ capture.interrupted => sigterm
    /\ capture.code = IF command = "exited" THEN "exit" ELSE "-1"

CaptureInv == CaptureTypeOK /\ Streaming /\ Ended /\ Collected

\* The guards of the actions of Progress.
GoesOn ==
  \/ Alive /\ script # <<>> /\ Len(pipe[Head(script)]) < PipeSize
  \/ command = "running" /\ script = <<>>
  \/ \E s \in Streams :
       \/ reader[s] \in {"reading", "draining"} /\ pipe[s] # <<>>
       \/ reader[s] # "done" /\ pipe[s] = <<>> /\ ~Alive
  \/ command # "running" /\ ~waited
  \/ capture = Pending /\ waited /\ \A s \in Streams : reader[s] = "done"

-----------------------------------------------------------------------------
LEMMA HalfIs == ASSUME CaptureTypeOK PROVE cap \in Nat /\ Half \in Nat
<1>1. cap \in Nat
  BY SizesAssumption DEF CaptureTypeOK
<1> QED
  BY <1>1 DEF Half

LEMMA JoinIs ==
  ASSUME NEW b \in Seq(Nat), NEW c \in Seq(Nat), NEW n, n = Len(b) + Len(c)
  PROVE  /\ b \o c \in Seq(Nat) /\ Len(b \o c) = n
         /\ \A i \in 1 .. n : (b \o c)[i] = IF i <= Len(b) THEN b[i] ELSE c[i - Len(b)]
OBVIOUS

LEMMA FirstIs ==
  ASSUME NEW c \in Seq(Nat), NEW k \in 0 .. Len(c)
  PROVE  /\ SubSeq(c, 1, k) \in Seq(Nat) /\ Len(SubSeq(c, 1, k)) = k
         /\ \A i \in 1 .. k : SubSeq(c, 1, k)[i] = c[i]
<1>1. Len(c) \in Nat /\ k \in Nat /\ k <= Len(c)
  OBVIOUS
<1> QED
  BY <1>1

LEMMA ChunkIs ==
  ASSUME CaptureTypeOK, NEW s \in Streams, pipe[s] # <<>>
  PROVE  \E n \in 1 .. Len(pipe[s]) :
           /\ Chunk(s) \in Seq(Nat) /\ Len(Chunk(s)) = n
           /\ \A i \in 1 .. n : Chunk(s)[i] = pipe[s][i]
           /\ Rest(s) \in Seq(Nat) /\ Len(Rest(s)) = Len(pipe[s]) - n
           /\ \A i \in 1 .. Len(pipe[s]) - n : Rest(s)[i] = pipe[s][n + i]
<1>1. PICK q : q = pipe[s]
  OBVIOUS
<1>2. q \in Seq(Nat) /\ q # <<>>
  BY <1>1 DEF CaptureTypeOK
<1>3. Len(q) \in Nat \ {0}
  BY <1>2
<1>4. PICK n : n = IF Len(q) < ChunkSize THEN Len(q) ELSE ChunkSize
  OBVIOUS
<1>5. n \in 1 .. Len(q)
  BY <1>3, <1>4, SizesAssumption
<1>6. PICK c : c = SubSeq(q, 1, n)
  OBVIOUS
<1>7. c \in Seq(Nat) /\ Len(c) = n /\ \A i \in 1 .. n : c[i] = q[i]
  BY <1>2, <1>3, <1>5, <1>6
<1>8. c = Chunk(s)
  BY <1>1, <1>4, <1>6 DEF Chunk
<1>9. PICK r : r = SubSeq(q, n + 1, Len(q))
  OBVIOUS
<1>10. r \in Seq(Nat) /\ Len(r) = Len(q) - n
       /\ \A i \in 1 .. Len(q) - n : r[i] = q[n + i]
  <2>1. n \in Nat /\ n <= Len(q)
    BY <1>3, <1>5
  <2>2. r \in Seq(Nat)
    BY <1>2, <1>3, <1>9, <2>1
  <2>3. Len(r) = Len(q) - n
    BY <1>2, <1>3, <1>9, <2>1
  <2>4. \A i \in 1 .. Len(q) - n : r[i] = q[n + i]
    BY <1>2, <1>3, <1>9, <2>1
  <2> QED
    BY <2>2, <2>3, <2>4
<1>11. r = Rest(s)
  BY <1>1, <1>7, <1>8, <1>9 DEF Rest
<1> QED
  BY <1>1, <1>5, <1>7, <1>8, <1>10, <1>11

LEMMA CaptureInitInv == CaptureInit => CaptureInv
<1> SUFFICES ASSUME CaptureInit PROVE CaptureInv
  OBVIOUS
<1>1. CaptureTypeOK
  <2>1. script \in Seq(Streams) /\ wrote \in [Streams -> Nat]
    BY ScriptsAssumption DEF CaptureInit
  <2>2. pipe \in [Streams -> Seq(Nat)] /\ buf \in [Streams -> Seq(Nat)]
    BY DEF CaptureInit
  <2>3. \A s \in Streams : Len(pipe[s]) <= PipeSize
    <3>1. \A s \in Streams : Len(pipe[s]) = 0
      BY DEF CaptureInit
    <3> QED
      BY <3>1, SizesAssumption
  <2> QED
    BY <2>1, <2>2, <2>3 DEF CaptureInit, CaptureTypeOK
<1>2. Half >= 0 /\ cap \in Nat
  BY <1>1, HalfIs
<1>3. Streaming
  <2> SUFFICES ASSUME NEW s \in Streams
               PROVE  Numbered(buf[s]) /\ WholeStream(s) /\ s \notin cut /\ reader[s] = "reading"
    BY DEF Streaming
  <2> QED
    BY <1>2 DEF CaptureInit, Numbered, WholeStream
<1>4. Ended /\ Collected
  BY DEF CaptureInit, Ended, Collected
<1> QED
  BY <1>1, <1>3, <1>4 DEF CaptureInv

\* What a stream's part of the invariant depends on.
LEMMA StreamKept ==
  ASSUME NEW s \in Streams,
         Numbered(buf[s]),
         IF s \in cut THEN CutStream(s) /\ reader[s] # "reading"
         ELSE WholeStream(s) /\ reader[s] # "draining",
         reader[s] = "done" => pipe[s] = <<>> /\ ~Alive,
         buf'[s] = buf[s], pipe'[s] = pipe[s], wrote'[s] = wrote[s], reader'[s] = reader[s],
         s \in cut' <=> s \in cut, cap' = cap, ~Alive => ~Alive'
  PROVE  /\ Numbered(buf'[s])
         /\ IF s \in cut' THEN CutStream(s)' /\ reader'[s] # "reading"
            ELSE WholeStream(s)' /\ reader'[s] # "draining"
         /\ reader'[s] = "done" => pipe'[s] = <<>> /\ ~Alive'
BY DEF CutStream, WholeStream, Half

LEMMA WriteInv == CaptureInv /\ Write => CaptureInv'
<1> SUFFICES ASSUME CaptureInv, Write PROVE CaptureInv'
  OBVIOUS
<1> USE DEF CaptureInv
<1>1. PICK t : t = Head(script)
  OBVIOUS
<1>2. /\ Alive /\ script # <<>>
      /\ Len(pipe[t]) < PipeSize
      /\ wrote' = [wrote EXCEPT ![t] = @ + 1]
      /\ pipe' = [pipe EXCEPT ![t] = Append(@, wrote'[t])]
      /\ script' = Tail(script)
      /\ UNCHANGED <<command, heir, reader, buf, cut, waited, sigterm, flag, cap, capture>>
  BY <1>1 DEF Write, reading, signals
<1>3. t \in Streams /\ script' \in Seq(Streams)
  BY <1>1, <1>2 DEF CaptureTypeOK
<1>4. wrote \in [Streams -> Nat] /\ pipe \in [Streams -> Seq(Nat)] /\ buf \in [Streams -> Seq(Nat)]
  BY DEF CaptureTypeOK
<1>5. wrote'[t] = wrote[t] + 1 /\ wrote' \in [Streams -> Nat]
  BY <1>2, <1>3, <1>4
<1>6. pipe'[t] = Append(pipe[t], wrote[t] + 1) /\ pipe' \in [Streams -> Seq(Nat)]
  <2>1. wrote[t] + 1 \in Nat /\ Append(pipe[t], wrote[t] + 1) \in Seq(Nat)
    BY <1>3, <1>4
  <2> QED
    BY <1>2, <1>3, <1>4, <1>5, <2>1
<1>7. CaptureTypeOK'
  <2>1. Len(pipe'[t]) <= PipeSize
    <3>1. Len(pipe'[t]) = Len(pipe[t]) + 1 /\ Len(pipe[t]) \in Nat
      BY <1>3, <1>4, <1>6
    <3> QED
      BY <1>2, <3>1, SizesAssumption
  <2>2. \A s \in Streams : Len(pipe'[s]) <= PipeSize
    BY <1>2, <1>4, <2>1 DEF CaptureTypeOK
  <2> QED
    BY <1>2, <1>3, <1>5, <1>6, <2>2 DEF CaptureTypeOK
<1>8. Streaming'
  <2> SUFFICES ASSUME NEW s \in Streams
               PROVE  /\ Numbered(buf'[s])
                      /\ IF s \in cut' THEN CutStream(s)' /\ reader'[s] # "reading"
                         ELSE WholeStream(s)' /\ reader'[s] # "draining"
                      /\ reader'[s] = "done" => pipe'[s] = <<>> /\ ~Alive'
    BY DEF Streaming
  <2>1. Alive'
    BY <1>2 DEF Alive
  <2>2. reader[s] # "done"
    BY <1>2 DEF Streaming
  <2>3. CASE s # t
    <3>1. wrote'[s] = wrote[s] /\ pipe'[s] = pipe[s]
      BY <1>2, <1>4, <2>3
    <3> QED
      BY <1>2, <2>1, <3>1, StreamKept DEF Streaming
  <2>4. CASE s = t
    <3>1. Numbered(buf'[s]) /\ reader'[s] = reader[s] /\ buf'[s] = buf[s]
      BY <1>2 DEF Streaming
    <3>2. CASE s \in cut
      <4>1. Half \in Nat /\ Half' = Half /\ wrote[s] \in Nat
        BY <1>2, <1>4, HalfIs DEF Half
      <4> QED
        BY <1>2, <1>5, <2>2, <2>4, <3>1, <3>2, <4>1 DEF Streaming, CutStream
    <3>3. CASE s \notin cut
      <4>1. WholeStream(s) /\ reader[s] # "draining"
        BY <3>3 DEF Streaming
      <4>2. PICK b, p, w : b = Len(buf[s]) /\ p = pipe[s] /\ w = wrote[s]
        OBVIOUS
      <4>3. b \in Nat /\ p \in Seq(Nat) /\ w \in Nat /\ Len(p) \in Nat
        BY <1>4, <4>2
      <4>4. b + Len(p) = w /\ \A i \in 1 .. Len(p) : p[i] = b + i
        BY <4>1, <4>2 DEF WholeStream
      <4>5. pipe'[s] = Append(p, w + 1) /\ wrote'[s] = w + 1
        BY <1>5, <1>6, <2>4, <4>2
      <4>6. PICK q : q = Append(p, w + 1)
        OBVIOUS
      <4>7. Len(q) = Len(p) + 1 /\ \A i \in 1 .. Len(p) + 1 : q[i] = IF i <= Len(p) THEN p[i] ELSE w + 1
        BY <4>3, <4>6
      <4>8. b + Len(q) = w + 1 /\ \A i \in 1 .. Len(q) : q[i] = b + i
        BY <4>3, <4>4, <4>7
      <4>9. WholeStream(s)'
        BY <1>2, <3>1, <4>1, <4>2, <4>5, <4>6, <4>8 DEF WholeStream, Half
      <4> QED
        BY <1>2, <2>2, <3>1, <3>3, <4>1, <4>9
    <3> QED
      BY <3>2, <3>3
  <2> QED
    BY <2>3, <2>4
<1>9. Ended' /\ Collected'
  BY <1>2 DEF Ended, Collected
<1> QED
  BY <1>7, <1>8, <1>9

LEMMA CommandInv ==
  /\ CaptureInv
  /\ CommandExits \/ LeaveHeir \/ HeirEnds \/ Terminate \/ TerminateGroup
  => CaptureInv'
<1> SUFFICES ASSUME CaptureInv,
                    CommandExits \/ LeaveHeir \/ HeirEnds \/ Terminate \/ TerminateGroup
             PROVE  CaptureInv'
  OBVIOUS
<1> USE DEF CaptureInv
<1>1. /\ UNCHANGED <<wrote, pipe, reader, buf, cut, waited, flag, cap, capture>>
      /\ sigterm => sigterm'
      /\ ~Alive => ~Alive'
      /\ command # "running" => command' = command
      /\ script' = script \/ script' = <<>>
  BY DEF CommandExits, LeaveHeir, HeirEnds, Terminate, TerminateGroup, writing, reading, signals,
         Alive
<1>2. command' \in {"running", "exited", "killed"} /\ heir' \in BOOLEAN /\ sigterm' \in BOOLEAN
  BY DEF CommandExits, LeaveHeir, HeirEnds, Terminate, TerminateGroup, writing, reading, signals,
         CaptureTypeOK
<1>3. CaptureTypeOK'
  <2>1. script' \in Seq(Streams)
    <3>1. script \in Seq(Streams) /\ <<>> \in Seq(Streams)
      BY DEF CaptureTypeOK
    <3> QED
      BY <1>1, <3>1
  <2> QED
    BY <1>1, <1>2, <2>1 DEF CaptureTypeOK
<1>4. Streaming'
  BY <1>1 DEF Streaming, CutStream, WholeStream, Half
<1>5. Ended' /\ Collected'
  BY <1>1 DEF Ended, Collected
<1> QED
  BY <1>3, <1>4, <1>5

LEMMA ReadInv == ASSUME NEW t \in Streams PROVE CaptureInv /\ Read(t) => CaptureInv'
<1> SUFFICES ASSUME CaptureInv, Read(t) PROVE CaptureInv'
  OBVIOUS
<1> USE DEF CaptureInv
<1>1. /\ reader[t] = "reading" /\ pipe[t] # <<>>
      /\ pipe' = [pipe EXCEPT ![t] = Rest(t)]
      /\ UNCHANGED <<script, wrote, command, heir, waited, sigterm, flag, cap, capture>>
  BY DEF Read, writing, signals
<1>2. pipe \in [Streams -> Seq(Nat)] /\ buf \in [Streams -> Seq(Nat)] /\ wrote \in [Streams -> Nat]
      /\ reader \in [Streams -> {"reading", "draining", "done"}] /\ cut \in SUBSET Streams
  BY DEF CaptureTypeOK
<1>3. t \notin cut /\ WholeStream(t) /\ Numbered(buf[t])
  BY <1>1 DEF Streaming
<1>4. PICK b, p, c, r, w : b = buf[t] /\ p = pipe[t] /\ c = Chunk(t) /\ r = Rest(t) /\ w = wrote[t]
  OBVIOUS
<1>5. PICK n \in 1 .. Len(p) :
        /\ c \in Seq(Nat) /\ Len(c) = n
        /\ \A i \in 1 .. n : c[i] = p[i]
        /\ r \in Seq(Nat) /\ Len(r) = Len(p) - n
        /\ \A i \in 1 .. Len(p) - n : r[i] = p[n + i]
  BY <1>1, <1>4, ChunkIs
<1>6. b \in Seq(Nat) /\ p \in Seq(Nat) /\ w \in Nat /\ Len(b) \in Nat /\ Len(p) \in Nat
  BY <1>2, <1>4
<1>7. /\ Len(b) + Len(p) = w
      /\ \A i \in 1 .. Len(p) : p[i] = Len(b) + i
      /\ cap # 0 => Len(b) <= Half
      /\ \A i \in 1 .. Len(b) : b[i] = i
  BY <1>3, <1>4 DEF WholeStream, Numbered
<1>8. \A i \in 1 .. n : c[i] = Len(b) + i
  <2> SUFFICES ASSUME NEW i \in 1 .. n PROVE c[i] = Len(b) + i
    OBVIOUS
  <2>1. n \in Nat /\ n <= Len(p)
    BY <1>5, <1>6
  <2>2. i \in 1 .. Len(p)
    BY <1>6, <2>1
  <2> QED
    BY <1>5, <1>7, <2>2
<1>9. pipe' \in [Streams -> Seq(Nat)] /\ pipe'[t] = r
  BY <1>1, <1>2, <1>4, <1>5
<1>10. \A s \in Streams : Len(pipe'[s]) <= PipeSize
  <2>1. Len(r) <= PipeSize
    BY <1>4, <1>5, <1>6, SizesAssumption DEF CaptureTypeOK
  <2> QED
    BY <1>1, <1>2, <1>9, <2>1 DEF CaptureTypeOK
<1>11. Half \in Nat /\ cap \in Nat /\ Half' = Half
  BY <1>1, HalfIs DEF Half
<1>12. Ended' /\ Collected' /\ (\A s \in Streams \ {t} : pipe'[s] = pipe[s])
  <2>1. capture = Pending
    BY <1>1 DEF Collected
  <2> QED
    BY <1>1, <1>2, <2>1 DEF Ended, Collected
<1>13. (\A s \in Streams \ {t} : buf'[s] = buf[s] /\ reader'[s] = reader[s] /\ (s \in cut' <=> s \in cut))
  BY <1>2 DEF Read
<1>14. ASSUME CaptureTypeOK',
              Numbered(buf'[t]),
              IF t \in cut' THEN CutStream(t)' /\ reader'[t] # "reading"
              ELSE WholeStream(t)' /\ reader'[t] # "draining",
              reader'[t] # "done"
       PROVE  CaptureInv'
  <2>1. Alive' <=> Alive
    BY <1>1 DEF Alive
  <2> SUFFICES ASSUME NEW s \in Streams
               PROVE  /\ Numbered(buf'[s])
                      /\ IF s \in cut' THEN CutStream(s)' /\ reader'[s] # "reading"
                         ELSE WholeStream(s)' /\ reader'[s] # "draining"
                      /\ reader'[s] = "done" => pipe'[s] = <<>> /\ ~Alive'
    BY <1>12, <1>14 DEF Streaming
  <2>2. CASE s = t
    BY <1>14, <2>2
  <2>3. CASE s # t
    <3>1. /\ Numbered(buf[s])
          /\ IF s \in cut THEN CutStream(s) /\ reader[s] # "reading"
             ELSE WholeStream(s) /\ reader[s] # "draining"
          /\ reader[s] = "done" => pipe[s] = <<>> /\ ~Alive
      BY DEF Streaming
    <3> QED
      BY <1>1, <1>12, <1>13, <2>1, <2>3, <3>1, StreamKept
  <2> QED
    BY <2>2, <2>3
<1>15. CASE ~Overflows(t)
  <2>1. /\ buf' = [buf EXCEPT ![t] = @ \o Chunk(t)]
        /\ UNCHANGED <<reader, cut>>
    BY <1>15 DEF Read
  <2>2. cap # 0 => Len(b) + n <= Half
    BY <1>4, <1>5, <1>6, <1>11, <1>15 DEF Overflows
  <2>3. PICK q : q = b \o c
    OBVIOUS
  <2>4. q \in Seq(Nat) /\ Len(q) = Len(b) + n
        /\ \A i \in 1 .. Len(b) + n : q[i] = IF i <= Len(b) THEN b[i] ELSE c[i - Len(b)]
    <3>1. c \in Seq(Nat) /\ Len(c) = n
      BY <1>5
    <3>2. b \o c \in Seq(Nat) /\ Len(b \o c) = Len(b) + n
      <4>1. b \in Seq(Nat)
        BY <1>6
      <4> QED
        BY <3>1, <4>1, ConcatProperties
    <3>3. \A i \in 1 .. Len(b) + n : (b \o c)[i] = IF i <= Len(b) THEN b[i] ELSE c[i - Len(b)]
      BY <1>6, <3>1, JoinIs
    <3> QED
      BY <2>3, <3>2, <3>3
  <2>5. \A i \in 1 .. Len(q) : q[i] = i
    <3> SUFFICES ASSUME NEW i \in 1 .. Len(b) + n PROVE q[i] = i
      BY <2>4
    <3>1. CASE i <= Len(b)
      <4>1. q[i] = b[i] /\ i \in 1 .. Len(b)
        BY <1>6, <2>4, <3>1
      <4> QED
        BY <1>7, <4>1
    <3>2. CASE i > Len(b)
      <4>1. i - Len(b) \in 1 .. n
        BY <1>5, <1>6, <3>2
      <4>2. q[i] = c[i - Len(b)]
        BY <1>6, <2>4, <3>2
      <4> QED
        BY <1>6, <1>8, <4>1, <4>2
    <3> QED
      BY <1>6, <3>1, <3>2
  <2>6. buf' \in [Streams -> Seq(Nat)] /\ buf'[t] = q
    BY <1>2, <1>4, <2>1, <2>3, <2>4
  <2>7. CaptureTypeOK'
    BY <1>1, <1>9, <1>10, <2>1, <2>6 DEF CaptureTypeOK
  <2>8. Len(q) + Len(r) = w /\ \A i \in 1 .. Len(r) : r[i] = Len(q) + i
    <3>1. n \in Nat /\ n <= Len(p) /\ Len(r) = Len(p) - n /\ Len(q) = Len(b) + n
      BY <1>5, <1>6, <2>4
    <3>2. ASSUME NEW i \in 1 .. Len(r) PROVE r[i] = Len(q) + i
      <4>1. n + i \in 1 .. Len(p) /\ i \in 1 .. Len(p) - n
        BY <1>6, <3>1
      <4>2. r[i] = p[n + i] /\ p[n + i] = Len(b) + (n + i)
        BY <1>5, <1>7, <4>1
      <4> QED
        BY <1>6, <3>1, <4>2
    <3>3. Len(q) + Len(r) = w
      <4>1. Len(b) + Len(p) = w
        BY <1>7
      <4> QED
        BY <1>6, <3>1, <4>1
    <3> QED
      BY <3>2, <3>3
  <2>9. WholeStream(t)'
    BY <1>1, <1>4, <1>9, <1>11, <2>2, <2>4, <2>6, <2>8 DEF WholeStream
  <2>10. Numbered(buf'[t])
    BY <2>5, <2>6 DEF Numbered
  <2> QED
    BY <1>1, <1>3, <1>14, <2>1, <2>7, <2>9, <2>10
<1>16. CASE Overflows(t)
  <2>1. /\ buf' = [buf EXCEPT ![t] = @ \o SubSeq(Chunk(t), 1, Half - Len(@))]
        /\ cut' = cut \cup {t}
        /\ reader' = [reader EXCEPT ![t] = "draining"]
    BY <1>16 DEF Read
  <2>2. cap # 0 /\ Len(b) + n > Half /\ Len(b) <= Half
    BY <1>4, <1>5, <1>7, <1>16 DEF Overflows
  <2>3. PICK h : h = Half
    OBVIOUS
  <2>4. PICK k : k = h - Len(b)
    OBVIOUS
  <2>5. k \in 0 .. n /\ h \in Nat /\ Len(b) + k = h
    BY <1>5, <1>6, <1>11, <2>2, <2>3, <2>4
  <2>6. PICK d : d = SubSeq(c, 1, k)
    OBVIOUS
  <2>7. d \in Seq(Nat) /\ Len(d) = k /\ \A i \in 1 .. k : d[i] = c[i]
    <3>1. c \in Seq(Nat) /\ k \in 0 .. Len(c)
      BY <1>5, <2>5
    <3> QED
      BY <2>6, <3>1, FirstIs
  <2>8. PICK q : q = b \o d
    OBVIOUS
  <2>9. q \in Seq(Nat) /\ Len(q) = h
        /\ \A i \in 1 .. h : q[i] = IF i <= Len(b) THEN b[i] ELSE d[i - Len(b)]
    <3>1. d \in Seq(Nat) /\ h = Len(b) + Len(d)
      BY <2>5, <2>7
    <3> QED
      BY <1>6, <2>8, <3>1, JoinIs
  <2>10. \A i \in 1 .. Len(q) : q[i] = i
    <3> SUFFICES ASSUME NEW i \in 1 .. h PROVE q[i] = i
      BY <2>9
    <3>1. CASE i <= Len(b)
      <4>1. q[i] = b[i] /\ i \in 1 .. Len(b)
        BY <1>6, <2>9, <3>1
      <4> QED
        BY <1>7, <4>1
    <3>2. CASE i > Len(b)
      <4>1. i - Len(b) \in 1 .. k /\ i - Len(b) \in 1 .. n
        BY <1>5, <1>6, <2>5, <3>2
      <4>2. q[i] = c[i - Len(b)]
        BY <1>6, <2>5, <2>7, <2>9, <3>2, <4>1
      <4> QED
        BY <1>6, <1>8, <4>1, <4>2, <2>5
    <3> QED
      BY <1>6, <2>5, <3>1, <3>2
  <2>11. buf' \in [Streams -> Seq(Nat)] /\ buf'[t] = q
    BY <1>2, <1>4, <2>1, <2>3, <2>4, <2>6, <2>8, <2>9
  <2>12. CaptureTypeOK'
    BY <1>1, <1>2, <1>9, <1>10, <2>1, <2>11 DEF CaptureTypeOK
  <2>13. h < w
    BY <1>5, <1>6, <1>7, <2>2, <2>3, <2>5
  <2>14. CutStream(t)'
    BY <1>1, <1>4, <1>11, <2>2, <2>3, <2>9, <2>11, <2>13 DEF CutStream
  <2>15. Numbered(buf'[t])
    BY <2>10, <2>11 DEF Numbered
  <2>16. t \in cut' /\ reader'[t] = "draining"
    BY <1>2, <2>1
  <2> QED
    BY <1>14, <2>12, <2>14, <2>15, <2>16
<1> QED
  BY <1>15, <1>16

LEMMA DrainInv == ASSUME NEW t \in Streams PROVE CaptureInv /\ Drain(t) => CaptureInv'
<1> SUFFICES ASSUME CaptureInv, Drain(t) PROVE CaptureInv'
  OBVIOUS
<1> USE DEF CaptureInv
<1>1. /\ reader[t] = "draining" /\ pipe[t] # <<>>
      /\ pipe' = [pipe EXCEPT ![t] = Rest(t)]
      /\ UNCHANGED <<script, wrote, command, heir, reader, buf, cut, waited, sigterm, flag, cap,
                     capture>>
  BY DEF Drain, writing, reading, signals
<1>2. Rest(t) \in Seq(Nat) /\ Len(Rest(t)) <= Len(pipe[t])
  <2>1. PICK n \in 1 .. Len(pipe[t]) : Rest(t) \in Seq(Nat) /\ Len(Rest(t)) = Len(pipe[t]) - n
    BY <1>1, ChunkIs
  <2>2. Len(pipe[t]) \in Nat
    BY DEF CaptureTypeOK
  <2> QED
    BY <2>1, <2>2
<1>3. pipe \in [Streams -> Seq(Nat)]
  BY DEF CaptureTypeOK
<1>4. Len(Rest(t)) <= PipeSize
  BY <1>2, <1>3, SizesAssumption DEF CaptureTypeOK
<1>5. CaptureTypeOK'
  BY <1>1, <1>2, <1>3, <1>4 DEF CaptureTypeOK
<1>6. t \in cut
  BY <1>1 DEF Streaming
<1>7. \A s \in Streams \ {t} : pipe'[s] = pipe[s]
  BY <1>1, <1>3
<1>8. Streaming'
  <2> SUFFICES ASSUME NEW s \in Streams
               PROVE  /\ Numbered(buf'[s])
                      /\ IF s \in cut' THEN CutStream(s)' /\ reader'[s] # "reading"
                         ELSE WholeStream(s)' /\ reader'[s] # "draining"
                      /\ reader'[s] = "done" => pipe'[s] = <<>> /\ ~Alive'
    BY DEF Streaming
  <2>1. Alive' <=> Alive
    BY <1>1 DEF Alive
  <2>2. /\ Numbered(buf[s])
        /\ IF s \in cut THEN CutStream(s) /\ reader[s] # "reading"
           ELSE WholeStream(s) /\ reader[s] # "draining"
        /\ reader[s] = "done" => pipe[s] = <<>> /\ ~Alive
    BY DEF Streaming
  <2>3. CASE s = t
    BY <1>1, <1>6, <2>2, <2>3 DEF CutStream, Half
  <2>4. CASE s # t
    BY <1>1, <1>7, <2>1, <2>2, <2>4, StreamKept
  <2> QED
    BY <2>3, <2>4
<1>9. Ended' /\ Collected'
  BY <1>1 DEF Ended, Collected
<1> QED
  BY <1>5, <1>8, <1>9

LEMMA EndOfFileInv == ASSUME NEW t \in Streams PROVE CaptureInv /\ EndOfFile(t) => CaptureInv'
<1> SUFFICES ASSUME CaptureInv, EndOfFile(t) PROVE CaptureInv'
  OBVIOUS
<1> USE DEF CaptureInv
<1>1. /\ reader[t] # "done" /\ pipe[t] = <<>> /\ ~Alive
      /\ reader' = [reader EXCEPT ![t] = "done"]
      /\ UNCHANGED <<script, wrote, command, heir, pipe, buf, cut, waited, sigterm, flag, cap,
                     capture>>
  BY DEF EndOfFile, writing, signals
<1>2. CaptureTypeOK'
  BY <1>1 DEF CaptureTypeOK
<1>3. reader'[t] = "done" /\ \A s \in Streams \ {t} : reader'[s] = reader[s]
  BY <1>1 DEF CaptureTypeOK
<1>4. Streaming'
  BY <1>1, <1>3 DEF Streaming, CutStream, WholeStream, Half, Alive
<1>5. Ended' /\ Collected'
  BY <1>1 DEF Ended, Collected
<1> QED
  BY <1>2, <1>4, <1>5

LEMMA WaitTrapInv == CaptureInv /\ (Wait \/ Trap) => CaptureInv'
<1> SUFFICES ASSUME CaptureInv, Wait \/ Trap PROVE CaptureInv'
  OBVIOUS
<1> USE DEF CaptureInv
<1>1. /\ UNCHANGED <<script, wrote, command, heir, pipe, reader, buf, cut, sigterm, cap, capture>>
      /\ \/ waited' = waited
         \/ waited' = TRUE /\ command # "running"
      /\ \/ flag' = flag
         \/ flag' = TRUE /\ sigterm
      /\ waited => waited'
  BY DEF Wait, Trap, writing, reading, signals
<1>2. CaptureTypeOK'
  BY <1>1 DEF CaptureTypeOK
<1>3. Streaming'
  BY <1>1 DEF Streaming, CutStream, WholeStream, Half, Alive
<1>4. Ended' /\ Collected'
  BY <1>1 DEF Ended, Collected
<1> QED
  BY <1>2, <1>3, <1>4

LEMMA CollectInv == CaptureInv /\ Collect => CaptureInv'
<1> SUFFICES ASSUME CaptureInv, Collect PROVE CaptureInv'
  OBVIOUS
<1> USE DEF CaptureInv
<1>1. PICK marked \in {flag, sigterm} :
        capture' = [out |-> buf["out"], err |-> buf["err"], truncated |-> cut # {},
                    interrupted |-> marked,
                    code |-> IF command = "exited" THEN "exit" ELSE "-1"]
  BY DEF Collect
<1>2. /\ waited /\ \A s \in Streams : reader[s] = "done"
      /\ UNCHANGED <<script, wrote, command, heir, pipe, reader, buf, cut, waited, sigterm, flag,
                     cap>>
  BY DEF Collect, writing, reading, signals
<1>3. CaptureTypeOK' /\ Streaming' /\ Ended'
  BY <1>2 DEF CaptureTypeOK, Streaming, CutStream, WholeStream, Half, Alive, Ended
<1>4. Collected'
  <2>1. marked => sigterm
    BY <1>1 DEF Ended
  <2> QED
    BY <1>1, <1>2, <2>1 DEF Collected
<1> QED
  BY <1>3, <1>4

LEMMA CaptureStay == CaptureInv /\ UNCHANGED captureVars => CaptureInv'
BY DEF captureVars, writing, reading, signals, CaptureInv, CaptureTypeOK, Streaming, CutStream,
       WholeStream, Half, Alive, Ended, Collected

LEMMA CaptureInductive == CaptureSpec => []CaptureInv
<1>1. CaptureInv /\ [CaptureNext]_captureVars => CaptureInv'
  BY WriteInv, CommandInv, ReadInv, DrainInv, EndOfFileInv, WaitTrapInv, CollectInv, CaptureStay
  DEF CaptureNext, Progress, Poll
<1> QED
  BY CaptureInitInv, <1>1, PTL DEF CaptureSpec

\* The state of a capture is always of its type; no pipe holds more than it can.
THEOREM CaptureTypeCorrect == CaptureSpec => []CaptureTypeOK
<1>1. CaptureInv => CaptureTypeOK
  BY DEF CaptureInv
<1> QED
  BY CaptureInductive, <1>1, PTL

\* What is captured of each stream is all that was written to it, in order, or
\* exactly its half of the cap, and the marks say which (run.rs:526).
THEOREM CaptureTrueHolds == CaptureSpec => []CaptureTrue
<1>1. CaptureInv => CaptureTrue
  <2> SUFFICES ASSUME CaptureInv, capture # Pending PROVE CaptureTrue
    BY DEF CaptureTrue
  <2> USE DEF CaptureInv
  <2>1. /\ \A s \in Streams : reader[s] = "done"
        /\ capture.out = buf["out"] /\ capture.err = buf["err"]
        /\ capture.truncated <=> cut # {}
        /\ capture.interrupted => sigterm
        /\ capture.code = IF command = "exited" THEN "exit" ELSE "-1"
    BY DEF Collected
  <2>2. \A s \in Streams : capture[s] = buf[s]
    BY <2>1 DEF Streams
  <2>3. buf \in [Streams -> Seq(Nat)] /\ wrote \in [Streams -> Nat] /\ cut \subseteq Streams
    BY DEF CaptureTypeOK
  <2>4. ASSUME NEW s \in Streams
        PROVE  /\ buf[s] = [i \in 1 .. Len(buf[s]) |-> i]
               /\ s \in cut => Len(buf[s]) = Half /\ Len(buf[s]) < wrote[s]
               /\ s \notin cut => Len(buf[s]) = wrote[s]
    <3>1. Numbered(buf[s]) /\ pipe[s] = <<>> /\ (s \in cut => CutStream(s))
          /\ (s \notin cut => WholeStream(s))
      BY <2>1 DEF Streaming
    <3>2. PICK b : b = buf[s]
      OBVIOUS
    <3>3. b \in Seq(Nat) /\ \A i \in 1 .. Len(b) : b[i] = i
      BY <2>3, <3>1, <3>2 DEF Numbered
    <3>4. b = [i \in 1 .. Len(b) |-> i]
      BY <3>3
    <3> QED
      BY <2>3, <3>1, <3>2, <3>3, <3>4 DEF CutStream, WholeStream
  <2>5. \A s \in Streams :
          /\ capture[s] = [i \in 1 .. Len(capture[s]) |-> i]
          /\ Len(capture[s]) < wrote[s] => capture.truncated /\ Len(capture[s]) = Half
    <3> SUFFICES ASSUME NEW s \in Streams
                 PROVE  /\ capture[s] = [i \in 1 .. Len(capture[s]) |-> i]
                        /\ Len(capture[s]) < wrote[s] =>
                             capture.truncated /\ Len(capture[s]) = Half
      OBVIOUS
    <3>1. capture[s] = buf[s] /\ Len(buf[s]) \in Nat /\ wrote[s] \in Nat
      BY <2>2, <2>3
    <3>2. s \in cut => capture.truncated
      BY <2>1
    <3> QED
      BY <2>4, <3>1, <3>2
  <2>6. capture.truncated => \E s \in Streams : Len(capture[s]) < wrote[s]
    BY <2>1, <2>2, <2>3, <2>4
  <2>7. capture.code = "exit" <=> command = "exited"
    BY <2>1
  <2> QED
    BY <2>1, <2>5, <2>6, <2>7 DEF CaptureTrue
<1> QED
  BY CaptureInductive, <1>1, PTL

\* Command and capture never wait for each other: until the capture has ended, and
\* unless a background process lives on, the guard of some action of Progress
\* holds.  It is NeverStuck with ENABLED spelled out (run.rs:491).
THEOREM CaptureGoesOn == CaptureSpec => [](capture = Pending /\ ~heir => GoesOn)
<1>1. CaptureInv => (capture = Pending /\ ~heir => GoesOn)
  <2> SUFFICES ASSUME CaptureInv, capture = Pending, ~heir PROVE GoesOn
    OBVIOUS
  <2> USE DEF CaptureInv
  <2>1. \A s \in Streams : reader[s] \in {"reading", "draining", "done"}
    BY DEF CaptureTypeOK
  <2>2. CASE command = "running"
    <3>1. CASE script = <<>>
      BY <2>2, <3>1 DEF GoesOn
    <3>2. CASE script # <<>>
      <4>1. PICK s \in Streams : s = Head(script)
        BY <3>2 DEF CaptureTypeOK
      <4>2. reader[s] # "done"
        BY <2>2 DEF Streaming, Alive
      <4>3. Len(pipe[s]) \in Nat /\ (Len(pipe[s]) = 0 <=> pipe[s] = <<>>)
        BY DEF CaptureTypeOK
      <4>4. Len(pipe[s]) < PipeSize \/ pipe[s] # <<>>
        BY <4>3, SizesAssumption
      <4> QED
        BY <2>1, <2>2, <3>2, <4>1, <4>2, <4>4 DEF GoesOn, Alive
    <3> QED
      BY <3>1, <3>2
  <2>3. CASE command # "running"
    BY <2>1, <2>3 DEF GoesOn, Alive
  <2> QED
    BY <2>2, <2>3
<1> QED
  BY CaptureInductive, <1>1, PTL

-----------------------------------------------------------------------------
(* The fingerprint.                                                        *)

\* What the tokens from the i-th on add, if f says it of the later ones.
Step(tail, f, i) ==
  IF i > Len(tail) THEN <<>>
  ELSE IF TakesNext(tail, i)
  THEN Printed(tail[i], FALSE) \o Printed(tail[i + 1], tail[i].flag \in ShapeFlags) \o f[i + 2]
  ELSE Printed(tail[i], tail[i].flag \in ShapeFlags) \o f[i + 1]

\* The recursion descends: there is a function that satisfies it.
LEMMA FromExists ==
  ASSUME NEW tail \in Seq(ArgTokens)
  PROVE  \E f : f = [i \in 1 .. Len(tail) + 2 |-> Step(tail, f, i)]
<1> DEFINE n == Len(tail)
           Right(g, k) == \A i \in 1 .. n + 2 : i > n - k => g[i] = Step(tail, g, i)
           S == {k \in Nat : \E g : Right(g, k)}
<1>1. n \in Nat
  OBVIOUS
<1> HIDE DEF n
<1>2. 0 \in S
  <2>1. Right([i \in 1 .. n + 2 |-> <<>>], 0)
    BY <1>1 DEF Step, n
  <2> QED
    BY <2>1
<1>3. ASSUME NEW k \in Nat, k \in S PROVE k + 1 \in S
  <2>1. PICK g : Right(g, k)
    BY <1>3
  <2> DEFINE h == [i \in 1 .. n + 2 |-> IF i = n - k THEN Step(tail, g, n - k) ELSE g[i]]
  <2>2. \A i \in 1 .. n + 2 : i >= n - k => Step(tail, h, i) = Step(tail, g, i)
    <3> SUFFICES ASSUME NEW i \in 1 .. n + 2, i >= n - k PROVE Step(tail, h, i) = Step(tail, g, i)
      OBVIOUS
    <3>1. CASE i > n
      BY <3>1 DEF Step, n
    <3>2. CASE i <= n
      <4>1. i + 1 \in 1 .. n + 2 /\ i + 2 \in 1 .. n + 2 /\ i + 1 # n - k /\ i + 2 # n - k
        BY <1>1, <3>2
      <4>2. h[i + 1] = g[i + 1] /\ h[i + 2] = g[i + 2]
        BY <4>1
      <4> HIDE DEF h
      <4> QED
        BY <4>2 DEF Step
    <3> QED
      BY <1>1, <3>1, <3>2
  <2>3. Right(h, k + 1)
    <3> SUFFICES ASSUME NEW i \in 1 .. n + 2, i > n - (k + 1) PROVE h[i] = Step(tail, h, i)
      OBVIOUS
    <3>1. i >= n - k
      BY <1>1
    <3>2. h[i] = Step(tail, g, i)
      BY <1>1, <2>1, <3>1
    <3> HIDE DEF h
    <3> QED
      BY <2>2, <3>1, <3>2
  <2> HIDE DEF h
  <2> QED
    BY <2>3
<1>4. n \in S
  <2> HIDE DEF S
  <2> QED
    BY <1>1, <1>2, <1>3, NatSetInduction
<1>5. PICK g : Right(g, n)
  BY <1>4
<1> DEFINE f == [i \in 1 .. n + 2 |-> g[i]]
<1>6. \A i \in 1 .. n + 2 : Step(tail, f, i) = Step(tail, g, i)
  <2> SUFFICES ASSUME NEW i \in 1 .. n + 2 PROVE Step(tail, f, i) = Step(tail, g, i)
    OBVIOUS
  <2>1. CASE i > n
    BY <2>1 DEF Step, n
  <2>2. CASE i <= n
    <3>1. f[i + 1] = g[i + 1] /\ f[i + 2] = g[i + 2]
      BY <1>1, <2>2
    <3> HIDE DEF f
    <3> QED
      BY <3>1 DEF Step
  <2> QED
    BY <1>1, <2>1, <2>2
<1>7. \A i \in 1 .. n + 2 : f[i] = Step(tail, f, i)
  <2>1. \A i \in 1 .. n + 2 : f[i] = Step(tail, g, i)
    BY <1>1, <1>5
  <2> HIDE DEF f
  <2> QED
    BY <1>6, <2>1
<1>8. f = [i \in 1 .. n + 2 |-> Step(tail, f, i)]
  <2>1. f = [i \in 1 .. n + 2 |-> f[i]]
    OBVIOUS
  <2> HIDE DEF f
  <2> QED
    BY <1>7, <2>1
<1> QED
  BY <1>8 DEF n

LEMMA FromIs ==
  ASSUME NEW tail \in Seq(ArgTokens)
  PROVE  \A i \in 1 .. Len(tail) + 2 :
           CanonicalFrom(tail)[i] = Step(tail, CanonicalFrom(tail), i)
<1>1. PICK f : f = [i \in 1 .. Len(tail) + 2 |-> Step(tail, f, i)]
  BY FromExists
<1> DEFINE c == CanonicalFrom(tail)
<1>2. c = CHOOSE f2 : f2 = [i \in 1 .. Len(tail) + 2 |-> Step(tail, f2, i)]
  BY DEF CanonicalFrom, Step
<1>3. c = [i \in 1 .. Len(tail) + 2 |-> Step(tail, c, i)]
  <2> HIDE DEF c
  <2> QED
    BY <1>1, <1>2
<1> HIDE DEF c
<1> QED
  BY <1>3 DEF c

\* What a token adds, its flag and one word, if a value kept whole has but one.
Shown(tail, i) ==
  IF tail[i].value = NoValue THEN NoValue
  ELSE IF KeptWhole(tail, i) THEN tail[i].value.words[1] ELSE tail[i].value.form
Pair(tail, i) == <<tail[i].flag, Shown(tail, i)>>
Suffix(tail, i) == [j \in 1 .. Len(tail) + 1 - i |-> Pair(tail, i + j - 1)]

OneWord(tail) ==
  \A i \in 1 .. Len(tail) :
    KeptWhole(tail, i) /\ tail[i].value # NoValue => Len(tail[i].value.words) = 1

LEMMA TokenIs ==
  ASSUME NEW tail \in Seq(ArgTokens), NEW i \in 1 .. Len(tail)
  PROVE  /\ tail[i] \in ArgTokens
         /\ tail[i].flag # NoFlag \/ tail[i].value # NoValue
         /\ tail[i].value # NoValue =>
              /\ \A j \in 1 .. Len(tail[i].value.words) : tail[i].value.words[j] # NoValue
              /\ tail[i].value.form # NoValue
              /\ tail[i].value.words \in
                   Seq({tail[i].value.words[j] : j \in 1 .. Len(tail[i].value.words)})
<1>1. tail[i] \in ArgTokens
  OBVIOUS
<1> QED
  BY <1>1, TokensAssumption

LEMMA OneElement == ASSUME NEW S, NEW ws \in Seq(S), Len(ws) = 1 PROVE ws = <<ws[1]>>
OBVIOUS

LEMMA PrintedIs ==
  ASSUME NEW tail \in Seq(ArgTokens), OneWord(tail), NEW i \in 1 .. Len(tail),
         NEW keep, tail[i].value # NoValue => (keep <=> KeptWhole(tail, i))
  PROVE  Printed(tail[i], keep) = <<Pair(tail, i)>>
<1>1. PICK t : t = tail[i]
  OBVIOUS
<1>2. CASE t.value = NoValue
  <2>1. Bare(t)
    BY <1>1, <1>2, TokenIs DEF Bare
  <2> QED
    BY <1>1, <1>2, <2>1 DEF Printed, Pair, Shown
<1>3. CASE t.value # NoValue
  <2>1. PICK ws : ws = CanonicalToken(t.value, keep)
    OBVIOUS
  <2>2. ws = <<Shown(tail, i)>>
    <3>1. CASE keep
      <4>1. KeptWhole(tail, i) /\ Len(t.value.words) = 1
        BY <1>1, <1>3, <3>1 DEF OneWord
      <4>2. t.value.words = <<t.value.words[1]>>
        BY <1>1, <1>3, <4>1, TokenIs, OneElement
      <4> QED
        BY <1>1, <1>3, <2>1, <3>1, <4>1, <4>2 DEF CanonicalToken, Shown
    <3>2. CASE ~keep
      BY <1>1, <1>3, <2>1, <3>2 DEF CanonicalToken, Shown
    <3> QED
      BY <3>1, <3>2
  <2>3. ~Bare(t)
    BY <1>3 DEF Bare
  <2>4. Printed(t, keep) = [j \in 1 .. Len(ws) |-> <<IF j = 1 THEN t.flag ELSE NoFlag, ws[j]>>]
    BY <2>1, <2>3 DEF Printed
  <2>5. Len(ws) = 1 /\ ws[1] = Shown(tail, i)
    BY <2>2
  <2>6. [j \in 1 .. 1 |-> <<IF j = 1 THEN t.flag ELSE NoFlag, ws[j]>>] = <<<<t.flag, ws[1]>>>>
    OBVIOUS
  <2> QED
    BY <1>1, <2>4, <2>5, <2>6 DEF Pair
<1> QED
  BY <1>2, <1>3

LEMMA SuffixIs ==
  ASSUME NEW tail \in Seq(ArgTokens)
  PROVE  \E P :
    /\ \A i \in 1 .. Len(tail) : Pair(tail, i) \in P
    /\ \A i \in 1 .. Len(tail) + 1 : Suffix(tail, i) \in Seq(P)
    /\ \A i \in 1 .. Len(tail) : Suffix(tail, i) = <<Pair(tail, i)>> \o Suffix(tail, i + 1)
    /\ Suffix(tail, Len(tail) + 1) = <<>>
<1> DEFINE n == Len(tail)
           p == [i \in 1 .. n |-> Pair(tail, i)]
           P == {p[i] : i \in 1 .. n}
<1>1. n \in Nat
  OBVIOUS
<1>2. \A i \in 1 .. n + 1 : Suffix(tail, i) = [j \in 1 .. n + 1 - i |-> p[i + j - 1]]
  BY <1>1 DEF Suffix
<1> HIDE DEF n
<1>3. \A i \in 1 .. n : Pair(tail, i) = p[i] /\ p[i] \in P
  OBVIOUS
<1> HIDE DEF p
<1>4. ASSUME NEW i \in 1 .. n + 1 PROVE Suffix(tail, i) \in Seq(P) /\ Len(Suffix(tail, i)) = n + 1 - i
  <2>1. \A j \in 1 .. n + 1 - i : p[i + j - 1] \in P
    <3> SUFFICES ASSUME NEW j \in 1 .. n + 1 - i PROVE p[i + j - 1] \in P
      OBVIOUS
    <3>1. i + j - 1 \in 1 .. n
      BY <1>1
    <3> QED
      BY <1>3, <3>1
  <2> HIDE DEF P
  <2>2. [j \in 1 .. n + 1 - i |-> p[i + j - 1]] \in [1 .. n + 1 - i -> P]
    BY <2>1
  <2>3. PICK m \in Nat : m = n + 1 - i
    BY <1>1
  <2>4. PICK s : s = Suffix(tail, i)
    OBVIOUS
  <2>5. s \in [1 .. m -> P]
    BY <1>2, <2>2, <2>3, <2>4
  <2>6. s \in Seq(P) /\ Len(s) = m
    BY <2>5
  <2> QED
    BY <2>3, <2>4, <2>6
<1> HIDE DEF P
<1>5. ASSUME NEW i \in 1 .. n PROVE Suffix(tail, i) = <<p[i]>> \o Suffix(tail, i + 1)
  <2>1. i \in 1 .. n + 1 /\ i + 1 \in 1 .. n + 1
    BY <1>1
  <2>2. PICK a, b : a = Suffix(tail, i) /\ b = Suffix(tail, i + 1)
    OBVIOUS
  <2>3. a \in Seq(P) /\ b \in Seq(P) /\ Len(a) = n + 1 - i /\ Len(b) = n - i /\ p[i] \in P
    <3>1. n + 1 - (i + 1) = n - i
      BY <1>1
    <3> QED
      BY <1>3, <1>4, <2>1, <2>2, <3>1
  <2>4. a = [j \in 1 .. n + 1 - i |-> p[i + j - 1]] /\ b = [j \in 1 .. n - i |-> p[i + j]]
    <3>1. n + 1 - (i + 1) = n - i
      BY <1>1
    <3>2. \A j \in 1 .. n - i : (i + 1) + j - 1 = i + j
      BY <1>1
    <3>3. b = [j \in 1 .. n + 1 - (i + 1) |-> p[(i + 1) + j - 1]]
      BY <1>2, <2>1, <2>2
    <3> QED
      BY <1>2, <2>1, <2>2, <3>1, <3>2, <3>3
  <2>5. PICK c : c = <<p[i]>> \o b
    OBVIOUS
  <2>6. /\ c \in Seq(P) /\ Len(c) = n + 1 - i
        /\ \A j \in 1 .. Len(c) : c[j] = IF j <= 1 THEN <<p[i]>>[j] ELSE b[j - 1]
    <3>1. <<p[i]>> \in Seq(P) /\ Len(<<p[i]>>) = 1
      BY <2>3
    <3>2. /\ c \in Seq(P) /\ Len(c) = 1 + Len(b)
          /\ \A j \in 1 .. Len(c) : c[j] = IF j <= 1 THEN <<p[i]>>[j] ELSE b[j - 1]
      BY <2>3, <2>5, <3>1, ConcatProperties
    <3> QED
      BY <1>1, <2>3, <3>2
  <2>7. ASSUME NEW j \in 1 .. n + 1 - i PROVE a[j] = c[j]
    <3>1. a[j] = p[i + j - 1]
      BY <2>4
    <3>2. CASE j = 1
      <4>1. i + j - 1 = i
        BY <3>2
      <4> QED
        BY <1>1, <2>6, <3>1, <3>2, <4>1
    <3>3. CASE j # 1
      <4>1. c[j] = b[j - 1] /\ j - 1 \in 1 .. n - i
        BY <1>1, <2>6, <3>3
      <4>2. b[j - 1] = p[i + (j - 1)]
        BY <2>4, <4>1
      <4>3. i + (j - 1) = i + j - 1
        BY <1>1
      <4> QED
        BY <3>1, <4>1, <4>2, <4>3
    <3> QED
      BY <3>2, <3>3
  <2>8. a = c
    BY <1>1, <2>3, <2>6, <2>7
  <2> QED
    BY <2>2, <2>5, <2>8
<1>6. Suffix(tail, n + 1) = <<>>
  BY <1>1, <1>4
<1> QED
  BY <1>3, <1>4, <1>5, <1>6 DEF n

LEMMA CanonicalIs ==
  ASSUME NEW tail \in Seq(ArgTokens), OneWord(tail)
  PROVE  CanonicalizeArgv(tail) = [i \in 1 .. Len(tail) |-> Pair(tail, i)]
<1> DEFINE n == Len(tail)
           f == CanonicalFrom(tail)
           Free(i) == i = 1 \/ ~TakesNext(tail, i - 1)
           S == {k \in Nat : \A i \in 1 .. n + 1 : i >= n + 1 - k /\ Free(i) => f[i] = Suffix(tail, i)}
<1>1. n \in Nat
  OBVIOUS
<1>2. PICK P :
        /\ \A i \in 1 .. n : Pair(tail, i) \in P
        /\ \A i \in 1 .. n + 1 : Suffix(tail, i) \in Seq(P)
        /\ \A i \in 1 .. n : Suffix(tail, i) = <<Pair(tail, i)>> \o Suffix(tail, i + 1)
        /\ Suffix(tail, n + 1) = <<>>
  BY SuffixIs
<1>3. \A i \in 1 .. n + 2 : f[i] = Step(tail, f, i)
  BY FromIs
<1> HIDE DEF n, f
<1>4. f[n + 1] = Suffix(tail, n + 1)
  <2>1. n + 1 \in 1 .. n + 2 /\ n + 1 > n
    BY <1>1
  <2>2. Step(tail, f, n + 1) = <<>>
    BY <2>1 DEF Step, n
  <2> QED
    BY <1>2, <1>3, <2>1, <2>2
<1>5. 0 \in S
  BY <1>1, <1>4
<1>6. ASSUME NEW k \in Nat, k \in S PROVE k + 1 \in S
  <2> SUFFICES ASSUME NEW i \in 1 .. n + 1, i >= n + 1 - (k + 1), Free(i)
               PROVE  f[i] = Suffix(tail, i)
    BY <1>6
  <2>1. CASE i = n + 1
    BY <1>4, <2>1
  <2>2. CASE i <= n
    <3>1. i \in 1 .. n /\ i \in 1 .. n + 2 /\ ~(i > n)
      BY <1>1, <2>2
    <3>2. Suffix(tail, i) = <<Pair(tail, i)>> \o Suffix(tail, i + 1)
      BY <1>2, <3>1
    <3>3. CASE TakesNext(tail, i)
      <4>1. Bare(tail[i]) /\ i + 1 \in 1 .. n /\ tail[i + 1].flag = NoFlag
        BY <1>1, <3>1, <3>3 DEF TakesNext, n
      <4>2. Printed(tail[i], FALSE) = <<Pair(tail, i)>>
        BY <3>1, <4>1, PrintedIs DEF Bare, n
      <4>3. tail[i].flag \in ShapeFlags <=> KeptWhole(tail, i + 1)
        <5>1. i + 1 > 1 /\ (i + 1) - 1 = i
          BY <3>1
        <5> QED
          BY <4>1, <5>1, ShapeAssumption DEF KeptWhole
      <4>4. Printed(tail[i + 1], tail[i].flag \in ShapeFlags) = <<Pair(tail, i + 1)>>
        <5>1. PICK keep : keep = (tail[i].flag \in ShapeFlags)
          BY Zenon
        <5> QED
          BY <4>1, <4>3, <5>1, PrintedIs DEF n
      <4>5. ~TakesNext(tail, i + 1)
        BY <4>1 DEF TakesNext, Bare
      <4>6. f[i + 2] = Suffix(tail, i + 2)
        <5>1. i + 2 \in 1 .. n + 1 /\ i + 2 >= n + 1 - k /\ (i + 2) - 1 = i + 1
          BY <1>1, <4>1
        <5> QED
          BY <1>6, <4>5, <5>1
      <4>7. f[i] = (<<Pair(tail, i)>> \o <<Pair(tail, i + 1)>>) \o Suffix(tail, i + 2)
        BY <1>3, <3>1, <3>3, <4>2, <4>4, <4>6 DEF Step, n
      <4>8. Suffix(tail, i + 1) = <<Pair(tail, i + 1)>> \o Suffix(tail, i + 2)
        <5>1. (i + 1) + 1 = i + 2
          BY <3>1
        <5> QED
          BY <1>2, <4>1, <5>1
      <4>9. /\ <<Pair(tail, i)>> \in Seq(P) /\ <<Pair(tail, i + 1)>> \in Seq(P)
            /\ Suffix(tail, i + 2) \in Seq(P)
        <5>1. i + 2 \in 1 .. n + 1
          BY <1>1, <4>1
        <5> QED
          BY <1>2, <3>1, <4>1, <5>1
      <4> QED
        BY <3>2, <4>7, <4>8, <4>9, ConcatAssociative
    <3>4. CASE ~TakesNext(tail, i)
      <4>1. tail[i].value # NoValue => (tail[i].flag \in ShapeFlags <=> KeptWhole(tail, i))
        <5>1. ASSUME i > 1, tail[i].flag = NoFlag, Bare(tail[i - 1]) PROVE FALSE
          <6>1. i - 1 < n /\ (i - 1) + 1 = i
            BY <1>1, <3>1
          <6> QED
            BY <3>1, <5>1, <6>1 DEF TakesNext, n
        <5> QED
          BY <5>1 DEF KeptWhole
      <4>2. Printed(tail[i], tail[i].flag \in ShapeFlags) = <<Pair(tail, i)>>
        <5>1. PICK keep : keep = (tail[i].flag \in ShapeFlags)
          BY Zenon
        <5> QED
          BY <3>1, <4>1, <5>1, PrintedIs DEF n
      <4>3. f[i + 1] = Suffix(tail, i + 1)
        <5>1. i + 1 \in 1 .. n + 1 /\ i + 1 >= n + 1 - k /\ (i + 1) - 1 = i
          BY <1>1, <3>1
        <5> QED
          BY <1>6, <3>4, <5>1
      <4> QED
        BY <1>3, <3>1, <3>2, <3>4, <4>2, <4>3 DEF Step, n
    <3> QED
      BY <3>3, <3>4
  <2> QED
    BY <1>1, <2>1, <2>2
<1>7. n \in S
  <2> HIDE DEF S
  <2> QED
    BY <1>1, <1>5, <1>6, NatSetInduction
<1>8. f[1] = Suffix(tail, 1)
  BY <1>1, <1>7
<1>9. Suffix(tail, 1) = [i \in 1 .. n |-> Pair(tail, i)]
  <2>1. \A j \in 1 .. n : 1 + j - 1 = j
    OBVIOUS
  <2>2. n + 1 - 1 = n
    BY <1>1
  <2> QED
    BY <2>1, <2>2 DEF Suffix, n
<1> QED
  BY <1>8, <1>9 DEF CanonicalizeArgv, f, n

LEMMA ShownIs ==
  ASSUME NEW tail \in Seq(ArgTokens), OneWord(tail), NEW i \in 1 .. Len(tail)
  PROVE  Distinctive(tail)[i] =
           [flag |-> tail[i].flag,
            value |-> IF Shown(tail, i) = NoValue THEN <<>> ELSE <<Shown(tail, i)>>]
<1>1. PICK t, s : t = tail[i] /\ s = Shown(tail, i)
  OBVIOUS
<1>2. Distinctive(tail)[i] =
        [flag |-> t.flag,
         value |-> IF t.value = NoValue THEN <<>>
                   ELSE IF KeptWhole(tail, i) THEN t.value.words ELSE <<t.value.form>>]
  BY <1>1 DEF Distinctive
<1>3. CASE t.value = NoValue
  BY <1>1, <1>2, <1>3 DEF Shown
<1>4. CASE t.value # NoValue /\ KeptWhole(tail, i)
  <2>1. Len(t.value.words) = 1
    BY <1>1, <1>4 DEF OneWord
  <2>2. t.value.words = <<t.value.words[1]>>
    BY <1>1, <1>4, <2>1, TokenIs, OneElement
  <2>3. t.value.words[1] # NoValue
    <3>1. \A j \in 1 .. Len(t.value.words) : t.value.words[j] # NoValue
      BY <1>1, <1>4, TokenIs
    <3>2. 1 \in 1 .. Len(t.value.words)
      BY <2>1
    <3> QED
      BY <3>1, <3>2
  <2>4. s = t.value.words[1]
    BY <1>1, <1>4 DEF Shown
  <2> QED
    BY <1>1, <1>2, <1>4, <2>2, <2>3, <2>4
<1>5. CASE t.value # NoValue /\ ~KeptWhole(tail, i)
  <2>1. s = t.value.form /\ t.value.form # NoValue
    BY <1>1, <1>5, TokenIs DEF Shown
  <2> QED
    BY <1>1, <1>2, <1>5, <2>1
<1> QED
  BY <1>3, <1>4, <1>5

LEMMA ApartIs ==
  ASSUME NEW s \in Seq(ArgTokens), NEW t \in Seq(ArgTokens), OneWord(s), OneWord(t)
  PROVE  CanonicalizeArgv(s) = CanonicalizeArgv(t) <=> Distinctive(s) = Distinctive(t)
<1> DEFINE p == [i \in 1 .. Len(s) |-> Pair(s, i)]
           q == [i \in 1 .. Len(t) |-> Pair(t, i)]
<1>1. CanonicalizeArgv(s) = p /\ CanonicalizeArgv(t) = q
  BY CanonicalIs
<1>2. Len(s) \in Nat /\ Len(t) \in Nat
  OBVIOUS
<1>3. DOMAIN Distinctive(s) = 1 .. Len(s) /\ DOMAIN Distinctive(t) = 1 .. Len(t)
  BY DEF Distinctive
<1>4. ASSUME p = q PROVE Distinctive(s) = Distinctive(t)
  <2>1. 1 .. Len(s) = 1 .. Len(t)
    <3>1. DOMAIN p = 1 .. Len(s) /\ DOMAIN q = 1 .. Len(t)
      OBVIOUS
    <3> QED
      BY <1>4, <3>1
  <2>2. ASSUME NEW i \in 1 .. Len(s) PROVE Distinctive(s)[i] = Distinctive(t)[i]
    <3>1. Pair(s, i) = Pair(t, i)
      <4>1. p[i] = Pair(s, i) /\ q[i] = Pair(t, i)
        BY <2>1
      <4> QED
        BY <1>4, <4>1
    <3>2. s[i].flag = t[i].flag /\ Shown(s, i) = Shown(t, i)
      BY <3>1 DEF Pair
    <3> QED
      BY <2>1, <3>2, ShownIs
  <2>3. /\ Distinctive(s) = [i \in 1 .. Len(s) |-> Distinctive(s)[i]]
        /\ Distinctive(t) = [i \in 1 .. Len(t) |-> Distinctive(t)[i]]
    BY DEF Distinctive
  <2> QED
    BY <2>1, <2>2, <2>3
<1>5. ASSUME Distinctive(s) = Distinctive(t) PROVE p = q
  <2>1. 1 .. Len(s) = 1 .. Len(t)
    BY <1>3, <1>5
  <2>2. ASSUME NEW i \in 1 .. Len(s) PROVE Pair(s, i) = Pair(t, i)
    <3>1. PICK a, b : a = Shown(s, i) /\ b = Shown(t, i)
      OBVIOUS
    <3>2. [flag |-> s[i].flag, value |-> IF a = NoValue THEN <<>> ELSE <<a>>] =
          [flag |-> t[i].flag, value |-> IF b = NoValue THEN <<>> ELSE <<b>>]
      BY <1>5, <2>1, <3>1, ShownIs
    <3>3. /\ s[i].flag = t[i].flag
          /\ (IF a = NoValue THEN <<>> ELSE <<a>>) = (IF b = NoValue THEN <<>> ELSE <<b>>)
      BY <3>2
    <3>4. a = b
      BY <3>3
    <3> QED
      BY <3>1, <3>3, <3>4 DEF Pair
  <2> QED
    BY <2>1, <2>2
<1> HIDE DEF p, q
<1> QED
  BY <1>1, <1>4, <1>5

\* The two commands compared are always a program and a sequence of tokens.
THEOREM FingerprintTypeCorrect == FingerprintSpec => []FingerprintTypeOK
<1>1. ASSUME FingerprintInit PROVE FingerprintTypeOK
  BY <1>1 DEF FingerprintInit, FingerprintTypeOK
<1>2. ASSUME FingerprintTypeOK, [FingerprintNext]_fingerprintVars PROVE FingerprintTypeOK'
  <2> USE <1>2 DEF FingerprintTypeOK
  <2>1. CASE AddToken
    <3>1. PICK t \in ArgTokens : argv' = [argv EXCEPT !.tail = Append(@, t)]
      BY <2>1 DEF AddToken
    <3>2. other' = argv'
      BY <2>1 DEF AddToken
    <3>3. argv \in [bin : Programs, tail : Seq(ArgTokens)]
      OBVIOUS
    <3>4. argv' \in [bin : Programs, tail : Seq(ArgTokens)]
      <4>1. Append(argv.tail, t) \in Seq(ArgTokens)
        BY <3>3
      <4> QED
        BY <3>1, <3>3, <4>1
    <3> QED
      BY <3>2, <3>4
  <2>2. CASE Differ
    <3>1. argv' = argv /\ other = argv
      BY <2>2 DEF Differ
    <3>2. CASE \E b \in Programs : other' = [argv EXCEPT !.bin = b]
      BY <3>1, <3>2
    <3>3. ASSUME NEW i \in 1 .. Len(argv.tail), NEW s \in BoundedSeq(ArgTokens, 2),
                 other' = [argv EXCEPT !.tail = SubSeq(@, 1, i - 1) \o s \o SubSeq(@, i + 1, Len(@))]
          PROVE  other' \in [bin : Programs, tail : Seq(ArgTokens)]
      <4>1. s \in Seq(ArgTokens)
        <5>1. PICK m \in 0 .. 2 : s \in [1 .. m -> ArgTokens]
          BY DEF BoundedSeq, SeqOf
        <5> QED
          BY <5>1
      <4>2. PICK u : u = argv.tail
        OBVIOUS
      <4>3. u \in Seq(ArgTokens) /\ i \in 1 .. Len(u)
        BY <4>2
      <4>4. SubSeq(u, 1, i - 1) \in Seq(ArgTokens) /\ SubSeq(u, i + 1, Len(u)) \in Seq(ArgTokens)
        BY <4>3
      <4>5. SubSeq(u, 1, i - 1) \o s \o SubSeq(u, i + 1, Len(u)) \in Seq(ArgTokens)
        BY <4>1, <4>4
      <4> QED
        BY <3>3, <4>2, <4>5
    <3> QED
      BY <2>2, <3>1, <3>2, <3>3 DEF Differ
  <2>3. CASE UNCHANGED fingerprintVars
    BY <2>3 DEF fingerprintVars
  <2> QED
    BY <1>2, <2>1, <2>2, <2>3 DEF FingerprintNext
<1> QED
  BY <1>1, <1>2, PTL DEF FingerprintSpec

\* Commands have one fingerprint if and only if their stems and what tells them
\* apart agree token by token, whatever their length and order: nid neither mixes
\* what it learned of two commands nor learns one twice (fingerprint.rs:17).
THEOREM FingerprintApartHolds == FingerprintSpec => []FingerprintApart
<1>1. FingerprintTypeOK => FingerprintApart
  <2> SUFFICES ASSUME FingerprintTypeOK, OneWord(argv.tail), OneWord(other.tail)
               PROVE  FingerprintOf(argv) = FingerprintOf(other) <=>
                        /\ argv.bin.stem = other.bin.stem
                        /\ Distinctive(argv.tail) = Distinctive(other.tail)
    BY DEF FingerprintApart, OneWord
  <2>1. CanonicalizeArgv(argv.tail) = CanonicalizeArgv(other.tail) <=>
          Distinctive(argv.tail) = Distinctive(other.tail)
    <3>1. argv.tail \in Seq(ArgTokens) /\ other.tail \in Seq(ArgTokens)
      BY DEF FingerprintTypeOK
    <3> QED
      BY <3>1, ApartIs
  <2>2. FingerprintOf(argv) = FingerprintOf(other) <=>
          /\ argv.bin.stem = other.bin.stem
          /\ CanonicalizeArgv(argv.tail) = CanonicalizeArgv(other.tail)
    BY DEF FingerprintOf
  <2> QED
    BY <2>1, <2>2
<1> QED
  BY <1>1, FingerprintTypeCorrect, PTL

-----------------------------------------------------------------------------
(* The parts side by side.                                                 *)

\* The specification that the run `install` explores, with all parts of nid around
\* its store side by side, implements the specification of each: a step of one part
\* is a stutter of the others.  What is proved of a part therefore holds of them all
\* together.
THEOREM PartsKeepTheirSpecs ==
  InstallSpec => /\ FingerprintSpec /\ CaptureSpec /\ KeySpec /\ OnboardSpec
                 /\ HookSpec /\ UpdateSpec /\ TrustSpec
<1>1. InstallInit => /\ FingerprintInit /\ CaptureInit /\ KeyInit /\ OnboardInit
                     /\ HookInit /\ UpdateInit /\ TrustInit
  BY DEF InstallInit
<1>2. [InstallNext]_installVars => [FingerprintNext]_fingerprintVars
  BY DEF InstallNext, installVars
<1>3. [InstallNext]_installVars => [CaptureNext]_captureVars
  BY DEF InstallNext, installVars
<1>4. [InstallNext]_installVars => [KeyNext]_keyVars
  BY DEF InstallNext, installVars
<1>5. [InstallNext]_installVars => [OnboardNext]_onboardVars
  BY DEF InstallNext, installVars
<1>6. [InstallNext]_installVars => [HookNext]_hookVars
  BY DEF InstallNext, installVars
<1>7. [InstallNext]_installVars => [UpdateNext]_updateVars
  BY DEF InstallNext, installVars
<1>8. [InstallNext]_installVars => [TrustNext]_trustVars
  BY DEF InstallNext, installVars
<1>9. QED
  BY <1>1, <1>2, <1>3, <1>4, <1>5, <1>6, <1>7, <1>8, PTL
     DEF InstallSpec, FingerprintSpec, CaptureSpec, KeySpec, OnboardSpec, HookSpec,
         UpdateSpec, TrustSpec

\* The type invariant of the run: the files, tables, processes and locals of whichever
\* part moves keep their types.
THEOREM InstallTypeCorrect == InstallSpec => []InstallTypeOK
<1>1. /\ FingerprintTypeOK /\ CaptureTypeOK /\ KeyTypeOK /\ OnboardTypeOK
      /\ HookTypeOK /\ UpdateTypeOK /\ TrustTypeOK
      => InstallTypeOK
  BY DEF InstallTypeOK
<1>2. QED
  BY <1>1, PartsKeepTheirSpecs, FingerprintTypeCorrect, CaptureTypeCorrect, KeyTypeCorrect,
     OnboardTypeCorrect, HookTypeCorrect, UpdateTypeCorrect, TrustTypeCorrect, PTL
=============================================================================
