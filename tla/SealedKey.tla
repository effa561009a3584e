------------------------------ MODULE SealedKey ------------------------------
(***************************************************************************)
(* The machine-local key that seals raw output (crates/nid-core/src/       *)
(* sealed.rs), and the commands that load it: `nid <cmd>`, which seals the *)
(* raw output it puts in the blob store (run.rs), and `nid show`, which    *)
(* opens it again (show.rs).                                               *)
(*                                                                         *)
(* A key file is made on the first use: the process that finds none, and   *)
(* no blob either, draws a key, writes it to the path `key.keytmp` that    *)
(* every process uses, and renames that over `key`.  No lock is held from  *)
(* the read to the rename.  A step below is one file call; the blob store  *)
(* has its own module.  A key read or drawn stays in the process's memory. *)
(***************************************************************************)
EXTENDS Naturals

CONSTANTS
  Users,     \* the nid processes that may run at once
  Keys,      \* the keys that may be drawn
  NoKey,     \* no file there, or no key in hand
  TornKey,   \* a key file of the wrong size
  Raws,      \* the sessions whose raw output is kept
  NoRaw,
  MaxKills   \* bound: processes killed

ASSUME KeysAssumption  == NoKey \notin Keys /\ TornKey \notin Keys /\ NoKey # TornKey
ASSUME RawsAssumption  == NoRaw \notin Raws
ASSUME KillsAssumption == MaxKills \in Nat

VARIABLES
  keyFile,   \* <data>/key
  keyTmp,    \* <data>/key.keytmp
  drawn,     \* the keys drawn so far
  raw,       \* the key each raw blob in the store is sealed with
  rows,      \* the sessions on record
  others,    \* the other blobs there are: compressed outputs, samples and DSLs
  step,      \* where each process is
  call,      \* its command, its session, the seal of the blob it has read
  hand,      \* the key it has
  open,      \* where the key file it is writing is linked now
  saved,     \* the key file the user removed last
  kills,     \* processes killed
  oneByOne   \* while there is no key file, processes run one after another

keyFiles  == <<keyFile, keyTmp, drawn>>
store     == <<raw, rows, others>>
locals    == <<step, call, hand, open>>
world     == <<saved, kills, oneByOne>>
keyVars   == <<keyFile, keyTmp, drawn, raw, rows, others, step, call, hand, open,
               saved, kills, oneByOne>>

FileStates == Keys \cup {NoKey, TornKey}
Creating == {"create", "write", "chmod", "rename"}
AtWork   == {"read", "probe", "seal", "record", "open"} \cup Creating

NoCommand == [op |-> "none", raw |-> NoRaw, seal |-> NoKey]

KeyTypeOK ==
  /\ keyFile \in FileStates /\ keyTmp \in FileStates
  /\ drawn \in SUBSET Keys
  /\ raw \in [Raws -> Keys \cup {NoKey}]
  /\ rows \in SUBSET Raws
  /\ others \in SUBSET {"compressed", "kept"}
  /\ step \in [Users -> AtWork \cup {"idle"}]
  /\ call \in [Users -> [op : {"none", "run", "show"}, raw : Raws \cup {NoRaw},
                         seal : Keys \cup {NoKey}]]
  /\ hand \in [Users -> Keys \cup {NoKey}]
  /\ open \in [Users -> {"none", "tmp", "key", "gone"}]
  /\ saved \in Keys \cup {NoKey}
  /\ kills \in Nat
  /\ oneByOne \in BOOLEAN

KeyInit ==
  /\ keyFile = NoKey /\ keyTmp = NoKey
  /\ drawn = {}
  /\ raw = [r \in Raws |-> NoKey]
  /\ rows = {}
  /\ others = {}
  /\ step = [p \in Users |-> "idle"]
  /\ call = [p \in Users |-> NoCommand]
  /\ hand = [p \in Users |-> NoKey]
  /\ open = [p \in Users |-> "none"]
  /\ saved = NoKey
  /\ kills = 0
  /\ oneByOne \in BOOLEAN

-----------------------------------------------------------------------------
Quiet == \A p \in Users : step[p] = "idle"

\* A command starts: beside whatever runs, or alone while there is no key.
MayRun(p) == step[p] = "idle" /\ (oneByOne => keyFile \in Keys \/ Quiet)

GoOn(p, s) == step' = [step EXCEPT ![p] = s]

\* The process ends, normally or with an error.
Quit(p) ==
  /\ GoOn(p, "idle")
  /\ call' = [call EXCEPT ![p] = NoCommand]
  /\ hand' = [hand EXCEPT ![p] = NoKey]
  /\ open' = [open EXCEPT ![p] = "none"]

\* With the key in hand, run goes on to seal and show to open.
Use(p) == IF call[p].op = "run" THEN "seal" ELSE "open"

\* blobs_dir_contains_sealed_blob: any file of the store counts, sealed or not.
BlobsExist == others # {} \/ \E r \in Raws : raw[r] # NoKey

-----------------------------------------------------------------------------
(* load_or_create_key_safe, inside `nid <cmd>` and `nid show`.             *)

\* `nid <cmd>` whose raw output is to be kept has run the command.
StartRun(p) ==
  /\ MayRun(p)
  /\ \E r \in Raws \ rows :
       /\ raw[r] = NoKey
       /\ \A q \in Users : call[q].raw # r
       /\ call' = [call EXCEPT ![p] = [op |-> "run", raw |-> r, seal |-> NoKey]]
  /\ GoOn(p, "read")
  /\ UNCHANGED <<keyFiles, store, hand, open, world>>

\* `nid show`: the session is on record and its blob is read before the key.
StartShow(p) ==
  /\ MayRun(p)
  /\ \E r \in rows :
       /\ raw[r] # NoKey
       /\ call' = [call EXCEPT ![p] = [op |-> "show", raw |-> r, seal |-> raw[r]]]
  /\ GoOn(p, "read")
  /\ UNCHANGED <<keyFiles, store, hand, open, world>>

\* A file of the right size is the key, one of a wrong size is an error.
ReadKey(p) ==
  /\ step[p] = "read"
  /\ \/ /\ keyFile \in Keys
        /\ hand' = [hand EXCEPT ![p] = keyFile]
        /\ GoOn(p, Use(p))
        /\ UNCHANGED <<call, open>>
     \/ keyFile = TornKey /\ Quit(p)
     \/ /\ keyFile = NoKey
        /\ GoOn(p, "probe")
        /\ UNCHANGED <<call, hand, open>>
  /\ UNCHANGED <<keyFiles, store, world>>

\* Mutant of Probe: the key is drawn whatever the store holds.
ProbeSkipped(p) ==
  /\ step[p] = "probe"
  /\ \E k \in Keys \ drawn :
       /\ drawn' = drawn \cup {k}
       /\ hand' = [hand EXCEPT ![p] = k]
  /\ GoOn(p, "create")
  /\ UNCHANGED <<keyFile, keyTmp, store, call, open, world>>

\* The key is missing: the process refuses if the store holds a blob, and
\* draws a key if it is empty.
Probe(p) ==
  /\ step[p] = "probe"
  /\ \/ /\ BlobsExist
        /\ Quit(p)
        /\ UNCHANGED drawn
     \/ /\ ~BlobsExist
        /\ \E k \in Keys \ drawn :
             /\ drawn' = drawn \cup {k}
             /\ hand' = [hand EXCEPT ![p] = k]
        /\ GoOn(p, "create")
        /\ UNCHANGED <<call, open>>
  /\ UNCHANGED <<keyFile, keyTmp, store, world>>

\* fs::write opens the temporary file and truncates it, ...
CreateTmp(p) ==
  /\ step[p] = "create"
  /\ keyTmp' = TornKey
  /\ open' = [open EXCEPT ![p] = "tmp"]
  /\ GoOn(p, "write")
  /\ UNCHANGED <<keyFile, drawn, store, call, hand, world>>

\* Mutant of WriteTmp: a short write that nothing checks.
WriteTmpShort(p) ==
  /\ step[p] = "write"
  /\ open' = [open EXCEPT ![p] = "none"]
  /\ GoOn(p, "chmod")
  /\ UNCHANGED <<keyFiles, store, call, hand, world>>

\* ... writes the key, wherever that file has been renamed to, and closes it.
WriteTmp(p) ==
  /\ step[p] = "write"
  /\ keyTmp' = IF open[p] = "tmp" THEN hand[p] ELSE keyTmp
  /\ keyFile' = IF open[p] = "key" THEN hand[p] ELSE keyFile
  /\ open' = [open EXCEPT ![p] = "none"]
  /\ GoOn(p, "chmod")
  /\ UNCHANGED <<drawn, store, call, hand, world>>

\* set_permissions is by path: an error if another process took the file.
Chmod(p) ==
  /\ step[p] = "chmod"
  /\ \/ /\ keyTmp # NoKey
        /\ GoOn(p, "rename")
        /\ UNCHANGED <<call, hand, open>>
     \/ keyTmp = NoKey /\ Quit(p)
  /\ UNCHANGED <<keyFiles, store, world>>

\* Whatever is at the temporary path replaces the key file; the process goes
\* on with the key it drew itself.
RenameTmp(p) ==
  /\ step[p] = "rename"
  /\ \/ /\ keyTmp # NoKey
        /\ keyFile' = keyTmp
        /\ keyTmp' = NoKey
        /\ open' = [q \in Users |-> IF open[q] = "tmp" THEN "key"
                                    ELSE IF open[q] = "key" THEN "gone" ELSE open[q]]
        /\ GoOn(p, Use(p))
        /\ UNCHANGED <<call, hand>>
     \/ /\ keyTmp = NoKey
        /\ Quit(p)
        /\ UNCHANGED <<keyFile, keyTmp>>
  /\ UNCHANGED <<drawn, store, world>>

-----------------------------------------------------------------------------
(* The uses of the key, and what else fills and empties the store.         *)

\* seal and store.put(.., Raw).
Seal(p) ==
  /\ step[p] = "seal"
  /\ raw' = [raw EXCEPT ![call[p].raw] = hand[p]]
  /\ GoOn(p, "record")
  /\ UNCHANGED <<keyFiles, rows, others, call, hand, open, world>>

\* The compressed output, possibly a sample, and the session row; an error
\* before the row leaves the blob to nobody (the kill).
Record(p) ==
  /\ step[p] = "record"
  /\ rows' = rows \cup {call[p].raw}
  /\ \E kept \in {{}, {"kept"}} : others' = others \cup {"compressed"} \cup kept
  /\ Quit(p)
  /\ UNCHANGED <<keyFiles, raw, world>>

\* sealed::open: the plaintext, or the error that the key is another one.
OpenRaw(p) ==
  /\ step[p] = "open"
  /\ Quit(p)
  /\ UNCHANGED <<keyFiles, store, world>>

\* A run whose raw output is not kept, or an import: blobs without a key.
PutOther ==
  /\ \E b \in {"compressed", "kept"} : others' = others \cup {b}
  /\ UNCHANGED <<keyFiles, raw, rows, locals, world>>

\* `nid gc --retention-days 0`: the outputs of every session on record go, the
\* samples, the DSLs and the blobs without an owner stay.
Purge ==
  /\ raw' = [r \in Raws |-> IF r \in rows THEN NoKey ELSE raw[r]]
  /\ rows' = {}
  /\ others' = others \ {"compressed"}
  /\ UNCHANGED <<keyFiles, locals, world>>

\* A process is killed.
Kill(p) ==
  /\ step[p] # "idle"
  /\ kills < MaxKills
  /\ kills' = kills + 1
  /\ Quit(p)
  /\ UNCHANGED <<keyFiles, store, saved, oneByOne>>

\* The key file is copied and removed, ...
Lose ==
  /\ keyFile \in Keys
  /\ oneByOne => Quiet
  /\ saved' = keyFile
  /\ keyFile' = NoKey
  /\ open' = [p \in Users |-> IF open[p] = "key" THEN "gone" ELSE open[p]]
  /\ UNCHANGED <<keyTmp, drawn, store, step, call, hand, kills, oneByOne>>

\* ... and put back from the copy: option (a) of the refusal's message.
Restore ==
  /\ saved # NoKey /\ keyFile = NoKey
  /\ oneByOne => Quiet
  /\ keyFile' = saved
  /\ UNCHANGED <<keyTmp, drawn, store, locals, world>>

LoadKey(p) ==
  \/ ReadKey(p) \/ Probe(p) \/ CreateTmp(p) \/ WriteTmp(p) \/ Chmod(p) \/ RenameTmp(p)

KeyNext ==
  \/ \E p \in Users :
       \/ StartRun(p) \/ StartShow(p) \/ LoadKey(p)
       \/ Seal(p) \/ Record(p) \/ OpenRaw(p) \/ Kill(p)
  \/ PutOther \/ Purge \/ Lose \/ Restore

KeySpec == KeyInit /\ [][KeyNext]_keyVars

-----------------------------------------------------------------------------
(* Properties.                                                             *)

\* Raw output is never orphaned by a new key (the safety note at sealed.rs:57):
\* if the first uses come one after another, every raw blob in the store is
\* sealed with the key of the key file, or with the one the user took away,
\* through kills, removals of the key file and purges.
SealedOpens ==
  oneByOne => \A r \in Raws : raw[r] # NoKey =>
                 \/ keyFile = raw[r]
                 \/ keyFile = NoKey /\ saved = raw[r]

\* However first uses overlap, a key file of the wrong size ("Write atomic" at
\* sealed.rs:104) is one that some process has yet to write, or was killed
\* before it had.
TornExplained ==
  keyFile = TornKey => kills > 0 \/ \E p \in Users : open[p] = "key"

=============================================================================
