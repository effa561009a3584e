------------------------------- MODULE Update -------------------------------
(***************************************************************************)
(* `nid update` (crates/nid-cli/src/cmd/update.rs): the verification of a  *)
(* release tarball, with the walk of its rotation chain from the anchor    *)
(* baked into the build (RotationChain::resolve, nid-core/src/signing.rs), *)
(* and the replacement of the running binary.                              *)
(*                                                                         *)
(* The new binary goes through the path `nid.new`, which every update      *)
(* uses, without a lock.  A step is one file call.  A file is the release  *)
(* its bytes are those of, or torn; its mode is left out.                  *)
(***************************************************************************)
EXTENDS Naturals, Sequences

CONSTANTS
  Updaters,     \* the update commands that may run at once
  ReleaseKeys,  \* the keys that sign releases
  Anchor,       \* the one baked into an anchored build
  Releases,     \* the tarballs there are
  Original,     \* the binary installed first
  TornBinary, NoBinary,
  NoRelease,
  MaxHops,      \* 64 in the code
  MaxUpdateKills  \* bound: updates killed

\* A link: the key `from` attests `to`; good: its fields agree and the signature
\* holds.  A release: sound: all four entries are there, the manifest is signed
\* by signer.pub, and names it; intact: the binary has the manifest's hash.
Links == [from : ReleaseKeys, to : ReleaseKeys, good : BOOLEAN]

ASSUME AnchorAssumption == Anchor \in ReleaseKeys
ASSUME ReleasesAssumption ==
  \A r \in Releases : /\ r.signer \in ReleaseKeys
                      /\ r.chain \in Seq(Links)
                      /\ {r.sound, r.intact} \subseteq BOOLEAN
ASSUME BinariesAssumption ==
  /\ {Original, TornBinary, NoBinary, NoRelease} \cap Releases = {}
  /\ Original \notin {TornBinary, NoBinary} /\ TornBinary # NoBinary
ASSUME UpdateBoundsAssumption == MaxHops \in Nat /\ MaxUpdateKills \in Nat

VARIABLES
  exe,        \* the path nid is run from
  newFile,    \* nid.new
  oldFile,    \* nid.old, on Windows
  stray,      \* "nid (deleted)", which is what Linux calls a replaced executable
  phase,      \* where each update is
  release,    \* the release it has read
  target,     \* current_exe() as it found it
  handle,     \* where the file it is writing is linked now
  replaced,   \* the running updates whose executable was replaced since they began
  updateKills,
  build,      \* what the build and the environment say of the anchor
  windows,
  alone       \* updates run one after another

files       == <<exe, newFile, oldFile, stray>>
updaters    == <<phase, release, target, handle, replaced>>
platform    == <<build, windows, alone>>
updateVars  == <<exe, newFile, oldFile, stray, phase, release, target, handle, replaced,
                 updateKills, build, windows, alone>>

Whole == Releases \cup {Original}

UpdateTypeOK ==
  /\ exe \in Whole \cup {TornBinary, NoBinary}
  /\ {newFile, oldFile, stray} \subseteq Whole \cup {TornBinary, NoBinary}
  /\ phase \in [Updaters -> {"idle", "verify", "path", "create", "write", "chmod",
                             "drop", "aside", "swap"}]
  /\ release \in [Updaters -> Releases \cup {NoRelease}]
  /\ target \in [Updaters -> {"none", "exe", "stray"}]
  /\ handle \in [Updaters -> {"none", "new", "exe", "old", "stray", "gone"}]
  /\ replaced \in SUBSET Updaters
  /\ updateKills \in 0 .. MaxUpdateKills
  /\ build \in {"anchored", "unanchored", "override"}
  /\ windows \in BOOLEAN
  /\ alone \in BOOLEAN

UpdateInit ==
  /\ exe = Original
  /\ newFile = NoBinary /\ oldFile = NoBinary /\ stray = NoBinary
  /\ phase = [u \in Updaters |-> "idle"]
  /\ release = [u \in Updaters |-> NoRelease]
  /\ target = [u \in Updaters |-> "none"]
  /\ handle = [u \in Updaters |-> "none"]
  /\ replaced = {}
  /\ updateKills = 0
  /\ build \in {"anchored", "unanchored", "override"}
  /\ windows \in BOOLEAN
  /\ alone \in BOOLEAN

-----------------------------------------------------------------------------
(* extract_and_verify.                                                     *)

\* The link the walk takes from a key is the first one there is.
LinksFrom(chain, k) == {i \in 1 .. Len(chain) : chain[i].from = k}
FirstFrom(chain, k) ==
  CHOOSE i \in LinksFrom(chain, k) : \A j \in LinksFrom(chain, k) : i <= j

\* Mutant of Advances: the signature of a link is not verified.
AdvancesUnverified(chain, k) == LinksFrom(chain, k) # {}

\* ... and an error ends the walk if it is not good.
Advances(chain, k) == LinksFrom(chain, k) # {} /\ chain[FirstFrom(chain, k)].good

\* RotationChain::resolve: the key reached after n links, from the anchor.
Resolves(chain, k) ==
  LET walk[n \in 0 .. MaxHops + 1] ==
        IF n = 0 THEN {Anchor}
        ELSE {chain[FirstFrom(chain, j)].to : j \in {i \in walk[n - 1] : Advances(chain, i)}}
  IN  \E n \in 0 .. MaxHops + 1 : k \in walk[n]

Anchored(r) ==
  CASE build = "anchored"   -> Resolves(r.chain, r.signer)
    [] build = "unanchored" -> FALSE
    [] build = "override"   -> TRUE

Verified(r) == r.sound /\ r.intact /\ Anchored(r)

-----------------------------------------------------------------------------
(* run_from_tarball, run_from_latest_release and swap_binary.              *)

Still == \A u \in Updaters : phase[u] = "idle"
Goto(u, s) == phase' = [phase EXCEPT ![u] = s]

Leave(u) ==
  /\ Goto(u, "idle")
  /\ release' = [release EXCEPT ![u] = NoRelease]
  /\ target' = [target EXCEPT ![u] = "none"]
  /\ handle' = [handle EXCEPT ![u] = "none"]
  /\ replaced' = replaced \ {u}

\* The installed binary starts and reads a tarball, from a file or the network.
StartUpdate(u) ==
  /\ phase[u] = "idle"
  /\ exe \in Whole
  /\ alone => Still
  /\ \E r \in Releases : release' = [release EXCEPT ![u] = r]
  /\ Goto(u, "verify")
  /\ UNCHANGED <<files, target, handle, replaced, updateKills, platform>>

\* A tarball that is not verified is an error; --dry-run stops here as well.
VerifyRelease(u) ==
  /\ phase[u] = "verify"
  /\ \/ /\ Verified(release[u])
        /\ Goto(u, "path")
        /\ UNCHANGED <<release, target, handle, replaced>>
     \/ Leave(u)
  /\ UNCHANGED <<files, updateKills, platform>>

\* current_exe: Linux names an executable that was replaced "nid (deleted)".
FindSelf(u) ==
  /\ phase[u] = "path"
  /\ target' = [target EXCEPT ![u] = IF u \in replaced /\ ~windows THEN "stray" ELSE "exe"]
  /\ Goto(u, "create")
  /\ UNCHANGED <<files, release, handle, replaced, updateKills, platform>>

\* Mutant of CreateNew: the new binary is written over the old one.
CreateInPlace(u) ==
  /\ phase[u] = "create"
  /\ exe' = TornBinary
  /\ handle' = [handle EXCEPT ![u] = "exe"]
  /\ Goto(u, "write")
  /\ UNCHANGED <<newFile, oldFile, stray, release, target, replaced, updateKills, platform>>

\* fs::write opens nid.new and truncates it, ...
CreateNew(u) ==
  /\ phase[u] = "create"
  /\ newFile' = TornBinary
  /\ handle' = [handle EXCEPT ![u] = "new"]
  /\ Goto(u, "write")
  /\ UNCHANGED <<exe, oldFile, stray, release, target, replaced, updateKills, platform>>

\* ... and writes the file it opened, wherever that is by now.
WriteNew(u) ==
  /\ phase[u] = "write"
  /\ newFile' = IF handle[u] = "new" THEN release[u] ELSE newFile
  /\ exe' = IF handle[u] = "exe" THEN release[u] ELSE exe
  /\ oldFile' = IF handle[u] = "old" THEN release[u] ELSE oldFile
  /\ stray' = IF handle[u] = "stray" THEN release[u] ELSE stray
  /\ handle' = [handle EXCEPT ![u] = "none"]
  /\ Goto(u, IF windows THEN "drop" ELSE "chmod")
  /\ UNCHANGED <<release, target, replaced, updateKills, platform>>

\* Unix: by path, an error if another update took the file.
ChmodNew(u) ==
  /\ phase[u] = "chmod"
  /\ \/ /\ newFile # NoBinary
        /\ Goto(u, "swap")
        /\ UNCHANGED <<release, target, handle, replaced>>
     \/ newFile = NoBinary /\ Leave(u)
  /\ UNCHANGED <<files, updateKills, platform>>

\* Where files that are open go when the file at one path is moved to another.
Moved(from, to) ==
  [u \in Updaters |-> IF handle[u] = from THEN to ELSE IF handle[u] = to THEN "gone" ELSE handle[u]]

\* Windows: the backup of the update before is removed, ...
DropOld(u) ==
  /\ phase[u] = "drop"
  /\ oldFile' = NoBinary
  /\ handle' = [v \in Updaters |-> IF handle[v] = "old" THEN "gone" ELSE handle[v]]
  /\ Goto(u, "aside")
  /\ UNCHANGED <<exe, newFile, stray, release, target, replaced, updateKills, platform>>

\* ... and the running executable is moved out of the way, if it is there.
MoveAside(u) ==
  /\ phase[u] = "aside"
  /\ IF exe # NoBinary
     THEN /\ oldFile' = exe /\ exe' = NoBinary
          /\ handle' = Moved("exe", "old")
     ELSE UNCHANGED <<exe, oldFile, handle>>
  /\ Goto(u, "swap")
  /\ UNCHANGED <<newFile, stray, release, target, replaced, updateKills, platform>>

\* Whatever is at nid.new becomes the executable; an error if nothing is.
SwapIn(u) ==
  /\ phase[u] = "swap"
  /\ \/ /\ newFile # NoBinary
        /\ newFile' = NoBinary
        /\ IF target[u] = "exe"
           THEN /\ exe' = newFile /\ UNCHANGED stray
                /\ replaced' = {v \in Updaters \ {u} : phase[v] # "idle"}
           ELSE /\ stray' = newFile /\ UNCHANGED exe
                /\ replaced' = replaced \ {u}
        /\ handle' = [Moved("new", target[u]) EXCEPT ![u] = "none"]
        /\ release' = [release EXCEPT ![u] = NoRelease]
        /\ target' = [target EXCEPT ![u] = "none"]
        /\ Goto(u, "idle")
     \/ newFile = NoBinary /\ Leave(u) /\ UNCHANGED <<exe, newFile, stray>>
  /\ UNCHANGED <<oldFile, updateKills, platform>>

\* The update is killed, or fails on a file.
KillUpdate(u) ==
  /\ phase[u] # "idle"
  /\ updateKills < MaxUpdateKills
  /\ updateKills' = updateKills + 1
  /\ Leave(u)
  /\ UNCHANGED <<files, platform>>

UpdateNext ==
  \E u \in Updaters :
    \/ StartUpdate(u) \/ VerifyRelease(u) \/ FindSelf(u) \/ CreateNew(u) \/ WriteNew(u)
    \/ ChmodNew(u) \/ DropOld(u) \/ MoveAside(u) \/ SwapIn(u) \/ KillUpdate(u)

UpdateSpec == UpdateInit /\ [][UpdateNext]_updateVars

-----------------------------------------------------------------------------
(* Properties.                                                             *)

\* The keys the anchor vouches for: in every set of keys that holds the anchor
\* and, with a key, what its good links in the chain attest.
Vouched(chain) ==
  {k \in ReleaseKeys :
     \A S \in SUBSET ReleaseKeys :
       Anchor \in S /\ (\A i \in 1 .. Len(chain) :
                          chain[i].good /\ chain[i].from \in S => chain[i].to \in S)
       => k \in S}

\* Whatever updates overlap or are killed, every whole binary an update leaves at
\* one of its paths is one whose manifest and hash held, and on an anchored build
\* one whose signer the anchor vouches for; an unanchored build takes none unless
\* the user says so (update.rs:224).
InstalledTrusted ==
  \A f \in {exe, newFile, oldFile, stray} \cap Releases :
    /\ f.sound /\ f.intact
    /\ build # "unanchored"
    /\ build = "anchored" => f.signer \in Vouched(f.chain)

\* There is always a binary to run, through kills at any step, if updates run
\* one after another; on Windows it may be in nid.old only.  If they overlap, a
\* torn executable is one that is being written, or whose writer was killed.
BinaryWhole ==
  /\ exe = NoBinary /\ alone => windows /\ oldFile \in Whole
  /\ exe = TornBinary => ~alone /\ (updateKills > 0 \/ \E u \in Updaters : handle[u] = "exe")
=============================================================================
