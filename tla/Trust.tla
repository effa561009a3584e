------------------------------- MODULE Trust --------------------------------
(***************************************************************************)
(* The keyring of signers and the import of signed profiles: `nid trust`   *)
(* (crates/nid-cli/src/cmd/trust.rs, nid-storage/src/trust_repo.rs), the   *)
(* .nidprofile bundle (nid-dsl/src/nidprofile.rs) and `nid profiles export *)
(* | import` (cmd/profiles.rs).                                            *)
(*                                                                         *)
(* An import reads the active key ids once and then verifies, asks, stores *)
(* and promotes without a lock, so keys come and go under it; one that is  *)
(* killed takes no further step.  What else the rows of `profiles` go      *)
(* through is in Profiles; the DSL blob is in BlobStore.                   *)
(***************************************************************************)
EXTENDS Naturals, FiniteSets

CONSTANTS
  Importers,     \* the import commands that may run at once
  Signers,       \* the keys there are; a key id stands for its key
  Fingerprints,  \* the commands profiles are for
  Nobody,
  Tarballs,      \* the bundles that are imported
  MaxRows        \* bound: rows of `profiles`

ASSUME SignersAssumption == Nobody \notin Signers
ASSUME RowsAssumption == MaxRows \in Nat \ {0}

\* A bundle.  pub: signer.pub; names: the signer in the manifest; signed: the key
\* the signature over the manifest verifies under, if any; body: the profile is
\* the one the manifest has the hash of; valid: it parses and validates.
Bundles == [fp : Fingerprints, pub : Signers, names : Signers,
            signed : Signers \cup {Nobody}, body : BOOLEAN, valid : BOOLEAN]

\* pack: what `nid profiles export --key k` writes of a bundled profile.
Packed(f, k) == [fp |-> f, pub |-> k, names |-> k, signed |-> k, body |-> TRUE, valid |-> TRUE]

\* What becomes of a bundle under way: one of its parts is another one.
Altered(b) ==
  {[b EXCEPT !.pub = k] : k \in Signers} \cup {[b EXCEPT !.names = k] : k \in Signers}
    \cup {[b EXCEPT !.signed = Nobody], [b EXCEPT !.body = FALSE], [b EXCEPT !.valid = FALSE]}

Bundled  == {Packed(f, k) : f \in Fingerprints, k \in Signers}

ASSUME TarballsAssumption == Tarballs \subseteq Bundled \cup UNION {Altered(b) : b \in Bundled}

VARIABLES
  trustKeys,   \* trust_keys: absent, active or revoked
  place,       \* where each import is
  bundle,      \* the bundle it has read
  flags,       \* --allow-unsigned was given, the user's yes was
  known,       \* the ids active_ids gave it
  rowId,       \* the row it has inserted
  since,       \* history: its signer was active at some time from its start to that read
  rowOf        \* the rows of `profiles` with their status and how they came to be

held      == <<bundle, flags, known, rowId, since>>
trustVars == <<trustKeys, place, bundle, flags, known, rowId, since, rowOf>>

NoBundle == [fp |-> Nobody]
ImportRows == [status : {"pending", "active", "superseded"}, bundle : Bundles,
               cleared : SUBSET {"keyring", "yes"}]
NoImportRow == [status |-> "none"]
RowIds   == 1 .. MaxRows

ActiveIds == {k \in Signers : trustKeys[k] = "active"}

TrustTypeOK ==
  /\ trustKeys \in [Signers -> {"absent", "active", "revoked"}]
  /\ place \in [Importers -> {"idle", "keys", "verify", "confirm", "retry",
                              "insert", "promote"}]
  /\ bundle \in [Importers -> Bundles \cup {NoBundle}]
  /\ flags \in [Importers -> SUBSET {"allow", "yes"}]
  /\ known \in [Importers -> SUBSET Signers]
  /\ since \in [Importers -> BOOLEAN]
  /\ rowId \in [Importers -> RowIds \cup {0}]
  /\ rowOf \in [RowIds -> ImportRows \cup {NoImportRow}]

TrustInit ==
  /\ trustKeys = [k \in Signers |-> "absent"]
  /\ place = [p \in Importers |-> "idle"]
  /\ bundle = [p \in Importers |-> NoBundle]
  /\ flags = [p \in Importers |-> {}]
  /\ known = [p \in Importers |-> {}]
  /\ rowId = [p \in Importers |-> 0]
  /\ since = [p \in Importers |-> FALSE]
  /\ rowOf = [i \in RowIds |-> NoImportRow]

-----------------------------------------------------------------------------
(* nid trust add | revoke.                                                 *)

\* Imports that have not read the keyring may still see a key that is active.
SetKey(k, s) ==
  /\ trustKeys' = [trustKeys EXCEPT ![k] = s]
  /\ since' = [p \in Importers |->
                 since[p] \/ (place[p] = "keys" /\ s = "active" /\ bundle[p].pub = k)]
  /\ UNCHANGED <<place, bundle, flags, known, rowId, rowOf>>

\* A new row, or the one there was with its revocation taken back.
TrustAdd(k) == trustKeys[k] # "active" /\ SetKey(k, "active")

\* A row stays, and so do the profiles its key has signed.
TrustRevoke(k) == trustKeys[k] = "active" /\ SetKey(k, "revoked")

-----------------------------------------------------------------------------
(* unpack_and_verify.                                                      *)

Untrusted(b, ids) == b.pub \notin ids

\* The signature, the name in the manifest, the hash of the body, the profile.
Authentic(b) == b.signed = b.pub /\ b.names = b.pub /\ b.body /\ b.valid

\* UntrustedSigner is also what a manifest that names another key ends in, when
\* its signature holds.
SaysUntrusted(b, ids) == Untrusted(b, ids) \/ (b.signed = b.pub /\ b.names # b.pub)

-----------------------------------------------------------------------------
(* nid profiles import [--allow-unsigned].                                 *)

At(p, s) == place' = [place EXCEPT ![p] = s]

Stop(p) ==
  /\ At(p, "idle")
  /\ bundle' = [bundle EXCEPT ![p] = NoBundle]
  /\ flags' = [flags EXCEPT ![p] = {}]
  /\ known' = [known EXCEPT ![p] = {}]
  /\ rowId' = [rowId EXCEPT ![p] = 0]
  /\ since' = [since EXCEPT ![p] = FALSE]

\* The ids are not used again.
Forget(p) ==
  /\ known' = [known EXCEPT ![p] = {}]
  /\ UNCHANGED <<bundle, flags, rowId, since>>

\* As long as there is a row for it.
StartImport(p) ==
  /\ place[p] = "idle"
  /\ \E i \in RowIds : rowOf[i] = NoImportRow
  /\ \E b \in Tarballs :
       /\ bundle' = [bundle EXCEPT ![p] = b]
       /\ since' = [since EXCEPT ![p] = b.pub \in ActiveIds]
  /\ \E f \in SUBSET {"allow"} : flags' = [flags EXCEPT ![p] = f]
  /\ At(p, "keys")
  /\ UNCHANGED <<trustKeys, known, rowId, rowOf>>

\* Mutant of ReadKeys: list_active without its WHERE clause.
ReadKeysRevoked(p) ==
  /\ place[p] = "keys"
  /\ known' = [known EXCEPT ![p] = {k \in Signers : trustKeys[k] # "absent"}]
  /\ At(p, "verify")
  /\ UNCHANGED <<trustKeys, bundle, flags, rowId, since, rowOf>>

\* active_ids
ReadKeys(p) ==
  /\ place[p] = "keys"
  /\ known' = [known EXCEPT ![p] = ActiveIds]
  /\ At(p, "verify")
  /\ UNCHANGED <<trustKeys, bundle, flags, rowId, since, rowOf>>

VerifyBundle(p) ==
  /\ place[p] = "verify"
  /\ LET b == bundle[p]
         ids == known[p] IN
       \/ ~Untrusted(b, ids) /\ Authentic(b) /\ Forget(p) /\ At(p, "insert")
       \/ SaysUntrusted(b, ids) /\ "allow" \in flags[p] /\ Forget(p) /\ At(p, "confirm")
       \/ /\ Untrusted(b, ids) \/ ~Authentic(b)
          /\ SaysUntrusted(b, ids) => "allow" \notin flags[p]
          /\ Stop(p)
  /\ UNCHANGED <<trustKeys, rowOf>>

\* NID_UNTRUSTED_OK=1, or the user types yes; anything else ends the import.
Confirm(p) ==
  /\ place[p] = "confirm"
  /\ \/ /\ flags' = [flags EXCEPT ![p] = @ \cup {"yes"}]
        /\ At(p, "retry")
        /\ UNCHANGED <<bundle, known, rowId, since>>
     \/ Stop(p)
  /\ UNCHANGED <<trustKeys, rowOf>>

\* The bundle is verified again with its own signer as the only one trusted: all
\* but the trust must hold.
Retry(p) ==
  /\ place[p] = "retry"
  /\ \/ Authentic(bundle[p]) /\ At(p, "insert") /\ UNCHANGED held
     \/ ~Authentic(bundle[p]) /\ Stop(p)
  /\ UNCHANGED <<trustKeys, rowOf>>

NewRow(p, st) ==
  [status |-> st, bundle |-> bundle[p],
   cleared |-> (flags[p] \ {"allow"}) \cup (IF since[p] THEN {"keyring"} ELSE {})]

InsertAs(p, st) ==
  /\ place[p] = "insert"
  /\ \E i \in RowIds :
       /\ rowOf[i] = NoImportRow /\ \A j \in 1 .. i - 1 : rowOf[j] # NoImportRow
       /\ rowOf' = [rowOf EXCEPT ![i] = NewRow(p, st)]
       /\ rowId' = [rowId EXCEPT ![p] = i]
  /\ flags' = [flags EXCEPT ![p] = {}]
  /\ since' = [since EXCEPT ![p] = FALSE]
  /\ At(p, "promote")
  /\ UNCHANGED <<trustKeys, bundle, known>>

\* Mutant of InsertImported: the provenance goes into the column of the status.
InsertSwapped(p) == InsertAs(p, "imported")

\* store.put(.., Dsl), whose blob BlobStore has, and insert_pending; an error if
\* there is a row of the fingerprint with the same version.
InsertImported(p) ==
  \/ InsertAs(p, "pending")
  \/ /\ place[p] = "insert"
     /\ \E i \in RowIds : rowOf[i] # NoImportRow /\ rowOf[i].bundle.fp = bundle[p].fp
     /\ Stop(p)
     /\ UNCHANGED <<trustKeys, rowOf>>

\* The row is active, and whatever was active for its fingerprint is superseded.
PromoteImported(p) ==
  /\ place[p] = "promote"
  /\ rowOf' = [i \in RowIds |->
                 IF i = rowId[p] THEN [rowOf[i] EXCEPT !.status = "active"]
                 ELSE IF rowOf[i].status = "active" /\ rowOf[i].bundle.fp = bundle[p].fp
                      THEN [rowOf[i] EXCEPT !.status = "superseded"]
                      ELSE rowOf[i]]
  /\ Stop(p)
  /\ UNCHANGED trustKeys

TrustNext ==
  \/ \E k \in Signers : TrustAdd(k) \/ TrustRevoke(k)
  \/ \E p \in Importers :
       \/ StartImport(p) \/ ReadKeys(p) \/ VerifyBundle(p) \/ Confirm(p) \/ Retry(p)
       \/ InsertImported(p) \/ PromoteImported(p)

TrustSpec == TrustInit /\ [][TrustNext]_trustVars

-----------------------------------------------------------------------------
(* Properties.                                                             *)

\* No row of `profiles`, active or not, holds a bundle that was altered, or one
\* whose signer was not in the keyring and active at any moment from the start of
\* its import to the read of the keyring, unless the user said yes to it: "Future
\* imports are refused" (README.md:530), whatever imports, adds and revocations
\* overlap.  A revocation after the read comes too late for that one import.
RevokedStaysOut ==
  \A i \in RowIds : rowOf[i] # NoImportRow =>
    /\ rowOf[i].bundle \in Bundled
    /\ rowOf[i].cleared # {}
=============================================================================
