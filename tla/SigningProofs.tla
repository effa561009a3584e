---------------------------- MODULE SigningProofs ----------------------------
(***************************************************************************)
(* Theorems about the three components whose subject is what may be        *)
(* opened, taken in or run: SealedKey, Trust and Update; for any number of *)
(* processes, imports, updates, keys, signers, releases and kills.         *)
(***************************************************************************)
EXTENDS SealedKey, Trust, Update, SetInduction, TLAPS

-----------------------------------------------------------------------------
(* SealedKey.                                                              *)
(*                                                                         *)
(* That no raw output is orphaned when first uses come one after another   *)
(* rests on what holds around the creation of a key: the process that      *)
(* creates it is alone and the store is empty, and from the rename on      *)
(* whoever is about to seal has the key of the file in hand.               *)

\* A process under way has a session.
Called == \A p \in Users : step[p] # "idle" => call[p].raw \in Raws

\* A file is open from its creation to the write only.
OpenWrites == \A p \in Users : open[p] # "none" => step[p] = "write"

\* A torn temporary file is one that some process has yet to write.
TornAhead == keyTmp = TornKey => kills > 0 \/ \E p \in Users : open[p] = "tmp"

\* Until there is a key one process runs at a time, ...
KeyAlone == keyFile \notin Keys =>
           \A p, q \in Users : step[p] # "idle" /\ step[q] # "idle" => p = q

\* ... it finds none before it draws one, while the store is empty, ...
Drawing == \A p \in Users :
  /\ step[p] \in Creating \cup {"probe"} => keyFile = NoKey
  /\ step[p] \in Creating => hand[p] \in Keys /\ \A r \in Raws : raw[r] = NoKey
  /\ step[p] = "write" => open[p] = "tmp"
  /\ step[p] \in {"chmod", "rename"} => keyTmp = hand[p]

\* ... and what seals is the key of the file.
Loaded == \A p \in Users : step[p] \in {"seal", "record"} => keyFile \in Keys /\ hand[p] = keyFile

InTurn ==
  /\ keyFile # TornKey
  /\ KeyAlone
  /\ Drawing
  /\ Loaded

KeyInv ==
  /\ KeyTypeOK
  /\ Called
  /\ OpenWrites
  /\ TornAhead
  /\ TornExplained
  /\ oneByOne => InTurn
  /\ SealedOpens

-----------------------------------------------------------------------------
\* A process that ends leaves well-typed locals, and no file open.
KeyLocalsOK ==
  /\ step \in [Users -> AtWork \cup {"idle"}]
  /\ call \in [Users -> [op : {"none", "run", "show"}, raw : Raws \cup {NoRaw},
                         seal : Keys \cup {NoKey}]]
  /\ hand \in [Users -> Keys \cup {NoKey}]
  /\ open \in [Users -> {"none", "tmp", "key", "gone"}]

LEMMA QuitLocals == ASSUME KeyTypeOK, NEW p \in Users, Quit(p) PROVE KeyLocalsOK'
BY DEF KeyTypeOK, KeyLocalsOK, Quit, GoOn, NoCommand

LEMMA KeyTypeStep == KeyTypeOK /\ Called /\ [KeyNext]_keyVars => KeyTypeOK'
<1> SUFFICES ASSUME KeyTypeOK, Called, [KeyNext]_keyVars PROVE KeyTypeOK'
  OBVIOUS
<1>. USE KeysAssumption, RawsAssumption, KillsAssumption
<1>. USE DEF KeyTypeOK, keyFiles, store, locals, world, FileStates, AtWork, Creating, GoOn, Use,
     NoCommand
<1>1. ASSUME NEW p \in Users, StartRun(p) PROVE KeyTypeOK'
  BY <1>1 DEF StartRun
<1>2. ASSUME NEW p \in Users, StartShow(p) PROVE KeyTypeOK'
  BY <1>2 DEF StartShow
<1>3. ASSUME NEW p \in Users, ReadKey(p) PROVE KeyTypeOK'
  <2>1. CASE Quit(p)
    BY <1>3, <2>1, QuitLocals DEF ReadKey, KeyLocalsOK
  <2>2. CASE ~Quit(p)
    <3>1. hand' \in [Users -> Keys \cup {NoKey}]
      BY <1>3, <2>2 DEF ReadKey
    <3>2. step' \in [Users -> AtWork \cup {"idle"}]
      BY <1>3, <2>2 DEF ReadKey
    <3>3. UNCHANGED <<keyFile, keyTmp, drawn, raw, rows, others, call, open, saved, kills, oneByOne>>
      BY <1>3, <2>2 DEF ReadKey
    <3>4. QED
      BY <3>1, <3>2, <3>3
  <2>3. QED
    BY <2>1, <2>2
<1>4. ASSUME NEW p \in Users, Probe(p) PROVE KeyTypeOK'
  <2>1. CASE Quit(p)
    BY <1>4, <2>1, QuitLocals DEF Probe, KeyLocalsOK
  <2>2. CASE ~Quit(p)
    BY <1>4, <2>2 DEF Probe
  <2>3. QED
    BY <2>1, <2>2
<1>5. ASSUME NEW p \in Users, CreateTmp(p) PROVE KeyTypeOK'
  BY <1>5 DEF CreateTmp
<1>6. ASSUME NEW p \in Users, WriteTmp(p) PROVE KeyTypeOK'
  BY <1>6 DEF WriteTmp
<1>7. ASSUME NEW p \in Users, Chmod(p) PROVE KeyTypeOK'
  <2>1. CASE Quit(p)
    BY <1>7, <2>1, QuitLocals DEF Chmod, KeyLocalsOK
  <2>2. CASE ~Quit(p)
    BY <1>7, <2>2 DEF Chmod
  <2>3. QED
    BY <2>1, <2>2
<1>8. ASSUME NEW p \in Users, RenameTmp(p) PROVE KeyTypeOK'
  <2>1. CASE Quit(p)
    BY <1>8, <2>1, QuitLocals DEF RenameTmp, KeyLocalsOK
  <2>2. CASE ~Quit(p)
    BY <1>8, <2>2 DEF RenameTmp
  <2>3. QED
    BY <2>1, <2>2
<1>9. ASSUME NEW p \in Users, Seal(p) PROVE KeyTypeOK'
  BY <1>9 DEF Seal
<1>10. ASSUME NEW p \in Users, Record(p) PROVE KeyTypeOK'
  <2>1. rows' \in SUBSET Raws
    BY <1>10 DEF Record, Called
  <2>2. PICK kept \in {{}, {"kept"}} : others' = others \cup {"compressed"} \cup kept
    BY <1>10 DEF Record
  <2>3. others' \in SUBSET {"compressed", "kept"}
    BY <2>2
  <2>4. QED
    BY <1>10, <2>1, <2>3, QuitLocals DEF Record, KeyLocalsOK
<1>11. ASSUME NEW p \in Users, OpenRaw(p) PROVE KeyTypeOK'
  BY <1>11, QuitLocals DEF OpenRaw, KeyLocalsOK
<1>12. ASSUME NEW p \in Users, Kill(p) PROVE KeyTypeOK'
  BY <1>12, QuitLocals DEF Kill, KeyLocalsOK
<1>13. CASE PutOther
  BY <1>13 DEF PutOther
<1>14. CASE Purge
  BY <1>14 DEF Purge
<1>15. CASE Lose
  BY <1>15 DEF Lose
<1>16. CASE Restore
  BY <1>16 DEF Restore
<1>17. CASE UNCHANGED keyVars
  BY <1>17 DEF keyVars
<1>18. QED
  BY <1>1, <1>2, <1>3, <1>4, <1>5, <1>6, <1>7, <1>8, <1>9, <1>10, <1>11, <1>12, <1>13, <1>14,
     <1>15, <1>16, <1>17 DEF KeyNext, LoadKey

LEMMA CalledStep == KeyTypeOK /\ Called /\ [KeyNext]_keyVars => Called'
<1> SUFFICES ASSUME KeyTypeOK, Called, [KeyNext]_keyVars PROVE Called'
  OBVIOUS
<1>. USE DEF KeyTypeOK, Called, keyFiles, store, locals, world, GoOn, Quit, Use
<1>1. ASSUME NEW p \in Users, StartRun(p) \/ StartShow(p) PROVE Called'
  BY <1>1 DEF StartRun, StartShow
<1>2. ASSUME NEW p \in Users, ReadKey(p) PROVE Called'
  BY <1>2 DEF ReadKey
<1>3. ASSUME NEW p \in Users, Probe(p) PROVE Called'
  BY <1>3 DEF Probe
<1>4. ASSUME NEW p \in Users, CreateTmp(p) \/ WriteTmp(p) PROVE Called'
  BY <1>4 DEF CreateTmp, WriteTmp
<1>5. ASSUME NEW p \in Users, Chmod(p) PROVE Called'
  BY <1>5 DEF Chmod
<1>6. ASSUME NEW p \in Users, RenameTmp(p) PROVE Called'
  BY <1>6 DEF RenameTmp
<1>7. ASSUME NEW p \in Users, Seal(p) PROVE Called'
  BY <1>7 DEF Seal
<1>8. ASSUME NEW p \in Users, Record(p) \/ OpenRaw(p) \/ Kill(p) PROVE Called'
  BY <1>8 DEF Record, OpenRaw, Kill
<1>9. CASE PutOther \/ Purge \/ Lose \/ Restore
  BY <1>9 DEF PutOther, Purge, Lose, Restore
<1>10. CASE UNCHANGED keyVars
  BY <1>10 DEF keyVars
<1>11. QED
  BY <1>1, <1>2, <1>3, <1>4, <1>5, <1>6, <1>7, <1>8, <1>9, <1>10 DEF KeyNext, LoadKey

\* A torn file is followed from its creation to its rename and its write.
LEMMA KeyTornStep ==
  KeyTypeOK /\ OpenWrites /\ TornAhead /\ TornExplained /\ [KeyNext]_keyVars
    => OpenWrites' /\ TornAhead' /\ TornExplained'
<1> SUFFICES ASSUME KeyTypeOK, OpenWrites, TornAhead, TornExplained, [KeyNext]_keyVars
             PROVE  OpenWrites' /\ TornAhead' /\ TornExplained'
  OBVIOUS
<1>. USE KeysAssumption
<1>. USE DEF keyFiles, store, locals, world, GoOn, OpenWrites, TornAhead, TornExplained
<1>a. ASSUME NEW p \in Users, Quit(p), step[p] # "write", UNCHANGED <<keyFile, keyTmp, kills>>
      PROVE  OpenWrites' /\ TornAhead' /\ TornExplained'
  <2>1. open[p] = "none" /\ open' = open
    BY <1>a DEF KeyTypeOK, Quit
  <2>2. QED
    BY <1>a, <2>1 DEF KeyTypeOK, Quit
<1>b. ASSUME UNCHANGED <<keyFile, keyTmp, open, kills>>,
             \A p \in Users : step[p] = "write" => step'[p] = "write"
      PROVE  OpenWrites' /\ TornAhead' /\ TornExplained'
  BY <1>b
<1>1. ASSUME NEW p \in Users, StartRun(p) \/ StartShow(p)
      PROVE  OpenWrites' /\ TornAhead' /\ TornExplained'
  BY <1>1, <1>b DEF StartRun, StartShow, MayRun, KeyTypeOK
<1>2. ASSUME NEW p \in Users, ReadKey(p)
      PROVE  OpenWrites' /\ TornAhead' /\ TornExplained'
  <2>1. CASE Quit(p)
    BY <1>2, <2>1, <1>a DEF ReadKey, KeyTypeOK
  <2>2. CASE ~Quit(p)
    BY <1>2, <2>2, <1>b DEF ReadKey, KeyTypeOK
  <2>3. QED
    BY <2>1, <2>2
<1>3. ASSUME NEW p \in Users, Probe(p)
      PROVE  OpenWrites' /\ TornAhead' /\ TornExplained'
  <2>1. CASE Quit(p)
    BY <1>3, <2>1, <1>a DEF Probe, KeyTypeOK
  <2>2. CASE ~Quit(p)
    BY <1>3, <2>2, <1>b DEF Probe, KeyTypeOK
  <2>3. QED
    BY <2>1, <2>2
<1>4. ASSUME NEW p \in Users, CreateTmp(p)
      PROVE  OpenWrites' /\ TornAhead' /\ TornExplained'
  <2>1. open'[p] = "tmp" /\ \A q \in Users \ {p} : open'[q] = open[q]
    BY <1>4 DEF CreateTmp, KeyTypeOK
  <2>2. step'[p] = "write" /\ \A q \in Users \ {p} : step'[q] = step[q]
    BY <1>4 DEF CreateTmp, KeyTypeOK
  <2>3. open[p] = "none"
    BY <1>4 DEF CreateTmp
  <2>4. QED
    BY <1>4, <2>1, <2>2, <2>3 DEF CreateTmp
<1>5. ASSUME NEW p \in Users, WriteTmp(p)
      PROVE  OpenWrites' /\ TornAhead' /\ TornExplained'
  <2>1. open'[p] = "none" /\ \A q \in Users \ {p} : open'[q] = open[q]
    BY <1>5 DEF WriteTmp, KeyTypeOK
  <2>2. \A q \in Users \ {p} : step'[q] = step[q]
    BY <1>5 DEF WriteTmp, KeyTypeOK
  <2>3. hand[p] # TornKey
    BY DEF KeyTypeOK
  <2>4. QED
    BY <1>5, <2>1, <2>2, <2>3 DEF WriteTmp
<1>6. ASSUME NEW p \in Users, Chmod(p)
      PROVE  OpenWrites' /\ TornAhead' /\ TornExplained'
  <2>1. CASE Quit(p)
    BY <1>6, <2>1, <1>a DEF Chmod, KeyTypeOK
  <2>2. CASE ~Quit(p)
    BY <1>6, <2>2, <1>b DEF Chmod, KeyTypeOK
  <2>3. QED
    BY <2>1, <2>2
<1>7. ASSUME NEW p \in Users, RenameTmp(p)
      PROVE  OpenWrites' /\ TornAhead' /\ TornExplained'
  <2>1. CASE keyTmp = NoKey
    BY <1>7, <2>1, <1>a DEF RenameTmp, KeyTypeOK
  <2>2. CASE keyTmp # NoKey
    <3>1. /\ keyFile' = keyTmp /\ keyTmp' = NoKey /\ kills' = kills
          /\ \A q \in Users : /\ open[q] = "none" => open'[q] = "none"
                              /\ open[q] = "tmp" => open'[q] = "key"
      BY <1>7, <2>2 DEF RenameTmp
    <3>2. open[p] = "none" /\ \A q \in Users \ {p} : step'[q] = step[q]
      BY <1>7, <2>2 DEF RenameTmp, KeyTypeOK
    <3>3. QED
      BY <3>1, <3>2
  <2>3. QED
    BY <2>1, <2>2
<1>8. ASSUME NEW p \in Users, Seal(p)
      PROVE  OpenWrites' /\ TornAhead' /\ TornExplained'
  BY <1>8, <1>b DEF Seal, KeyTypeOK
<1>9. ASSUME NEW p \in Users, Record(p) \/ OpenRaw(p)
      PROVE  OpenWrites' /\ TornAhead' /\ TornExplained'
  BY <1>9, <1>a DEF Record, OpenRaw, KeyTypeOK
<1>10. ASSUME NEW p \in Users, Kill(p)
      PROVE  OpenWrites' /\ TornAhead' /\ TornExplained'
  <2>1. kills' > 0
    BY <1>10 DEF Kill, KeyTypeOK
  <2>2. open'[p] = "none" /\ \A q \in Users \ {p} : open'[q] = open[q] /\ step'[q] = step[q]
    BY <1>10 DEF Kill, Quit, KeyTypeOK
  <2>3. QED
    BY <2>1, <2>2
<1>11. CASE PutOther \/ Purge
  BY <1>11, <1>b DEF PutOther, Purge
<1>12. CASE Lose
  <2>1. \A q \in Users : /\ open[q] = "none" => open'[q] = "none"
                         /\ open[q] = "tmp" => open'[q] = "tmp"
    BY <1>12 DEF Lose
  <2>2. QED
    BY <1>12, <2>1 DEF Lose
<1>13. CASE Restore
  BY <1>13 DEF Restore, KeyTypeOK
<1>14. CASE UNCHANGED keyVars
  BY <1>14, <1>b DEF keyVars
<1>15. QED
  BY <1>1, <1>2, <1>3, <1>4, <1>5, <1>6, <1>7, <1>8, <1>9, <1>10, <1>11, <1>12, <1>13,
     <1>14 DEF KeyNext, LoadKey

-----------------------------------------------------------------------------
\* The raw blobs are sealed with the key of the file, or with the one put aside.
Matched == \A r \in Raws : raw[r] # NoKey => \/ keyFile = raw[r]
                                             \/ keyFile = NoKey /\ saved = raw[r]

\* One process moves, the others stay; what it may do depends on its new step.
MovesOn(p) == \A q \in Users \ {p} : step'[q] = step[q] /\ hand'[q] = hand[q] /\ open'[q] = open[q]

\* A process that ends, and one that is at a step that has nothing to hold.
LEMMA Ends ==
  ASSUME KeyTypeOK, InTurn, Matched, NEW p \in Users, MovesOn(p), step'[p] = "idle",
         UNCHANGED <<keyFile, keyTmp, raw, saved>>
  PROVE  InTurn' /\ Matched'
<1>1. KeyAlone'
  BY DEF InTurn, KeyAlone, MovesOn
<1>2. Drawing'
  BY DEF InTurn, Drawing, MovesOn, Creating
<1>3. Loaded'
  BY DEF InTurn, Loaded, MovesOn
<1>4. QED
  BY <1>1, <1>2, <1>3 DEF InTurn, Matched

LEMMA TurnStep ==
  ASSUME KeyTypeOK, Called, OpenWrites, oneByOne, InTurn, Matched, [KeyNext]_keyVars
  PROVE  InTurn' /\ Matched'
<1>. USE KeysAssumption
<1>. USE DEF keyFiles, store, locals, world, GoOn
<1>a. ASSUME NEW p \in Users, Quit(p) PROVE MovesOn(p) /\ step'[p] = "idle"
  BY <1>a DEF Quit, MovesOn, KeyTypeOK
<1>b. InTurn => /\ keyFile \in Keys \cup {NoKey}
                /\ KeyAlone /\ Drawing /\ Loaded
  BY DEF InTurn, KeyTypeOK, FileStates
<1>1. ASSUME NEW p \in Users, StartRun(p) \/ StartShow(p) PROVE InTurn' /\ Matched'
  <2>1. step'[p] = "read" /\ MovesOn(p) /\ step[p] = "idle"
    BY <1>1 DEF StartRun, StartShow, MayRun, MovesOn, KeyTypeOK
  <2>2. UNCHANGED <<keyFile, keyTmp, raw, saved>>
    BY <1>1 DEF StartRun, StartShow
  <2>3. keyFile \in Keys \/ Quiet
    BY <1>1 DEF StartRun, StartShow, MayRun
  <2>4. KeyAlone'
    BY <1>b, <2>1, <2>2, <2>3 DEF KeyAlone, Quiet, MovesOn
  <2>5. Drawing'
    BY <1>b, <2>1, <2>2 DEF Drawing, MovesOn, Creating
  <2>6. Loaded'
    BY <1>b, <2>1, <2>2 DEF Loaded, MovesOn
  <2>7. QED
    BY <2>2, <2>4, <2>5, <2>6 DEF InTurn, Matched
<1>2. ASSUME NEW p \in Users, ReadKey(p) PROVE InTurn' /\ Matched'
  <2>1. UNCHANGED <<keyFile, keyTmp, raw, saved>>
    BY <1>2 DEF ReadKey
  <2>2. CASE Quit(p)
    BY <1>a, <2>1, <2>2, Ends
  <2>3. CASE ~Quit(p)
    <3>1. MovesOn(p) /\ step[p] = "read"
      BY <1>2, <2>3 DEF ReadKey, MovesOn, KeyTypeOK
    <3>2. \/ keyFile \in Keys /\ hand'[p] = keyFile /\ step'[p] \in {"seal", "open"}
          \/ keyFile = NoKey /\ step'[p] = "probe"
      BY <1>2, <2>3 DEF ReadKey, Use, KeyTypeOK
    <3>3. KeyAlone'
      BY <1>b, <2>1, <3>1, <3>2 DEF KeyAlone, MovesOn
    <3>4. Drawing'
      BY <1>b, <2>1, <3>1, <3>2 DEF Drawing, MovesOn, Creating
    <3>5. Loaded'
      BY <1>b, <2>1, <3>1, <3>2 DEF Loaded, MovesOn
    <3>6. QED
      BY <2>1, <3>3, <3>4, <3>5 DEF InTurn, Matched
  <2>4. QED
    BY <2>2, <2>3
<1>3. ASSUME NEW p \in Users, Probe(p) PROVE InTurn' /\ Matched'
  <2>1. UNCHANGED <<keyFile, keyTmp, raw, saved>>
    BY <1>3 DEF Probe
  <2>2. CASE Quit(p)
    BY <1>a, <2>1, <2>2, Ends
  <2>3. CASE ~Quit(p)
    <3>1. MovesOn(p) /\ step[p] = "probe" /\ step'[p] = "create"
      BY <1>3, <2>3 DEF Probe, MovesOn, KeyTypeOK
    <3>2. hand'[p] \in Keys /\ \A r \in Raws : raw[r] = NoKey
      BY <1>3, <2>3 DEF Probe, BlobsExist, KeyTypeOK
    <3>3. keyFile = NoKey
      BY <1>b, <3>1 DEF Drawing
    <3>4. KeyAlone'
      BY <1>b, <2>1, <3>1 DEF KeyAlone, MovesOn
    <3>5. Drawing'
      BY <1>b, <2>1, <3>1, <3>2, <3>3 DEF Drawing, MovesOn, Creating
    <3>6. Loaded'
      BY <1>b, <2>1, <3>1 DEF Loaded, MovesOn
    <3>7. QED
      BY <2>1, <3>4, <3>5, <3>6 DEF InTurn, Matched
  <2>4. QED
    BY <2>2, <2>3
<1>4. ASSUME NEW p \in Users, step[p] \in Creating
      PROVE  /\ keyFile = NoKey /\ hand[p] \in Keys /\ \A r \in Raws : raw[r] = NoKey
             /\ \A q \in Users \ {p} : step[q] = "idle"
  <2>1. keyFile = NoKey
    BY <1>b, <1>4 DEF Drawing
  <2>2. step[p] # "idle"
    BY <1>4 DEF Creating
  <2>3. QED
    BY <1>b, <1>4, <2>1, <2>2 DEF Drawing, KeyAlone
<1>5. ASSUME NEW p \in Users, CreateTmp(p) PROVE InTurn' /\ Matched'
  <2>1. step[p] \in Creating
    BY <1>5 DEF CreateTmp, Creating
  <2>2. step'[p] = "write" /\ open'[p] = "tmp" /\ hand'[p] = hand[p]
    BY <1>5 DEF CreateTmp, KeyTypeOK
  <2>3. \A q \in Users \ {p} : step'[q] = "idle"
    BY <1>4, <1>5, <2>1 DEF CreateTmp, KeyTypeOK
  <2>4. UNCHANGED <<keyFile, raw, saved>>
    BY <1>5 DEF CreateTmp
  <2>5. QED
    BY <1>4, <2>1, <2>2, <2>3, <2>4 DEF InTurn, KeyAlone, Drawing, Loaded, Matched, Creating
<1>6. ASSUME NEW p \in Users, WriteTmp(p) PROVE InTurn' /\ Matched'
  <2>1. step[p] \in Creating
    BY <1>6 DEF WriteTmp, Creating
  <2>2. open[p] = "tmp"
    BY <1>b, <1>6 DEF WriteTmp, Drawing
  <2>3. step'[p] = "chmod" /\ hand'[p] = hand[p] /\ keyTmp' = hand[p]
    BY <1>6, <2>2 DEF WriteTmp, KeyTypeOK
  <2>4. \A q \in Users \ {p} : step'[q] = "idle"
    BY <1>4, <1>6, <2>1 DEF WriteTmp, KeyTypeOK
  <2>5. UNCHANGED <<keyFile, raw, saved>>
    BY <1>6, <2>2 DEF WriteTmp
  <2>6. QED
    BY <1>4, <2>1, <2>3, <2>4, <2>5 DEF InTurn, KeyAlone, Drawing, Loaded, Matched, Creating
<1>7. ASSUME NEW p \in Users, Chmod(p) PROVE InTurn' /\ Matched'
  <2>1. UNCHANGED <<keyFile, keyTmp, raw, saved>>
    BY <1>7 DEF Chmod
  <2>2. CASE Quit(p)
    BY <1>a, <2>1, <2>2, Ends
  <2>3. CASE ~Quit(p)
    <3>1. step[p] \in Creating /\ keyTmp = hand[p]
      BY <1>b, <1>7 DEF Chmod, Creating, Drawing
    <3>2. step'[p] = "rename" /\ hand' = hand
      BY <1>7, <2>3 DEF Chmod, KeyTypeOK
    <3>3. \A q \in Users \ {p} : step'[q] = "idle"
      BY <1>4, <1>7, <2>3, <3>1 DEF Chmod, KeyTypeOK
    <3>4. QED
      BY <1>4, <2>1, <3>1, <3>2, <3>3 DEF InTurn, KeyAlone, Drawing, Loaded, Matched, Creating
  <2>4. QED
    BY <2>2, <2>3
<1>8. ASSUME NEW p \in Users, RenameTmp(p) PROVE InTurn' /\ Matched'
  <2>1. step[p] \in Creating /\ keyTmp = hand[p]
    BY <1>b, <1>8 DEF RenameTmp, Creating, Drawing
  <2>2. keyTmp \in Keys /\ \A r \in Raws : raw[r] = NoKey
    BY <1>4, <2>1
  <2>3. keyFile' = hand[p] /\ hand' = hand /\ raw' = raw /\ step'[p] \in {"seal", "open"}
    BY <1>8, <2>1, <2>2 DEF RenameTmp, Use, KeyTypeOK
  <2>4. \A q \in Users \ {p} : step'[q] = "idle"
    BY <1>4, <1>8, <2>1, <2>2 DEF RenameTmp, KeyTypeOK
  <2>5. QED
    BY <2>1, <2>2, <2>3, <2>4 DEF InTurn, KeyAlone, Drawing, Loaded, Matched, Creating
<1>9. ASSUME NEW p \in Users, Seal(p) PROVE InTurn' /\ Matched'
  <2>1. keyFile \in Keys /\ hand[p] = keyFile
    BY <1>b, <1>9 DEF Seal, Loaded
  <2>2. step'[p] = "record" /\ \A q \in Users \ {p} : step'[q] = step[q]
    BY <1>9 DEF Seal, KeyTypeOK
  <2>3. UNCHANGED <<keyFile, keyTmp, hand, open, saved>>
    BY <1>9 DEF Seal
  <2>4. \A r \in Raws : raw'[r] = raw[r] \/ raw'[r] = keyFile
    BY <1>9, <2>1 DEF Seal, KeyTypeOK
  <2>5. Matched'
    BY <2>1, <2>3, <2>4 DEF Matched
  <2>6. Drawing'
    BY <1>b, <2>1, <2>2, <2>3 DEF Drawing, Creating
  <2>7. QED
    BY <1>b, <2>1, <2>2, <2>3, <2>5, <2>6 DEF InTurn, KeyAlone, Loaded
<1>10. ASSUME NEW p \in Users, Record(p) \/ OpenRaw(p) \/ Kill(p) PROVE InTurn' /\ Matched'
  BY <1>a, <1>10, Ends DEF Record, OpenRaw, Kill
<1>11. CASE PutOther \/ Purge
  <2>1. UNCHANGED <<keyFile, keyTmp, step, hand, open, saved>>
    BY <1>11 DEF PutOther, Purge
  <2>2. \A r \in Raws : raw'[r] = raw[r] \/ raw'[r] = NoKey
    BY <1>11 DEF PutOther, Purge
  <2>3. Drawing'
    BY <1>b, <2>1, <2>2 DEF Drawing
  <2>4. QED
    BY <1>b, <2>1, <2>2, <2>3 DEF InTurn, KeyAlone, Loaded, Matched
<1>12. CASE Lose \/ Restore
  <2>1. \A q \in Users : step'[q] = "idle"
    BY <1>12 DEF Lose, Restore, Quiet
  <2>2. UNCHANGED raw /\ keyFile' # TornKey
    BY <1>12 DEF Lose, Restore, KeyTypeOK
  <2>3. Matched'
    BY <1>12 DEF Lose, Restore, Matched, KeyTypeOK
  <2>4. QED
    BY <2>1, <2>2, <2>3 DEF InTurn, KeyAlone, Drawing, Loaded, Creating
<1>13. CASE UNCHANGED keyVars
  BY <1>b, <1>13 DEF keyVars, InTurn, KeyAlone, Drawing, Loaded, Matched
<1>14. QED
  BY <1>1, <1>2, <1>3, <1>5, <1>6, <1>7, <1>8, <1>9, <1>10, <1>11, <1>12, <1>13
  DEF KeyNext, LoadKey

LEMMA KeyInvariant == KeySpec => []KeyInv
<1>1. KeyInit => KeyInv
  <2> SUFFICES ASSUME KeyInit PROVE KeyInv
    OBVIOUS
  <2>. USE KeysAssumption DEF KeyInit
  <2>1. KeyTypeOK
    BY DEF KeyTypeOK, FileStates, NoCommand
  <2>2. Called /\ OpenWrites /\ TornAhead /\ TornExplained
    BY DEF Called, OpenWrites, TornAhead, TornExplained
  <2>3. InTurn
    BY DEF InTurn, KeyAlone, Drawing, Loaded, Creating
  <2>4. SealedOpens
    BY DEF SealedOpens
  <2>5. QED
    BY <2>1, <2>2, <2>3, <2>4 DEF KeyInv
<1>2. KeyInv /\ [KeyNext]_keyVars => KeyInv'
  <2> SUFFICES ASSUME KeyInv, [KeyNext]_keyVars PROVE KeyInv'
    OBVIOUS
  <2>1. KeyTypeOK' /\ Called' /\ OpenWrites' /\ TornAhead' /\ TornExplained'
    BY KeyTypeStep, CalledStep, KeyTornStep DEF KeyInv
  <2>2. oneByOne' = oneByOne
    BY DEF KeyNext, LoadKey, StartRun, StartShow, ReadKey, Probe, CreateTmp, WriteTmp, Chmod,
       RenameTmp, Seal, Record, OpenRaw, Kill, PutOther, Purge, Lose, Restore, keyVars, world
  <2>3. ASSUME oneByOne PROVE InTurn' /\ Matched'
    BY <2>3, TurnStep DEF KeyInv, SealedOpens, Matched
  <2>4. QED
    BY <2>1, <2>2, <2>3 DEF KeyInv, SealedOpens, Matched
<1>3. QED
  BY <1>1, <1>2, PTL DEF KeySpec

-----------------------------------------------------------------------------
\* The types of the key files, of the store and of every process's locals.
THEOREM KeyTypeCorrect == KeySpec => []KeyTypeOK
<1>1. KeyInv => KeyTypeOK
  BY DEF KeyInv
<1>2. QED
  BY <1>1, KeyInvariant, PTL

\* The safety note at sealed.rs:57, for any number of sessions, kills, losses of
\* the key file and purges: if first uses come one after another, what opens the
\* raw blobs is the key of the file, or the one the user took away.
THEOREM SealedOpensHolds == KeySpec => []SealedOpens
<1>1. KeyInv => SealedOpens
  BY DEF KeyInv
<1>2. QED
  BY <1>1, KeyInvariant, PTL

\* However many first uses overlap (no assumption that they come in turn), a torn
\* key file is one that is being written, or whose writer was killed.
THEOREM TornExplainedHolds == KeySpec => []TornExplained
<1>1. KeyInv => TornExplained
  BY DEF KeyInv
<1>2. QED
  BY <1>1, KeyInvariant, PTL

-----------------------------------------------------------------------------
(* Trust.                                                                  *)
(*                                                                         *)
(* An import carries its permission from step to step: the keyring's, in   *)
(* `since`, from the moment its signer is active to the read, and the      *)
(* user's from the confirmation.  The inductive invariant says what it     *)
(* holds at each step, and that what it has read is one of the bundles     *)
(* there are, of which only an unaltered one passes the verification.      *)

\* What an import under way has read, and what it may still become.
Holds(p) ==
  /\ place[p] # "idle" => bundle[p] \in Tarballs
  /\ place[p] = "keys" /\ bundle[p].pub \in ActiveIds => since[p]
  /\ place[p] = "verify" /\ bundle[p].pub \in known[p] => since[p]
  /\ place[p] = "retry" => "yes" \in flags[p]
  /\ place[p] = "insert" => Authentic(bundle[p]) /\ (since[p] \/ "yes" \in flags[p])
  /\ place[p] = "promote" => rowId[p] \in RowIds /\ rowOf[rowId[p]] # NoImportRow

TrustInv ==
  /\ TrustTypeOK
  /\ \A p \in Importers : Holds(p)
  /\ RevokedStaysOut

-----------------------------------------------------------------------------
\* pack and unpack_and_verify: of the bundles there are, altered ones included,
\* those that verify are those that were packed.
LEMMA AuthenticIsPacked ==
  ASSUME NEW b \in Tarballs, Authentic(b)
  PROVE  b \in Bundled
<1>1. CASE b \in Bundled
  BY <1>1
<1>2. CASE \E c \in Bundled : b \in Altered(c)
  <2>1. PICK c \in Bundled : b \in Altered(c)
    BY <1>2
  <2>2. PICK f \in Fingerprints, k \in Signers : c = Packed(f, k)
    BY <2>1 DEF Bundled
  <2>3. CASE \E i \in Signers : b = [c EXCEPT !.pub = i]
    <3>1. b = c
      BY <2>2, <2>3 DEF Packed, Authentic
    <3>2. QED
      BY <3>1
  <2>4. CASE \E i \in Signers : b = [c EXCEPT !.names = i]
    <3>1. b = c
      BY <2>2, <2>4 DEF Packed, Authentic
    <3>2. QED
      BY <3>1
  <2>5. CASE b \in {[c EXCEPT !.signed = Nobody], [c EXCEPT !.body = FALSE],
                    [c EXCEPT !.valid = FALSE]}
    BY <2>2, <2>5, SignersAssumption DEF Packed, Authentic
  <2>6. QED
    BY <2>1, <2>3, <2>4, <2>5 DEF Altered
<1>3. QED
  BY <1>1, <1>2, TarballsAssumption

LEMMA TarballsAreBundles == Tarballs \subseteq Bundles
<1>1. ASSUME NEW f \in Fingerprints, NEW k \in Signers
      PROVE  Packed(f, k) \in Bundles /\ Altered(Packed(f, k)) \subseteq Bundles
  BY DEF Packed, Bundles, Altered
<1>2. \A c \in Bundled : c \in Bundles /\ Altered(c) \subseteq Bundles
  BY <1>1 DEF Bundled
<1>3. QED
  BY <1>2, TarballsAssumption

-----------------------------------------------------------------------------
LEMMA TrustTypeInit == TrustInit => TrustTypeOK
  BY DEF TrustInit, TrustTypeOK

LEMMA TrustTypeStep == TrustInv /\ [TrustNext]_trustVars => TrustTypeOK'
<1> SUFFICES ASSUME TrustInv, [TrustNext]_trustVars PROVE TrustTypeOK'
  OBVIOUS
<1>. USE DEF TrustTypeOK, At, held
<1>0. TrustTypeOK
  BY DEF TrustInv
<1>1. ASSUME NEW k \in Signers, TrustAdd(k) PROVE TrustTypeOK'
  BY <1>0, <1>1 DEF TrustAdd, SetKey
<1>2. ASSUME NEW k \in Signers, TrustRevoke(k) PROVE TrustTypeOK'
  BY <1>0, <1>2 DEF TrustRevoke, SetKey
<1>3. ASSUME NEW p \in Importers, StartImport(p) PROVE TrustTypeOK'
  BY <1>0, <1>3, TarballsAreBundles DEF StartImport
<1>4. ASSUME NEW p \in Importers, ReadKeys(p) PROVE TrustTypeOK'
  BY <1>0, <1>4 DEF ReadKeys, ActiveIds
<1>5. ASSUME NEW p \in Importers, VerifyBundle(p) PROVE TrustTypeOK'
  BY <1>0, <1>5 DEF VerifyBundle, Forget, Stop
<1>6. ASSUME NEW p \in Importers, Confirm(p) PROVE TrustTypeOK'
  <2>1. CASE Stop(p)
    BY <1>0, <1>6, <2>1 DEF Confirm, Stop
  <2>2. CASE ~Stop(p)
    BY <1>0, <1>6, <2>2 DEF Confirm
  <2>3. QED
    BY <2>1, <2>2
<1>7. ASSUME NEW p \in Importers, Retry(p) PROVE TrustTypeOK'
  BY <1>0, <1>7 DEF Retry, Stop
<1>8. ASSUME NEW p \in Importers, InsertImported(p) PROVE TrustTypeOK'
  <2>1. CASE InsertAs(p, "pending")
    <3>1. bundle[p] \in Bundles
      BY <2>1, TarballsAreBundles DEF InsertAs, TrustInv, Holds
    <3>2. NewRow(p, "pending") \in ImportRows
      BY <1>0, <3>1 DEF NewRow, ImportRows
    <3>3. QED
      BY <1>0, <2>1, <3>2 DEF InsertAs
  <2>2. CASE Stop(p) /\ UNCHANGED <<trustKeys, rowOf>>
    BY <1>0, <2>2 DEF Stop
  <2>3. QED
    BY <1>8, <2>1, <2>2 DEF InsertImported
<1>9. ASSUME NEW p \in Importers, PromoteImported(p) PROVE TrustTypeOK'
  <2>1. rowOf[rowId[p]] # NoImportRow
    BY <1>9 DEF PromoteImported, TrustInv, Holds
  <2>2. ASSUME NEW r \in ImportRows, NEW s \in {"active", "superseded"}
        PROVE  [r EXCEPT !.status = s] \in ImportRows
    BY DEF ImportRows
  <2>3. NoImportRow.status # "active"
    BY DEF NoImportRow
  <2>4. rowOf' \in [RowIds -> ImportRows \cup {NoImportRow}]
    BY <1>0, <1>9, <2>1, <2>2, <2>3 DEF PromoteImported
  <2>5. QED
    BY <1>0, <1>9, <2>4 DEF PromoteImported, Stop
<1>10. CASE UNCHANGED trustVars
  BY <1>0, <1>10 DEF trustVars
<1>11. QED
  BY <1>1, <1>2, <1>3, <1>4, <1>5, <1>6, <1>7, <1>8, <1>9, <1>10 DEF TrustNext

-----------------------------------------------------------------------------
\* An import that does not move keeps what it holds, as long as the keyring
\* stands and no row goes away.
SameLocals(q) ==
  /\ place'[q] = place[q] /\ bundle'[q] = bundle[q] /\ flags'[q] = flags[q]
  /\ known'[q] = known[q] /\ rowId'[q] = rowId[q] /\ since'[q] = since[q]

RowsStay == \A i \in RowIds : rowOf[i] # NoImportRow => rowOf'[i] # NoImportRow

LEMMA Framed ==
  ASSUME NEW q \in Importers, Holds(q), UNCHANGED trustKeys, SameLocals(q), RowsStay
  PROVE  Holds(q)'
BY DEF Holds, SameLocals, RowsStay, ActiveIds, Authentic

\* An import that ends holds nothing.
LEMMA StopHolds ==
  ASSUME TrustTypeOK, NEW p \in Importers, Stop(p)
  PROVE  Holds(p)' /\ \A q \in Importers \ {p} : SameLocals(q)
BY DEF Holds, Stop, At, SameLocals, TrustTypeOK

LEMMA HoldsStep ==
  ASSUME TrustInv, [TrustNext]_trustVars
  PROVE  \A q \in Importers : Holds(q)'
<1>. USE DEF At, held
<1>0. TrustTypeOK /\ \A p \in Importers : Holds(p)
  BY DEF TrustInv
<1>a. ASSUME UNCHANGED rowOf PROVE RowsStay
  BY <1>a DEF RowsStay
<1>b. ASSUME NEW p \in Importers, UNCHANGED <<trustKeys, rowOf>>, Stop(p)
      PROVE  \A q \in Importers : Holds(q)'
  BY <1>0, <1>a, <1>b, Framed, StopHolds
<1>c. ASSUME NEW p \in Importers, UNCHANGED trustKeys, RowsStay, Holds(p)',
             \A q \in Importers \ {p} : SameLocals(q)
      PROVE  \A q \in Importers : Holds(q)'
  BY <1>0, <1>c, Framed
<1>1. ASSUME NEW k \in Signers, NEW s \in {"active", "revoked"}, SetKey(k, s)
      PROVE  \A q \in Importers : Holds(q)'
  <2> SUFFICES ASSUME NEW q \in Importers PROVE Holds(q)'
    OBVIOUS
  <2>1. since[q] => since'[q]
    BY <1>1 DEF SetKey
  <2>2. ASSUME place[q] = "keys", bundle[q].pub \in ActiveIds' PROVE since'[q]
    <3>1. CASE bundle[q].pub \in ActiveIds
      BY <1>0, <2>1, <2>2, <3>1 DEF Holds
    <3>2. CASE bundle[q].pub \notin ActiveIds
      <4>1. bundle[q].pub = k /\ s = "active"
        BY <1>0, <1>1, <2>2, <3>2 DEF SetKey, ActiveIds, TrustTypeOK
      <4>2. QED
        BY <1>1, <2>2, <4>1 DEF SetKey
    <3>3. QED
      BY <3>1, <3>2
  <2>3. UNCHANGED <<place, bundle, flags, known, rowId, rowOf>>
    BY <1>1 DEF SetKey
  <2>4. QED
    BY <1>0, <2>1, <2>2, <2>3 DEF Holds, Authentic
<1>2. ASSUME NEW p \in Importers, StartImport(p) PROVE \A q \in Importers : Holds(q)'
  <2>1. Holds(p)'
    <3>1. PICK b \in Tarballs : /\ bundle' = [bundle EXCEPT ![p] = b]
                                /\ since' = [since EXCEPT ![p] = b.pub \in ActiveIds]
      BY <1>2 DEF StartImport
    <3>2. bundle'[p] = b /\ place'[p] = "keys"
      BY <1>0, <1>2, <3>1 DEF StartImport, TrustTypeOK
    <3>3. since'[p] = (b.pub \in ActiveIds)
      BY <1>0, <3>1, Zenon DEF TrustTypeOK
    <3>4. ActiveIds' = ActiveIds
      BY <1>2 DEF StartImport, ActiveIds
    <3>5. QED
      BY <3>2, <3>3, <3>4 DEF Holds
  <2>2. \A q \in Importers \ {p} : SameLocals(q)
    BY <1>0, <1>2 DEF StartImport, SameLocals, TrustTypeOK
  <2>3. UNCHANGED <<trustKeys, rowOf>>
    BY <1>2 DEF StartImport
  <2>4. QED
    BY <1>a, <1>c, <2>1, <2>2, <2>3
<1>3. ASSUME NEW p \in Importers, ReadKeys(p) PROVE \A q \in Importers : Holds(q)'
  <2>1. Holds(p)'
    BY <1>0, <1>3 DEF ReadKeys, Holds, TrustTypeOK
  <2>2. \A q \in Importers \ {p} : SameLocals(q)
    BY <1>0, <1>3 DEF ReadKeys, SameLocals, TrustTypeOK
  <2>3. UNCHANGED <<trustKeys, rowOf>>
    BY <1>3 DEF ReadKeys
  <2>4. QED
    BY <1>a, <1>c, <2>1, <2>2, <2>3
<1>4. ASSUME NEW p \in Importers, VerifyBundle(p) PROVE \A q \in Importers : Holds(q)'
  <2>1. UNCHANGED <<trustKeys, rowOf>>
    BY <1>4 DEF VerifyBundle
  <2>2. CASE Stop(p)
    BY <1>b, <2>1, <2>2
  <2>3. CASE ~Untrusted(bundle[p], known[p]) /\ Authentic(bundle[p]) /\ Forget(p) /\ At(p, "insert")
    <3>1. Holds(p)'
      BY <1>0, <1>4, <2>3 DEF VerifyBundle, Forget, Untrusted, Holds, TrustTypeOK, Authentic
    <3>2. \A q \in Importers \ {p} : SameLocals(q)
      BY <1>0, <2>3 DEF Forget, SameLocals, TrustTypeOK
    <3>3. QED
      BY <1>a, <1>c, <2>1, <3>1, <3>2
  <2>4. CASE Forget(p) /\ At(p, "confirm")
    <3>1. Holds(p)'
      BY <1>0, <1>4, <2>4 DEF VerifyBundle, Forget, Holds, TrustTypeOK
    <3>2. \A q \in Importers \ {p} : SameLocals(q)
      BY <1>0, <2>4 DEF Forget, SameLocals, TrustTypeOK
    <3>3. QED
      BY <1>a, <1>c, <2>1, <3>1, <3>2
  <2>5. QED
    BY <1>4, <2>2, <2>3, <2>4 DEF VerifyBundle
<1>5. ASSUME NEW p \in Importers, Confirm(p) PROVE \A q \in Importers : Holds(q)'
  <2>1. UNCHANGED <<trustKeys, rowOf>>
    BY <1>5 DEF Confirm
  <2>2. CASE Stop(p)
    BY <1>b, <2>1, <2>2
  <2>3. CASE ~Stop(p)
    <3>1. Holds(p)'
      BY <1>0, <1>5, <2>3 DEF Confirm, Holds, TrustTypeOK
    <3>2. \A q \in Importers \ {p} : SameLocals(q)
      BY <1>0, <1>5, <2>3 DEF Confirm, SameLocals, TrustTypeOK
    <3>3. QED
      BY <1>a, <1>c, <2>1, <3>1, <3>2
  <2>4. QED
    BY <2>2, <2>3
<1>6. ASSUME NEW p \in Importers, Retry(p) PROVE \A q \in Importers : Holds(q)'
  <2>1. UNCHANGED <<trustKeys, rowOf>>
    BY <1>6 DEF Retry
  <2>2. CASE Stop(p)
    BY <1>b, <2>1, <2>2
  <2>3. CASE ~Stop(p)
    <3>1. Holds(p)'
      BY <1>0, <1>6, <2>3 DEF Retry, Holds, TrustTypeOK, Authentic
    <3>2. \A q \in Importers \ {p} : SameLocals(q)
      BY <1>0, <1>6, <2>3 DEF Retry, SameLocals, TrustTypeOK
    <3>3. QED
      BY <1>a, <1>c, <2>1, <3>1, <3>2
  <2>4. QED
    BY <2>2, <2>3
<1>7. ASSUME NEW p \in Importers, InsertImported(p) PROVE \A q \in Importers : Holds(q)'
  <2>1. CASE InsertAs(p, "pending")
    <3>1. NewRow(p, "pending") # NoImportRow
      BY DEF NewRow, NoImportRow
    <3>2. PICK i \in RowIds : /\ rowOf[i] = NoImportRow
                              /\ rowOf' = [rowOf EXCEPT ![i] = NewRow(p, "pending")]
                              /\ rowId' = [rowId EXCEPT ![p] = i]
      BY <2>1 DEF InsertAs
    <3>3. RowsStay /\ rowOf'[i] # NoImportRow
      BY <1>0, <3>1, <3>2 DEF RowsStay, TrustTypeOK
    <3>4. Holds(p)'
      BY <1>0, <2>1, <3>2, <3>3 DEF InsertAs, Holds, TrustTypeOK
    <3>5. \A q \in Importers \ {p} : SameLocals(q)
      BY <1>0, <2>1, <3>2 DEF InsertAs, SameLocals, TrustTypeOK
    <3>6. UNCHANGED trustKeys
      BY <2>1 DEF InsertAs
    <3>7. QED
      BY <1>c, <3>3, <3>4, <3>5, <3>6
  <2>2. CASE Stop(p) /\ UNCHANGED <<trustKeys, rowOf>>
    BY <1>b, <2>2
  <2>3. QED
    BY <1>7, <2>1, <2>2 DEF InsertImported
<1>8. ASSUME NEW p \in Importers, PromoteImported(p) PROVE \A q \in Importers : Holds(q)'
  <2>1. RowsStay
    <3>1. ASSUME NEW r \in ImportRows, NEW s \in {"active", "superseded"}
          PROVE  [r EXCEPT !.status = s] # NoImportRow
      BY DEF ImportRows, NoImportRow
    <3>2. QED
      BY <1>0, <1>8, <3>1 DEF PromoteImported, RowsStay, TrustTypeOK
  <2>2. Holds(p)' /\ \A q \in Importers \ {p} : SameLocals(q)
    BY <1>0, <1>8, StopHolds DEF PromoteImported
  <2>3. UNCHANGED trustKeys
    BY <1>8 DEF PromoteImported
  <2>4. QED
    BY <1>c, <2>1, <2>2, <2>3
<1>9. CASE UNCHANGED trustVars
  BY <1>0, <1>9 DEF trustVars, Holds, ActiveIds, Authentic
<1>10. QED
  BY <1>1, <1>2, <1>3, <1>4, <1>5, <1>6, <1>7, <1>8, <1>9 DEF TrustNext, TrustAdd, TrustRevoke

-----------------------------------------------------------------------------
\* The bundles and clearances of the rows there are stay what they are; a new
\* row gets those of an import that holds both.
LEMMA RowsStep ==
  ASSUME TrustInv, [TrustNext]_trustVars
  PROVE  RevokedStaysOut'
<1>0. /\ TrustTypeOK
      /\ \A p \in Importers : Holds(p)
      /\ RevokedStaysOut
  BY DEF TrustInv
<1>1. ASSUME UNCHANGED rowOf PROVE RevokedStaysOut'
  BY <1>0, <1>1 DEF RevokedStaysOut
<1>2. ASSUME NEW p \in Importers, InsertAs(p, "pending") PROVE RevokedStaysOut'
  <2>1. bundle[p] \in Bundled
    BY <1>0, <1>2, AuthenticIsPacked DEF InsertAs, Holds
  <2>2. (flags[p] \ {"allow"}) \cup (IF since[p] THEN {"keyring"} ELSE {}) # {}
    <3>1. since[p] \/ "yes" \in flags[p]
      BY <1>0, <1>2 DEF InsertAs, Holds
    <3>2. QED
      BY <3>1
  <2>3. NewRow(p, "pending").bundle \in Bundled /\ NewRow(p, "pending").cleared # {}
    BY <2>1, <2>2 DEF NewRow
  <2>4. PICK i \in RowIds : rowOf' = [rowOf EXCEPT ![i] = NewRow(p, "pending")]
    BY <1>2 DEF InsertAs
  <2>5. QED
    BY <1>0, <2>3, <2>4 DEF RevokedStaysOut, TrustTypeOK
<1>3. ASSUME NEW p \in Importers, PromoteImported(p) PROVE RevokedStaysOut'
  <2> SUFFICES ASSUME NEW i \in RowIds, rowOf'[i] # NoImportRow
               PROVE  rowOf'[i].bundle \in Bundled /\ rowOf'[i].cleared # {}
    BY DEF RevokedStaysOut
  <2>1. rowOf[rowId[p]] # NoImportRow
    BY <1>0, <1>3 DEF PromoteImported, Holds
  <2>2. NoImportRow.status # "active"
    BY DEF NoImportRow
  <2>3. ASSUME NEW r \in ImportRows, NEW s \in {"active", "superseded"}
        PROVE  /\ [r EXCEPT !.status = s].bundle = r.bundle
               /\ [r EXCEPT !.status = s].cleared = r.cleared
    BY DEF ImportRows
  <2>4. CASE rowOf'[i] = rowOf[i]
    BY <1>0, <2>4 DEF RevokedStaysOut
  <2>5. CASE rowOf[i] # NoImportRow /\ rowOf'[i] # rowOf[i]
    <3>1. rowOf[i] \in ImportRows
      BY <1>0, <2>5 DEF TrustTypeOK
    <3>2. \E s \in {"active", "superseded"} : rowOf'[i] = [rowOf[i] EXCEPT !.status = s]
      BY <1>3, <2>5 DEF PromoteImported
    <3>3. QED
      BY <1>0, <2>3, <2>5, <3>1, <3>2 DEF RevokedStaysOut
  <2>6. rowOf[i] = NoImportRow => rowOf'[i] = rowOf[i]
    BY <1>3, <2>1, <2>2 DEF PromoteImported
  <2>7. QED
    BY <2>4, <2>5, <2>6
<1>4. CASE UNCHANGED trustVars
  BY <1>1, <1>4 DEF trustVars
<1>5. QED
  BY <1>1, <1>2, <1>3, <1>4 DEF TrustNext, TrustAdd, TrustRevoke, SetKey, StartImport, ReadKeys,
     VerifyBundle, Confirm, Retry, InsertImported

LEMMA TrustInvariant == TrustSpec => []TrustInv
<1>1. TrustInit => TrustInv
  <2> SUFFICES ASSUME TrustInit PROVE TrustInv
    OBVIOUS
  <2>1. TrustTypeOK
    BY TrustTypeInit
  <2>2. \A p \in Importers : Holds(p)
    BY DEF TrustInit, Holds
  <2>3. RevokedStaysOut
    BY DEF TrustInit, RevokedStaysOut
  <2>4. QED
    BY <2>1, <2>2, <2>3 DEF TrustInv
<1>2. TrustInv /\ [TrustNext]_trustVars => TrustInv'
  BY TrustTypeStep, HoldsStep, RowsStep DEF TrustInv
<1>3. QED
  BY <1>1, <1>2, PTL DEF TrustSpec

-----------------------------------------------------------------------------
\* The types of the keyring, of every import's locals and of the rows.
THEOREM TrustTypeCorrect == TrustSpec => []TrustTypeOK
<1>1. TrustInv => TrustTypeOK
  BY DEF TrustInv
<1>2. QED
  BY <1>1, TrustInvariant, PTL

\* Whatever imports, additions and revocations overlap, and however many there
\* are, every row that import leaves in `profiles` holds a bundle as it was
\* packed, whose signer was active in the keyring between the start of the import
\* and its read (active_ids, profiles.rs:220), or that the user said yes to.
THEOREM RevokedStaysOutHolds == TrustSpec => []RevokedStaysOut
<1>1. TrustInv => RevokedStaysOut
  BY DEF TrustInv
<1>2. QED
  BY <1>1, TrustInvariant, PTL

-----------------------------------------------------------------------------
(* Update.                                                                 *)
(*                                                                         *)
(* A torn file is followed, by the handle of whoever is writing it, from   *)
(* nid.new to the executable.  Where updates take turns the invariant says *)
(* more: what the one update has done so far, and that until its last      *)
(* rename there is a binary, under one of two names.                       *)

Ready    == {"chmod", "drop", "aside", "swap"}
Swapping == {"create", "write"} \cup Ready

\* An update under way has a release, and a path once it has found its own.
HasRelease == \A u \in Updaters :
  /\ phase[u] # "idle" => release[u] \in Releases
  /\ phase[u] \in Swapping => target[u] # "none"

\* A file is open from its creation to the write only.
HandleWrites == \A u \in Updaters : handle[u] # "none" => phase[u] = "write"

\* A torn file is being written, or its writer was killed.
NewTorn == newFile = TornBinary => updateKills > 0 \/ \E u \in Updaters : handle[u] = "new"
ExeTorn == exe = TornBinary => updateKills > 0 \/ \E u \in Updaters : handle[u] = "exe"

\* One update at a time: nothing is replaced under it, ...
OneUpdate ==
  /\ replaced = {}
  /\ \A u, v \in Updaters : phase[u] # "idle" /\ phase[v] # "idle" => u = v

\* ... it writes nid.new and nothing else, for the path it was run from, ...
Prepared == \A u \in Updaters :
  /\ phase[u] = "write" => handle[u] = "new"
  /\ phase[u] \in Swapping => target[u] = "exe"
  /\ phase[u] \in Ready => newFile = release[u]
  /\ phase[u] \in {"drop", "aside"} => windows

\* ... and it takes the old binary away only once it has put it aside.
Backed ==
  /\ exe # TornBinary
  /\ exe = NoBinary => windows /\ oldFile \in Whole
  /\ \A u \in Updaters : phase[u] \notin {"idle", "swap"} => exe \in Whole

UpdateInv ==
  /\ UpdateTypeOK
  /\ HasRelease
  /\ HandleWrites
  /\ NewTorn
  /\ ExeTorn
  /\ alone => OneUpdate /\ Prepared /\ Backed

-----------------------------------------------------------------------------
\* An update that ends leaves well-typed locals.
UpdateLocalsOK ==
  /\ phase \in [Updaters -> {"idle", "verify", "path", "create", "write", "chmod",
                             "drop", "aside", "swap"}]
  /\ release \in [Updaters -> Releases \cup {NoRelease}]
  /\ target \in [Updaters -> {"none", "exe", "stray"}]
  /\ handle \in [Updaters -> {"none", "new", "exe", "old", "stray", "gone"}]
  /\ replaced \in SUBSET Updaters

LEMMA LeaveLocals == ASSUME UpdateTypeOK, NEW u \in Updaters, Leave(u) PROVE UpdateLocalsOK'
BY DEF UpdateTypeOK, UpdateLocalsOK, Leave, Goto

LEMMA UpdateTypeStep == UpdateTypeOK /\ HasRelease /\ [UpdateNext]_updateVars => UpdateTypeOK'
<1> SUFFICES ASSUME UpdateTypeOK, HasRelease, [UpdateNext]_updateVars PROVE UpdateTypeOK'
  OBVIOUS
<1>. USE UpdateBoundsAssumption
<1>. USE DEF UpdateTypeOK, files, platform, Goto, Whole
<1>1. ASSUME NEW u \in Updaters, StartUpdate(u) PROVE UpdateTypeOK'
  BY <1>1 DEF StartUpdate
<1>2. ASSUME NEW u \in Updaters, VerifyRelease(u) PROVE UpdateTypeOK'
  <2>1. CASE Leave(u)
    BY <1>2, <2>1, LeaveLocals DEF VerifyRelease, UpdateLocalsOK
  <2>2. CASE ~Leave(u)
    BY <1>2, <2>2 DEF VerifyRelease
  <2>3. QED
    BY <2>1, <2>2
<1>3. ASSUME NEW u \in Updaters, FindSelf(u) PROVE UpdateTypeOK'
  BY <1>3 DEF FindSelf
<1>4. ASSUME NEW u \in Updaters, CreateNew(u) PROVE UpdateTypeOK'
  BY <1>4 DEF CreateNew
<1>5. ASSUME NEW u \in Updaters, WriteNew(u) PROVE UpdateTypeOK'
  <2>1. release[u] \in Releases
    BY <1>5 DEF WriteNew, HasRelease
  <2>2. QED
    BY <1>5, <2>1 DEF WriteNew
<1>6. ASSUME NEW u \in Updaters, ChmodNew(u) PROVE UpdateTypeOK'
  <2>1. CASE Leave(u)
    BY <1>6, <2>1, LeaveLocals DEF ChmodNew, UpdateLocalsOK
  <2>2. CASE ~Leave(u)
    BY <1>6, <2>2 DEF ChmodNew
  <2>3. QED
    BY <2>1, <2>2
<1>7. ASSUME NEW u \in Updaters, DropOld(u) PROVE UpdateTypeOK'
  BY <1>7 DEF DropOld
<1>8. ASSUME NEW u \in Updaters, MoveAside(u) PROVE UpdateTypeOK'
  BY <1>8 DEF MoveAside, Moved
<1>9. ASSUME NEW u \in Updaters, SwapIn(u) PROVE UpdateTypeOK'
  <2>1. CASE newFile = NoBinary
    BY <1>9, <2>1, LeaveLocals DEF SwapIn, UpdateLocalsOK
  <2>2. CASE newFile # NoBinary
    <3>1. Moved("new", target[u]) \in [Updaters -> {"none", "new", "exe", "old", "stray", "gone"}]
      BY DEF Moved
    <3>2. handle' \in [Updaters -> {"none", "new", "exe", "old", "stray", "gone"}]
      BY <1>9, <2>2, <3>1, LeaveLocals DEF SwapIn, UpdateLocalsOK
    <3>3. CASE target[u] = "exe"
      BY <1>9, <2>2, <3>2, <3>3 DEF SwapIn
    <3>4. CASE target[u] # "exe"
      BY <1>9, <2>2, <3>2, <3>4 DEF SwapIn
    <3>5. QED
      BY <3>3, <3>4
  <2>3. QED
    BY <2>1, <2>2
<1>10. ASSUME NEW u \in Updaters, KillUpdate(u) PROVE UpdateTypeOK'
  BY <1>10, LeaveLocals DEF KillUpdate, UpdateLocalsOK
<1>11. CASE UNCHANGED updateVars
  BY <1>11 DEF updateVars
<1>12. QED
  BY <1>1, <1>2, <1>3, <1>4, <1>5, <1>6, <1>7, <1>8, <1>9, <1>10, <1>11 DEF UpdateNext

LEMMA ReleaseStep ==
  UpdateTypeOK /\ HasRelease /\ HandleWrites /\ [UpdateNext]_updateVars
    => HasRelease' /\ HandleWrites'
<1> SUFFICES ASSUME UpdateTypeOK, HasRelease, HandleWrites, [UpdateNext]_updateVars
             PROVE  HasRelease' /\ HandleWrites'
  OBVIOUS
<1>. USE DEF UpdateTypeOK, HasRelease, HandleWrites, files, platform, Goto, Swapping, Ready
<1>a. ASSUME NEW u \in Updaters, Leave(u) PROVE HasRelease' /\ HandleWrites'
  BY <1>a DEF Leave
<1>b. ASSUME NEW u \in Updaters, NEW s, phase' = [phase EXCEPT ![u] = s],
             phase[u] # "idle" /\ release' = release,
             \/ s \in Swapping => phase[u] \in Swapping /\ target' = target
             \/ target'[u] # "none",
             \A v \in Updaters \ {u} : target'[v] = target[v],
             \A v \in Updaters : handle[v] = "none" => handle'[v] = "none",
             phase[u] # "write" \/ handle'[u] = "none"
      PROVE  HasRelease' /\ HandleWrites'
  BY <1>b
<1>1. ASSUME NEW u \in Updaters, StartUpdate(u) PROVE HasRelease' /\ HandleWrites'
  BY <1>1 DEF StartUpdate
<1>2. ASSUME NEW u \in Updaters, VerifyRelease(u) PROVE HasRelease' /\ HandleWrites'
  BY <1>2, <1>a, <1>b DEF VerifyRelease
<1>3. ASSUME NEW u \in Updaters, FindSelf(u) PROVE HasRelease' /\ HandleWrites'
  BY <1>3, <1>b DEF FindSelf
<1>4. ASSUME NEW u \in Updaters, CreateNew(u) PROVE HasRelease' /\ HandleWrites'
  BY <1>4 DEF CreateNew
<1>5. ASSUME NEW u \in Updaters, WriteNew(u) PROVE HasRelease' /\ HandleWrites'
  BY <1>5, <1>b DEF WriteNew
<1>6. ASSUME NEW u \in Updaters, ChmodNew(u) PROVE HasRelease' /\ HandleWrites'
  BY <1>6, <1>a, <1>b DEF ChmodNew
<1>7. ASSUME NEW u \in Updaters, DropOld(u) PROVE HasRelease' /\ HandleWrites'
  BY <1>7, <1>b DEF DropOld
<1>8. ASSUME NEW u \in Updaters, MoveAside(u) PROVE HasRelease' /\ HandleWrites'
  BY <1>8, <1>b DEF MoveAside, Moved
<1>9. ASSUME NEW u \in Updaters, SwapIn(u) PROVE HasRelease' /\ HandleWrites'
  <2>1. CASE newFile = NoBinary
    BY <1>9, <2>1, <1>a DEF SwapIn
  <2>2. CASE newFile # NoBinary
    <3>1. \A v \in Updaters : handle[v] = "none" => handle'[v] = "none"
      <4>1. target[u] # "none"
        BY <1>9 DEF SwapIn
      <4>2. \A v \in Updaters : handle[v] = "none" => Moved("new", target[u])[v] = "none"
        BY <4>1 DEF Moved
      <4>3. QED
        BY <1>9, <2>2, <4>2 DEF SwapIn, Moved
    <3>2. handle[u] = "none"
      BY <1>9 DEF SwapIn
    <3>3. \A v \in Updaters \ {u} : /\ phase'[v] = phase[v] /\ release'[v] = release[v]
                                    /\ target'[v] = target[v]
      BY <1>9, <2>2 DEF SwapIn
    <3>4. phase'[u] = "idle"
      BY <1>9, <2>2 DEF SwapIn
    <3>5. QED
      BY <3>1, <3>2, <3>3, <3>4
  <2>3. QED
    BY <2>1, <2>2
<1>10. ASSUME NEW u \in Updaters, KillUpdate(u) PROVE HasRelease' /\ HandleWrites'
  BY <1>10, <1>a DEF KillUpdate
<1>11. CASE UNCHANGED updateVars
  BY <1>11 DEF updateVars
<1>12. QED
  BY <1>1, <1>2, <1>3, <1>4, <1>5, <1>6, <1>7, <1>8, <1>9, <1>10, <1>11 DEF UpdateNext

\* A torn file keeps its writer through the renames of others.
LEMMA UpdateTornStep ==
  UpdateTypeOK /\ HasRelease /\ HandleWrites /\ NewTorn /\ ExeTorn /\ [UpdateNext]_updateVars
    => NewTorn' /\ ExeTorn'
<1> SUFFICES ASSUME UpdateTypeOK, HasRelease, HandleWrites, NewTorn, ExeTorn,
                    [UpdateNext]_updateVars
             PROVE  NewTorn' /\ ExeTorn'
  OBVIOUS
<1>. USE BinariesAssumption DEF NewTorn, ExeTorn, HandleWrites, files, platform
<1>a. ASSUME NEW u \in Updaters, Leave(u), phase[u] # "write", UNCHANGED <<exe, newFile, updateKills>>
      PROVE  NewTorn' /\ ExeTorn'
  BY <1>a DEF Leave, UpdateTypeOK
<1>b. ASSUME UNCHANGED <<exe, newFile, handle, updateKills>> PROVE NewTorn' /\ ExeTorn'
  BY <1>b
<1>1. ASSUME NEW u \in Updaters, StartUpdate(u) \/ FindSelf(u) PROVE NewTorn' /\ ExeTorn'
  BY <1>1, <1>b DEF StartUpdate, FindSelf
<1>2. ASSUME NEW u \in Updaters, VerifyRelease(u) PROVE NewTorn' /\ ExeTorn'
  BY <1>2, <1>a, <1>b DEF VerifyRelease
<1>3. ASSUME NEW u \in Updaters, CreateNew(u) PROVE NewTorn' /\ ExeTorn'
  <2>1. handle'[u] = "new" /\ \A v \in Updaters \ {u} : handle'[v] = handle[v]
    BY <1>3 DEF CreateNew, UpdateTypeOK
  <2>2. handle[u] = "none"
    BY <1>3 DEF CreateNew
  <2>3. QED
    BY <1>3, <2>1, <2>2 DEF CreateNew
<1>4. ASSUME NEW u \in Updaters, WriteNew(u) PROVE NewTorn' /\ ExeTorn'
  <2>1. \A v \in Updaters \ {u} : handle'[v] = handle[v]
    BY <1>4 DEF WriteNew, UpdateTypeOK
  <2>2. release[u] # TornBinary
    BY <1>4 DEF WriteNew, HasRelease
  <2>3. QED
    BY <1>4, <2>1, <2>2 DEF WriteNew
<1>5. ASSUME NEW u \in Updaters, ChmodNew(u) PROVE NewTorn' /\ ExeTorn'
  BY <1>5, <1>a, <1>b DEF ChmodNew
<1>6. ASSUME NEW u \in Updaters, DropOld(u) PROVE NewTorn' /\ ExeTorn'
  <2>1. \A v \in Updaters : handle[v] # "old" => handle'[v] = handle[v]
    BY <1>6 DEF DropOld
  <2>2. QED
    BY <1>6, <2>1 DEF DropOld
<1>7. ASSUME NEW u \in Updaters, MoveAside(u) PROVE NewTorn' /\ ExeTorn'
  <2>1. \A v \in Updaters : handle[v] = "new" => handle'[v] = "new"
    BY <1>7 DEF MoveAside, Moved
  <2>2. QED
    BY <1>7, <2>1 DEF MoveAside
<1>8. ASSUME NEW u \in Updaters, SwapIn(u) PROVE NewTorn' /\ ExeTorn'
  <2>1. CASE newFile = NoBinary
    BY <1>8, <2>1, <1>a DEF SwapIn
  <2>2. CASE newFile # NoBinary
    <3>1. handle[u] = "none"
      BY <1>8 DEF SwapIn
    <3>2. \A v \in Updaters : /\ handle[v] = "new" => handle'[v] = target[u]
                              /\ target[u] # "exe" /\ handle[v] = "exe" => handle'[v] = "exe"
      BY <1>8, <2>2, <3>1 DEF SwapIn, Moved, UpdateTypeOK
    <3>3. newFile' = NoBinary /\ updateKills' = updateKills
      BY <1>8, <2>2 DEF SwapIn
    <3>4. CASE target[u] = "exe"
      <4>1. exe' = newFile
        BY <1>8, <2>2, <3>4 DEF SwapIn
      <4>2. ASSUME exe' = TornBinary, ~(updateKills' > 0)
            PROVE  \E v \in Updaters : handle'[v] = "exe"
        <5>1. newFile = TornBinary /\ ~(updateKills > 0)
          BY <3>3, <4>1, <4>2
        <5>2. PICK v \in Updaters : handle[v] = "new"
          BY <5>1
        <5>3. QED
          BY <3>2, <3>4, <5>2
      <4>3. NewTorn'
        BY <3>3
      <4>4. QED
        BY <4>2, <4>3
    <3>5. CASE target[u] # "exe"
      <4>1. exe' = exe
        BY <1>8, <2>2, <3>5 DEF SwapIn
      <4>2. ExeTorn'
        BY <3>2, <3>3, <3>5, <4>1
      <4>3. NewTorn'
        BY <3>3
      <4>4. QED
        BY <4>2, <4>3
    <3>6. QED
      BY <3>4, <3>5
  <2>3. QED
    BY <2>1, <2>2
<1>9. ASSUME NEW u \in Updaters, KillUpdate(u) PROVE NewTorn' /\ ExeTorn'
  <2>1. updateKills' > 0
    BY <1>9, UpdateBoundsAssumption DEF KillUpdate, UpdateTypeOK
  <2>2. QED
    BY <2>1
<1>10. CASE UNCHANGED updateVars
  BY <1>10, <1>b DEF updateVars
<1>11. QED
  BY <1>1, <1>2, <1>3, <1>4, <1>5, <1>6, <1>7, <1>8, <1>9, <1>10 DEF UpdateNext

-----------------------------------------------------------------------------
\* What one update at a time keeps to.
UpdateAlone == OneUpdate /\ Prepared /\ Backed

\* The one update moves on: the others have nothing under way.
OthersIdle(u) == \A v \in Updaters \ {u} : phase'[v] = "idle"

LEMMA OnlyOne ==
  ASSUME UpdateTypeOK, UpdateAlone, NEW u \in Updaters, phase[u] # "idle",
         NEW s, Goto(u, s)
  PROVE  OthersIdle(u) /\ phase'[u] = s
BY DEF UpdateTypeOK, UpdateAlone, OneUpdate, OthersIdle, Goto

\* An update that stops half-way leaves the executable that there was.
LEMMA LeaveAlone ==
  ASSUME UpdateTypeOK, UpdateAlone, NEW u \in Updaters, phase[u] # "idle", Leave(u),
         UNCHANGED <<exe, oldFile, windows>>
  PROVE  UpdateAlone'
<1>1. OthersIdle(u) /\ phase'[u] = "idle"
  BY OnlyOne DEF Leave
<1>2. OneUpdate'
  BY <1>1 DEF UpdateAlone, OneUpdate, OthersIdle, Leave
<1>3. Prepared'
  BY <1>1 DEF Prepared, OthersIdle, Swapping, Ready
<1>4. Backed'
  BY <1>1 DEF UpdateAlone, Backed, OthersIdle
<1>5. QED
  BY <1>2, <1>3, <1>4 DEF UpdateAlone

LEMMA AloneStep ==
  ASSUME UpdateTypeOK, HasRelease, alone, UpdateAlone, [UpdateNext]_updateVars
  PROVE  UpdateAlone'
<1>. USE BinariesAssumption
<1>. USE DEF files, platform
<1>1. ASSUME NEW u \in Updaters, StartUpdate(u) PROVE UpdateAlone'
  <2>1. \A v \in Updaters \ {u} : phase'[v] = "idle"
    BY <1>1 DEF StartUpdate, Still, Goto, UpdateTypeOK
  <2>2. phase'[u] = "verify" /\ exe' \in Whole
    BY <1>1 DEF StartUpdate, Goto, UpdateTypeOK
  <2>3. QED
    BY <1>1, <2>1, <2>2
    DEF StartUpdate, UpdateAlone, OneUpdate, Prepared, Backed, Swapping, Ready, Whole
<1>2. ASSUME NEW u \in Updaters, VerifyRelease(u) PROVE UpdateAlone'
  <2>1. CASE Leave(u)
    BY <1>2, <2>1, LeaveAlone DEF VerifyRelease
  <2>2. CASE Goto(u, "path") /\ UNCHANGED <<release, target, handle, replaced>>
    <3>1. OthersIdle(u) /\ phase'[u] = "path"
      BY <1>2, <2>2, OnlyOne DEF VerifyRelease
    <3>2. QED
      BY <1>2, <2>2, <3>1
      DEF VerifyRelease, UpdateAlone, OneUpdate, Prepared, Backed, OthersIdle, Swapping, Ready
  <2>3. QED
    BY <1>2, <2>1, <2>2 DEF VerifyRelease
<1>3. ASSUME NEW u \in Updaters, FindSelf(u) PROVE UpdateAlone'
  <2>1. OthersIdle(u) /\ phase'[u] = "create"
    BY <1>3, OnlyOne DEF FindSelf
  <2>2. target'[u] = "exe"
    BY <1>3 DEF FindSelf, UpdateAlone, OneUpdate, UpdateTypeOK
  <2>3. QED
    BY <1>3, <2>1, <2>2
    DEF FindSelf, UpdateAlone, OneUpdate, Prepared, Backed, OthersIdle, Swapping, Ready
<1>4. ASSUME NEW u \in Updaters, CreateNew(u) PROVE UpdateAlone'
  <2>1. OthersIdle(u) /\ phase'[u] = "write"
    BY <1>4, OnlyOne DEF CreateNew
  <2>2. handle'[u] = "new"
    BY <1>4 DEF CreateNew, UpdateTypeOK
  <2>3. QED
    BY <1>4, <2>1, <2>2
    DEF CreateNew, UpdateAlone, OneUpdate, Prepared, Backed, OthersIdle, Swapping, Ready
<1>5. ASSUME NEW u \in Updaters, WriteNew(u) PROVE UpdateAlone'
  <2>1. OthersIdle(u) /\ phase'[u] = IF windows THEN "drop" ELSE "chmod"
    BY <1>5, OnlyOne DEF WriteNew
  <2>2. newFile' = release[u] /\ UNCHANGED <<exe, oldFile, release, target, replaced, windows>>
    BY <1>5 DEF WriteNew, UpdateAlone, Prepared
  <2>3. phase[u] = "write"
    BY <1>5 DEF WriteNew
  <2>4. QED
    BY <2>1, <2>2, <2>3
    DEF UpdateAlone, OneUpdate, Prepared, Backed, OthersIdle, Swapping, Ready
<1>6. ASSUME NEW u \in Updaters, ChmodNew(u) PROVE UpdateAlone'
  <2>1. CASE Leave(u)
    BY <1>6, <2>1, LeaveAlone DEF ChmodNew
  <2>2. CASE Goto(u, "swap") /\ UNCHANGED <<release, target, handle, replaced>>
    <3>1. OthersIdle(u) /\ phase'[u] = "swap"
      BY <1>6, <2>2, OnlyOne DEF ChmodNew
    <3>2. QED
      BY <1>6, <2>2, <3>1
      DEF ChmodNew, UpdateAlone, OneUpdate, Prepared, Backed, OthersIdle, Swapping, Ready
  <2>3. QED
    BY <1>6, <2>1, <2>2 DEF ChmodNew
<1>7. ASSUME NEW u \in Updaters, DropOld(u) PROVE UpdateAlone'
  <2>1. OthersIdle(u) /\ phase'[u] = "aside"
    BY <1>7, OnlyOne DEF DropOld
  <2>2. exe \in Whole
    BY <1>7 DEF DropOld, UpdateAlone, Backed
  <2>3. QED
    BY <1>7, <2>1, <2>2
    DEF DropOld, UpdateAlone, OneUpdate, Prepared, Backed, OthersIdle, Swapping, Ready, Whole
<1>8. ASSUME NEW u \in Updaters, MoveAside(u) PROVE UpdateAlone'
  <2>1. OthersIdle(u) /\ phase'[u] = "swap"
    BY <1>8, OnlyOne DEF MoveAside
  <2>2. exe \in Whole /\ windows
    BY <1>8 DEF MoveAside, UpdateAlone, Backed, Prepared, Ready
  <2>3. exe' = NoBinary /\ oldFile' = exe
    BY <1>8, <2>2 DEF MoveAside, Whole
  <2>4. QED
    BY <1>8, <2>1, <2>2, <2>3
    DEF MoveAside, UpdateAlone, OneUpdate, Prepared, Backed, OthersIdle, Swapping, Ready
<1>9. ASSUME NEW u \in Updaters, SwapIn(u) PROVE UpdateAlone'
  <2>1. newFile \in Releases /\ target[u] = "exe"
    BY <1>9 DEF SwapIn, UpdateAlone, Prepared, HasRelease, Swapping, Ready
  <2>2. OthersIdle(u) /\ phase'[u] = "idle"
    BY <1>9, <2>1, OnlyOne DEF SwapIn
  <2>3. exe' = newFile /\ windows' = windows
    BY <1>9, <2>1 DEF SwapIn
  <2>4. replaced' = {v \in Updaters \ {u} : phase[v] # "idle"}
    BY <1>9, <2>1 DEF SwapIn
  <2>5. replaced' = {}
    BY <1>9, <2>4 DEF SwapIn, UpdateAlone, OneUpdate
  <2>6. QED
    BY <2>1, <2>2, <2>3, <2>5
    DEF UpdateAlone, OneUpdate, Prepared, Backed, OthersIdle, Swapping, Ready, Whole
<1>10. ASSUME NEW u \in Updaters, KillUpdate(u) PROVE UpdateAlone'
  BY <1>10, LeaveAlone DEF KillUpdate
<1>11. CASE UNCHANGED updateVars
  BY <1>11 DEF updateVars, UpdateAlone, OneUpdate, Prepared, Backed
<1>12. QED
  BY <1>1, <1>2, <1>3, <1>4, <1>5, <1>6, <1>7, <1>8, <1>9, <1>10, <1>11 DEF UpdateNext

LEMMA UpdateInvariant == UpdateSpec => []UpdateInv
<1>. USE DEF UpdateInv
<1>1. UpdateInit => UpdateInv
  BY BinariesAssumption, UpdateBoundsAssumption
  DEF UpdateInit, UpdateTypeOK, HasRelease, HandleWrites, NewTorn, ExeTorn, OneUpdate,
      Prepared, Backed, Swapping, Ready, Whole
<1>2. UpdateInv /\ [UpdateNext]_updateVars => UpdateInv'
  <2> SUFFICES ASSUME UpdateInv, [UpdateNext]_updateVars PROVE UpdateInv'
    OBVIOUS
  <2>1. UpdateTypeOK'
    BY UpdateTypeStep
  <2>2. HasRelease' /\ HandleWrites'
    BY ReleaseStep
  <2>3. NewTorn' /\ ExeTorn'
    BY UpdateTornStep
  <2>4. alone' = alone
    BY DEF UpdateNext, updateVars, StartUpdate, VerifyRelease, FindSelf, CreateNew, WriteNew,
           ChmodNew, DropOld, MoveAside, SwapIn, KillUpdate, platform
  <2>5. alone => UpdateAlone'
    BY AloneStep DEF UpdateAlone
  <2>6. QED
    BY <2>1, <2>2, <2>3, <2>4, <2>5 DEF UpdateAlone
<1>3. QED
  BY <1>1, <1>2, PTL DEF UpdateSpec

\* The variables of an update stay in their ranges (cmd/update.rs).
THEOREM UpdateTypeCorrect == UpdateSpec => []UpdateTypeOK
<1>1. UpdateInv => UpdateTypeOK
  BY DEF UpdateInv
<1>2. QED
  BY <1>1, UpdateInvariant, PTL

\* swap_binary never leaves the user without a binary, whatever the kills, if
\* updates run one after another; where they overlap, a torn executable has a
\* writer, or had one that was killed.
THEOREM BinaryWholeHolds == UpdateSpec => []BinaryWhole
<1>1. UpdateInv => BinaryWhole
  BY DEF UpdateInv, ExeTorn, Backed, BinaryWhole
<1>2. QED
  BY <1>1, UpdateInvariant, PTL
-----------------------------------------------------------------------------
\* The walk over the rotation chain takes links there are.
LEMMA FirstFromLink ==
  ASSUME NEW chain \in Seq(Links), NEW k, LinksFrom(chain, k) # {}
  PROVE  FirstFrom(chain, k) \in LinksFrom(chain, k)
<1>1. LinksFrom(chain, k) \in SUBSET Nat
  BY DEF LinksFrom
<1>2. \E i \in LinksFrom(chain, k) : \A j \in LinksFrom(chain, k) : i <= j
  BY <1>1, LeastNumber
<1>3. QED
  BY <1>2 DEF FirstFrom

LEMMA ResolvesVouched ==
  ASSUME NEW chain \in Seq(Links), NEW k, Resolves(chain, k)
  PROVE  k \in Vouched(chain)
<1> DEFINE Onward(s)   == {chain[FirstFrom(chain, j)].to : j \in {i \in s : Advances(chain, i)}}
           Walks(f, m) == f = [n \in 0 .. m |-> IF n = 0 THEN {Anchor} ELSE Onward(f[n - 1])]
           walk        == CHOOSE f : Walks(f, MaxHops + 1)
<1>1. \E f : Walks(f, MaxHops + 1)
  <2> DEFINE S == {m \in Nat : \E f : Walks(f, m)}
  <2>1. 0 \in S
    <3> DEFINE f == [n \in 0 .. 0 |-> {Anchor}]
    <3>1. Walks(f, 0)
      OBVIOUS
    <3>2. QED
      BY <3>1
  <2>2. ASSUME NEW m \in Nat, m \in S PROVE m + 1 \in S
    <3>1. PICK f : Walks(f, m)
      BY <2>2
    <3> DEFINE g == [n \in 0 .. m + 1 |-> IF n <= m THEN f[n] ELSE Onward(f[m])]
    <3> HIDE DEF Onward
    <3>2. \A n \in 0 .. m + 1 : g[n] = IF n = 0 THEN {Anchor} ELSE Onward(g[n - 1])
      <4>1. ASSUME NEW n \in 0 .. m + 1, n = 0
            PROVE  g[n] = {Anchor}
        BY <3>1, <4>1
      <4>2. ASSUME NEW n \in 0 .. m, n # 0
            PROVE  g[n] = Onward(g[n - 1])
        <5>1. n - 1 \in 0 .. m /\ n \in 0 .. m + 1 /\ n - 1 \in 0 .. m + 1 /\ n - 1 <= m
          BY <4>2
        <5>2. g[n] = f[n] /\ g[n - 1] = f[n - 1]
          BY <5>1
        <5>3. f[n] = Onward(f[n - 1])
          <6> HIDE DEF g
          <6>1. QED
            BY <3>1, <4>2
        <5>4. QED
          BY <5>2, <5>3
      <4>3. g[m + 1] = Onward(g[m])
        OBVIOUS
      <4> HIDE DEF g
      <4>4. ASSUME NEW n \in 0 .. m + 1
            PROVE  g[n] = IF n = 0 THEN {Anchor} ELSE Onward(g[n - 1])
        <5>1. n = 0 \/ (n \in 0 .. m /\ n # 0) \/ n = m + 1
          OBVIOUS
        <5>2. m + 1 # 0 /\ (m + 1) - 1 = m
          OBVIOUS
        <5>3. QED
          BY <4>1, <4>2, <4>3, <5>1, <5>2
      <4>5. QED
        BY <4>4
    <3>3. g = [n \in 0 .. m + 1 |-> g[n]]
      OBVIOUS
    <3> HIDE DEF g
    <3>4. Walks(g, m + 1)
      BY <3>2, <3>3
    <3>5. QED
      BY <3>4
  <2>3. Nat \subseteq S
    <3> HIDE DEF S
    <3>1. QED
      BY <2>1, <2>2, NatSetInduction
  <2>4. MaxHops + 1 \in S
    <3> HIDE DEF S
    <3>1. QED
      BY <2>3, UpdateBoundsAssumption
  <2>5. QED
    BY <2>4
<1>2. Walks(walk, MaxHops + 1)
  <2> HIDE DEF Walks
  <2>1. QED
    BY <1>1
<1>3. \E n \in 0 .. MaxHops + 1 : k \in walk[n]
  BY DEF Resolves
<1> HIDE DEF walk
<1>4. ASSUME NEW K \in SUBSET ReleaseKeys, Anchor \in K,
             \A i \in 1 .. Len(chain) : chain[i].good /\ chain[i].from \in K => chain[i].to \in K
      PROVE  \A n \in 0 .. MaxHops + 1 : walk[n] \subseteq K
  <2>1. ASSUME NEW s \in SUBSET K PROVE Onward(s) \subseteq K
    <3>1. ASSUME NEW j \in s, Advances(chain, j)
          PROVE  chain[FirstFrom(chain, j)].to \in K
      <4>1. FirstFrom(chain, j) \in LinksFrom(chain, j)
        BY <3>1, FirstFromLink DEF Advances
      <4>2. QED
        BY <1>4, <2>1, <3>1, <4>1 DEF LinksFrom, Advances
    <3>2. QED
      BY <3>1
  <2> DEFINE S == {n \in Nat : n <= MaxHops + 1 => walk[n] \subseteq K}
  <2> HIDE DEF Onward
  <2>2. walk[0] = {Anchor} /\ \A n \in 1 .. MaxHops + 1 : walk[n] = Onward(walk[n - 1])
    <3>1. walk = [n \in 0 .. MaxHops + 1 |-> IF n = 0 THEN {Anchor} ELSE Onward(walk[n - 1])]
      BY <1>2
    <3>2. 0 \in 0 .. MaxHops + 1 /\ \A n \in 1 .. MaxHops + 1 : n \in 0 .. MaxHops + 1 /\ n # 0
      BY UpdateBoundsAssumption
    <3>3. walk[0] = {Anchor}
      BY <3>1, <3>2
    <3>4. ASSUME NEW n \in 1 .. MaxHops + 1 PROVE walk[n] = Onward(walk[n - 1])
      BY <3>1, <3>2
    <3>5. QED
      BY <3>3, <3>4
  <2>3. 0 \in S
    BY <1>4, <2>2
  <2>4. ASSUME NEW n \in Nat, n \in S PROVE n + 1 \in S
    <3>1. SUFFICES ASSUME n + 1 <= MaxHops + 1 PROVE walk[n + 1] \subseteq K
      OBVIOUS
    <3>2. walk[n] \subseteq K /\ walk[n + 1] = Onward(walk[n])
      BY <2>2, <2>4, <3>1, UpdateBoundsAssumption
    <3>3. QED
      BY <2>1, <3>2
  <2>5. Nat \subseteq S
    <3> HIDE DEF S
    <3>1. QED
      BY <2>3, <2>4, NatSetInduction
  <2>6. QED
    BY <2>5
<1>5. k \in ReleaseKeys
  <2>1. \A i \in 1 .. Len(chain) : chain[i].to \in ReleaseKeys
    <3>1. \A i \in 1 .. Len(chain) : chain[i] \in Links
      OBVIOUS
    <3>2. QED
      BY <3>1 DEF Links
  <2>2. QED
    BY <1>3, <1>4, <2>1, AnchorAssumption
<1>6. QED
  BY <1>3, <1>4, <1>5 DEF Vouched

\* What may become the binary: a release whose verification held.
Trusted(r) ==
  /\ r.sound /\ r.intact
  /\ build # "unanchored"
  /\ build = "anchored" => r.signer \in Vouched(r.chain)

LEMMA VerifiedTrusted ==
  ASSUME UpdateTypeOK, NEW r \in Releases, Verified(r)
  PROVE  Trusted(r)
<1>1. build = "anchored" => r.signer \in Vouched(r.chain)
  BY ResolvesVouched, ReleasesAssumption DEF Verified, Anchored
<1>2. build # "unanchored"
  BY DEF Verified, Anchored
<1>3. QED
  BY <1>1, <1>2 DEF Verified, Trusted

\* An update past its verification has a trusted release in hand; so has every
\* path it writes.
TrustedOnly ==
  /\ \A u \in Updaters : phase[u] \notin {"idle", "verify"} => Trusted(release[u])
  /\ \A f \in {exe, newFile, oldFile, stray} \cap Releases : Trusted(f)

\* Files move between the paths, and what an update writes is what it has in hand.
LEMMA TrustedMoves ==
  ASSUME TrustedOnly, UNCHANGED build, NEW u \in Updaters,
         phase[u] \notin {"idle", "verify"},
         {exe', newFile', oldFile', stray'} \subseteq
            {exe, newFile, oldFile, stray, release[u], TornBinary, NoBinary},
         \A v \in Updaters : phase'[v] \notin {"idle", "verify"} =>
            phase[v] \notin {"idle", "verify"} /\ release'[v] = release[v]
  PROVE  TrustedOnly'
<1>1. \A r : Trusted(r)' <=> Trusted(r)
  BY DEF Trusted
<1>2. \A f \in {exe', newFile', oldFile', stray'} \cap Releases : Trusted(f)
  BY BinariesAssumption DEF TrustedOnly
<1>3. QED
  BY <1>1, <1>2 DEF TrustedOnly

LEMMA TrustedStep ==
  UpdateTypeOK /\ HasRelease /\ TrustedOnly /\ [UpdateNext]_updateVars => TrustedOnly'
<1> SUFFICES ASSUME UpdateTypeOK, HasRelease, TrustedOnly, [UpdateNext]_updateVars
             PROVE  TrustedOnly'
  OBVIOUS
<1>. USE DEF files, platform
<1>a. ASSUME NEW u \in Updaters, Leave(u), UNCHANGED <<files, build>> PROVE TrustedOnly'
  <2>1. \A r : Trusted(r)' <=> Trusted(r)
    BY <1>a DEF Trusted
  <2>2. \A v \in Updaters : phase'[v] = "idle" \/ (phase'[v] = phase[v] /\ release'[v] = release[v])
    BY <1>a DEF Leave, Goto, UpdateTypeOK
  <2>3. QED
    BY <1>a, <2>1, <2>2 DEF TrustedOnly
<1>b. ASSUME NEW u \in Updaters, NEW s, Goto(u, s), UNCHANGED <<files, build, release>>,
             Trusted(release[u])
      PROVE  TrustedOnly'
  <2>1. \A r : Trusted(r)' <=> Trusted(r)
    BY <1>b DEF Trusted
  <2>2. \A v \in Updaters : v = u \/ phase'[v] = phase[v]
    BY <1>b DEF Goto, UpdateTypeOK
  <2>3. QED
    BY <1>b, <2>1, <2>2 DEF TrustedOnly
<1>1. ASSUME NEW u \in Updaters, StartUpdate(u) PROVE TrustedOnly'
  <2>1. \A r : Trusted(r)' <=> Trusted(r)
    BY <1>1 DEF StartUpdate, Trusted
  <2>2. /\ phase'[u] = "verify"
        /\ \A v \in Updaters : v # u => phase'[v] = phase[v] /\ release'[v] = release[v]
    BY <1>1 DEF StartUpdate, Goto, UpdateTypeOK
  <2>3. QED
    BY <1>1, <2>1, <2>2 DEF StartUpdate, TrustedOnly
<1>2. ASSUME NEW u \in Updaters, VerifyRelease(u) PROVE TrustedOnly'
  <2>1. CASE Leave(u)
    BY <1>2, <2>1, <1>a DEF VerifyRelease
  <2>2. CASE Verified(release[u]) /\ Goto(u, "path") /\ UNCHANGED release
    <3>1. release[u] \in Releases
      BY <1>2 DEF VerifyRelease, HasRelease
    <3>2. QED
      BY <1>2, <2>2, <3>1, <1>b, VerifiedTrusted DEF VerifyRelease
  <2>3. QED
    BY <1>2, <2>1, <2>2 DEF VerifyRelease
<1>3. ASSUME NEW u \in Updaters, FindSelf(u) PROVE TrustedOnly'
  BY <1>3, <1>b DEF FindSelf, TrustedOnly
<1>4. ASSUME NEW u \in Updaters,
             CreateNew(u) \/ WriteNew(u) \/ DropOld(u) \/ MoveAside(u)
      PROVE  TrustedOnly'
  <2>1. phase[u] \notin {"idle", "verify"} /\ build' = build /\ release' = release
    BY <1>4 DEF CreateNew, WriteNew, DropOld, MoveAside
  <2>2. \A v \in Updaters : v = u \/ phase'[v] = phase[v]
    BY <1>4 DEF CreateNew, WriteNew, DropOld, MoveAside, Goto, UpdateTypeOK
  <2>3. {exe', newFile', oldFile', stray'} \subseteq
          {exe, newFile, oldFile, stray, release[u], TornBinary, NoBinary}
    BY <1>4 DEF CreateNew, WriteNew, DropOld, MoveAside
  <2>4. QED
    BY <2>1, <2>2, <2>3, TrustedMoves
<1>5. ASSUME NEW u \in Updaters, ChmodNew(u) PROVE TrustedOnly'
  BY <1>5, <1>a, <1>b DEF ChmodNew, TrustedOnly
<1>6. ASSUME NEW u \in Updaters, SwapIn(u) PROVE TrustedOnly'
  <2>1. CASE newFile = NoBinary
    BY <1>6, <2>1, <1>a DEF SwapIn
  <2>2. CASE newFile # NoBinary
    <3>1. phase[u] \notin {"idle", "verify"} /\ build' = build
      BY <1>6 DEF SwapIn
    <3>2. \A v \in Updaters : IF v = u THEN phase'[v] = "idle"
                              ELSE phase'[v] = phase[v] /\ release'[v] = release[v]
      BY <1>6, <2>2 DEF SwapIn, Goto, UpdateTypeOK
    <3>3. {exe', newFile', oldFile', stray'} \subseteq {exe, newFile, oldFile, stray, NoBinary}
      BY <1>6, <2>2 DEF SwapIn
    <3>4. QED
      BY <3>1, <3>2, <3>3, TrustedMoves
  <2>3. QED
    BY <2>1, <2>2
<1>7. ASSUME NEW u \in Updaters, KillUpdate(u) PROVE TrustedOnly'
  BY <1>7, <1>a DEF KillUpdate
<1>8. CASE UNCHANGED updateVars
  <2>1. \A r : Trusted(r)' <=> Trusted(r)
    BY <1>8 DEF updateVars, Trusted
  <2>2. QED
    BY <1>8, <2>1 DEF updateVars, TrustedOnly
<1>9. QED
  BY <1>1, <1>2, <1>3, <1>4, <1>5, <1>6, <1>7, <1>8 DEF UpdateNext

\* Whatever updates overlap or are killed, a whole binary an update leaves at one
\* of its paths is a release whose manifest and hash held, and on an anchored
\* build one whose signer the anchor vouches for through good links
\* (extract_and_verify, RotationChain::resolve).
THEOREM InstalledTrustedHolds == UpdateSpec => []InstalledTrusted
<1>1. UpdateInit => TrustedOnly
  BY BinariesAssumption DEF UpdateInit, TrustedOnly
<1>2. UpdateInv => UpdateTypeOK /\ HasRelease
  BY DEF UpdateInv
<1>3. TrustedOnly => InstalledTrusted
  BY DEF TrustedOnly, Trusted, InstalledTrusted
<1>4. QED
  BY <1>1, <1>2, <1>3, UpdateInvariant, TrustedStep, PTL DEF UpdateSpec
=============================================================================
