----------------------- MODULE UnsealKeyRotationProofs -----------------------
(***************************************************************************)
(* Proofs about UnsealKeyRotation, for any hosts and any number of plays   *)
(* and rekeyings.                                                          *)
(***************************************************************************)
EXTENDS UnsealKeyRotation, TLAPS

\* What a host stores: its two files and the backups of them.
LEMMA StoredOnHost ==
  ASSUME NEW g, NEW h \in Hosts,
         g # None, g = live[h] \/ g = candidate[h] \/ g \in kept[h]
  PROVE  g \in Known
  BY DEF Known, Stored

\* A write never loses what the host stored: a replaced file becomes a backup.
LEMMA WritesKeep ==
  ASSUME TypeOK, NEW h \in Hosts, NEW b \in MaybeKeys,
         \/ UNCHANGED files
         \/ WriteLive(h, b)
         \/ WriteCandidate(h, b)
  PROVE  /\ Known \subseteq Known'
         /\ live' \in [Hosts -> MaybeKeys] /\ candidate' \in [Hosts -> MaybeKeys]
         /\ kept' \in [Hosts -> SUBSET Generations]
<1>1. CASE UNCHANGED files
  BY <1>1 DEF TypeOK, files, Known, Stored
<1>2. CASE WriteLive(h, b)
  <2>1. /\ live' \in [Hosts -> MaybeKeys] /\ candidate' \in [Hosts -> MaybeKeys]
        /\ kept' \in [Hosts -> SUBSET Generations]
    BY <1>2 DEF TypeOK, WriteLive, Keep, MaybeKeys
  <2>2. \A k \in Hosts : Stored(k) \subseteq Stored(k)'
    BY <1>2, <2>1 DEF TypeOK, WriteLive, Keep, MaybeKeys, Stored
  <2> QED BY <2>1, <2>2 DEF Known
<1>3. CASE WriteCandidate(h, b)
  <2>1. /\ live' \in [Hosts -> MaybeKeys] /\ candidate' \in [Hosts -> MaybeKeys]
        /\ kept' \in [Hosts -> SUBSET Generations]
    BY <1>3 DEF TypeOK, WriteCandidate, Keep, MaybeKeys
  <2>2. \A k \in Hosts : Stored(k) \subseteq Stored(k)'
    BY <1>3, <2>1 DEF TypeOK, WriteCandidate, Keep, MaybeKeys, Stored
  <2> QED BY <2>1, <2>2 DEF Known
<1> QED BY <1>1, <1>2, <1>3

\* Holds initially: some host has the first keys.
LEMMA RotationInit == Init => RecoverableInv
<1> SUFFICES ASSUME Init PROVE RecoverableInv
  OBVIOUS
<1>1. TypeOK
  BY NoneAssumption DEF Init, TypeOK, MaybeKeys, Generations
<1>2. Recoverable
  <2>1. PICK h \in Hosts : live[h] = 0
    BY DEF Init
  <2> QED BY <2>1, StoredOnHost, NoneAssumption DEF Init, Recoverable
<1> QED BY <1>1, <1>2 DEF Init, RecoverableInv, KeysReadFromHosts, SeenOnHosts, NewKeysMade

\* A step that changes no file and no keys in force, and gives the plays
\* nothing they have not read, keeps the invariant.
LEMMA NoNewKeys ==
  ASSUME RecoverableInv, TypeOK', Known' = Known, vgen' = vgen, NewKeysMade',
         \A p \in Plays : keys'[p] \in {keys[p], None} \union seen[p],
         \A p \in Plays : seen'[p] \subseteq seen[p]
  PROVE  RecoverableInv'
  BY DEF RecoverableInv, KeysReadFromHosts, SeenOnHosts, Recoverable

\* The tasks of a play that touch no file.
LEMMA BundleWasRead ==
  ASSUME NEW p \in Plays, TypeOK, Consistent(p)
  PROVE  TheBundle(p) \in seen[p] /\ TheBundle(p) \in Generations
  BY DEF Consistent, TheBundle, TypeOK

\* Every step of a play keeps it.
LEMMA PlayKeepsRecoverable ==
  ASSUME VerifyRekey = TRUE, RecoverableInv, NEW p \in Plays, PlayStep(p)
  PROVE  RecoverableInv'
<1> USE DEF RecoverableInv
<1>t. TypeOK
  OBVIOUS
<1>f. UNCHANGED files => Known' = Known
  BY DEF files, Known, Stored
<1>1. CASE StartPlay(p)
  <2>1. TypeOK'
    BY <1>1, <1>t DEF TypeOK, StartPlay, vault, files, MaybeKeys, ReadTasks
  <2> QED BY <1>1, <1>f, <2>1, NoNewKeys
          DEF StartPlay, TypeOK, vault, NewKeysMade, MaybeKeys
<1>2. ASSUME NEW h \in Hosts, ReadFile(p, h) PROVE RecoverableInv'
  <2>1. File(pc[p])[h] \in MaybeKeys /\ {File(pc[p])[h]} \ {None} \subseteq Known
    BY <1>t, StoredOnHost DEF File, TypeOK
  <2>2. TypeOK'
    BY <1>2, <2>1, <1>t DEF TypeOK, ReadFile, vault, files, MaybeKeys
  <2>3. SeenOnHosts'
    BY <1>2, <2>1, <1>f DEF ReadFile, SeenOnHosts, TypeOK
  <2> QED BY <1>2, <1>f, <2>2, <2>3
          DEF ReadFile, vault, KeysReadFromHosts, NewKeysMade, Recoverable
<1>3. ASSUME NEW h \in Hosts, WriteFile(p, h) PROVE RecoverableInv'
  <2>1. PICK b \in MaybeKeys :
          UNCHANGED files \/ WriteLive(h, b) \/ WriteCandidate(h, b)
    <3>1. bundle[p] \in MaybeKeys /\ candidate[h] \in MaybeKeys
      BY <1>t DEF TypeOK
    <3> QED BY <1>3, <3>1 DEF WriteFile, Write
  <2>2. /\ Known \subseteq Known'
        /\ live' \in [Hosts -> MaybeKeys] /\ candidate' \in [Hosts -> MaybeKeys]
        /\ kept' \in [Hosts -> SUBSET Generations]
    BY <1>t, <2>1, WritesKeep
  <2>3. TypeOK'
    BY <1>3, <2>2, <1>t DEF TypeOK, WriteFile, vault
  <2> QED BY <1>3, <2>2, <2>3
          DEF WriteFile, vault, KeysReadFromHosts, SeenOnHosts, NewKeysMade, Recoverable
<1>4. ASSUME NEW how \in {"failed", "done"}, End(p, how) PROVE RecoverableInv'
  <2>1. TypeOK'
    BY <1>4, <1>t DEF TypeOK, End, vault, files, MaybeKeys
  <2>2. \A q \in Plays : seen'[q] \subseteq seen[q] /\ keys'[q] \in {keys[q], None}
    BY <1>4, <1>t DEF End, TypeOK
  <2> QED BY <1>4, <2>1, <2>2, <1>f, NoNewKeys DEF End, vault, NewKeysMade
<1>9. CASE Inconsistent(p) \/ Propagated(p) \/ Unchanged(p) \/ Changed(p) \/ Saved(p)
           \/ MadeLive(p) \/ Fail(p)
  <2>1. CASE \E how \in {"failed", "done"} : End(p, how)
    BY <1>4, <2>1
  <2>2. CASE /\ UNCHANGED <<vault, up, files, keys, bundle, pnonce>>
             /\ \/ GoTo(p, "cancel")
                \/ \E task \in {"compare", "candidate"} : Enter(p, task)
    <3>1. TypeOK'
      BY <2>2, <1>t DEF TypeOK, vault, files, GoTo, Enter, ReadTasks, OtherTasks
    <3>2. \A q \in Plays : seen'[q] \subseteq seen[q]
      BY <2>2, <1>t DEF GoTo, Enter, TypeOK
    <3> QED BY <2>2, <3>1, <3>2, <1>f, NoNewKeys DEF vault, NewKeysMade
  <2> QED BY <1>9, <2>1, <2>2
          DEF Inconsistent, Propagated, Unchanged, Changed, Saved, MadeLive, Fail
<1>5. CASE Decrypt(p) \/ Fetch(p) \/ DecryptCandidate(p)
  <2>1. /\ UNCHANGED <<vault, up, files, pnonce>>
        /\ TheBundle(p) \in seen[p] /\ TheBundle(p) \in Generations
        /\ \/ UNCHANGED bundle /\ keys' = [keys EXCEPT ![p] = TheBundle(p)]
           \/ UNCHANGED keys /\ bundle' = [bundle EXCEPT ![p] = TheBundle(p)]
        /\ \E task \in {"fetch", "propagate", "verify"} : GoTo(p, task) \/ Enter(p, task)
    BY <1>5, <1>t, BundleWasRead DEF Decrypt, Fetch, DecryptCandidate
  <2>2. TypeOK'
    BY <2>1, <1>t
       DEF TypeOK, vault, files, GoTo, Enter, ReadTasks, WriteTasks, OtherTasks, MaybeKeys
  <2>3. \A q \in Plays : seen'[q] \subseteq seen[q]
    BY <2>1, <1>t DEF GoTo, Enter, TypeOK
  <2>4. \A q \in Plays : keys'[q] \in {keys[q], None} \union seen[q]
    BY <2>1, <1>t DEF TypeOK
  <2> QED BY <2>1, <2>2, <2>3, <2>4, <1>f, NoNewKeys DEF vault, NewKeysMade
<1>6. CASE Cancel(p) \/ Begin(p)
  <2>1. TypeOK'
    <3>1. /\ lastNonce' \in Nat
          /\ \/ rekey' = None
             \/ rekey' = [verifying |-> FALSE, nonce |-> lastNonce', new |-> None]
      BY <1>6, <1>t DEF TypeOK, Cancel, Begin
    <3>2. /\ \E task \in {"begin", "submit"} : pc' = [pc EXCEPT ![p] = task]
          /\ todo' = [todo EXCEPT ![p] = {}] /\ seen' = [seen EXCEPT ![p] = {}]
          /\ UNCHANGED <<vgen, lastGen, committed, up, files, playHosts, keys, bundle>>
      BY <1>6 DEF Cancel, Begin, GoTo
    <3>3. pnonce' \in [Plays -> Nat]
      <4>1. pnonce' = pnonce \/ pnonce' = [pnonce EXCEPT ![p] = lastNonce']
        BY <1>6 DEF Cancel, Begin
      <4> QED BY <3>1, <4>1, <1>t DEF TypeOK
    <3>4. rekey' \in [verifying : BOOLEAN, nonce : Nat, new : MaybeKeys] \union {None}
      <4>1. None \in MaybeKeys /\ FALSE \in BOOLEAN
        BY DEF MaybeKeys
      <4>2. ASSUME rekey' # None PROVE rekey' \in [verifying : BOOLEAN, nonce : Nat, new : MaybeKeys]
        <5>1. rekey' = [verifying |-> FALSE, nonce |-> lastNonce', new |-> None]
          BY <3>1, <4>2
        <5> QED BY <3>1, <4>1, <5>1
      <4> QED BY <4>2
    <3>5. pc' \in [Plays -> ReadTasks \union WriteTasks \union OtherTasks
                              \union {"idle", "done", "failed"}]
      BY <3>2, <1>t DEF TypeOK, OtherTasks
    <3>6. todo' \in [Plays -> SUBSET Hosts] /\ seen' \in [Plays -> SUBSET Generations]
      BY <3>2, <1>t DEF TypeOK
    <3> HIDE DEF RecoverableInv
    <3> QED BY <3>1, <3>2, <3>3, <3>4, <3>5, <3>6, <1>t DEF TypeOK, files
  <2>2. \A q \in Plays : seen'[q] \subseteq seen[q]
    BY <1>6, <1>t DEF Cancel, Begin, GoTo, TypeOK
  <2>3. NewKeysMade'
    BY <1>6 DEF Cancel, Begin, NewKeysMade
  <2> QED BY <1>6, <2>1, <2>2, <2>3, <1>f, NoNewKeys DEF Cancel, Begin
<1>7. CASE Submit(p)
  <2>1. lastGen' \in Generations /\ lastNonce' \in Nat /\ lastGen' # None
    BY <1>7, <1>t, NoneAssumption DEF Submit, TypeOK, Generations
  <2>2. TypeOK'
    <3>1. /\ rekey' = [verifying |-> TRUE, nonce |-> lastNonce', new |-> lastGen']
          /\ pnonce' = [pnonce EXCEPT ![p] = lastNonce'] /\ UNCHANGED <<vgen, committed>>
      BY <1>7 DEF Submit
    <3>2. bundle' \in [Plays -> MaybeKeys] /\ keys' \in [Plays -> MaybeKeys]
      BY <1>7, <2>1, <1>t DEF TypeOK, Submit, MaybeKeys
    <3>3. /\ pc' = [pc EXCEPT ![p] = "save"]
          /\ todo' = [todo EXCEPT ![p] = playHosts[p]] /\ seen' = [seen EXCEPT ![p] = {}]
          /\ UNCHANGED <<up, files, playHosts>>
      BY <1>7 DEF Submit, Enter
    <3>4. /\ rekey' \in [verifying : BOOLEAN, nonce : Nat, new : MaybeKeys]
          /\ pnonce' \in [Plays -> Nat]
      BY <3>1, <2>1, <1>t DEF TypeOK, MaybeKeys
    <3> QED BY <2>1, <3>1, <3>2, <3>3, <3>4, <1>t DEF TypeOK, files, WriteTasks
  <2>3. \A q \in Plays : seen'[q] \subseteq seen[q] /\ keys'[q] \in {keys[q], None}
    BY <1>7, <1>t DEF Submit, Enter, TypeOK
  <2>4. NewKeysMade'
    BY <1>7, <2>1 DEF Submit, NewKeysMade
  <2> QED BY <1>7, <2>2, <2>3, <2>4, <1>f, NoNewKeys DEF Submit
<1>8. CASE Verify(p)
  <2>1. rekey.new \in Generations /\ rekey.new \in Known
    BY <1>8, <1>t
       DEF Verify, MyOperation, NewKeysMade, KeysReadFromHosts, TypeOK, MaybeKeys
  <2>2. TypeOK'
    BY <1>8, <2>1, <1>t
       DEF TypeOK, Verify, files, Enter, ReadTasks, WriteTasks, OtherTasks
  <2>3. Recoverable' /\ KeysReadFromHosts' /\ NewKeysMade'
    BY <1>8, <2>1, <1>f DEF Verify, Recoverable, KeysReadFromHosts, NewKeysMade
  <2>4. SeenOnHosts'
    BY <1>8, <1>t, <1>f DEF Verify, Enter, SeenOnHosts, TypeOK
  <2> QED BY <2>2, <2>3, <2>4
<1> QED BY <1>1, <1>2, <1>3, <1>5, <1>6, <1>7, <1>8, <1>9 DEF PlayStep

\* And so does everything else.
LEMMA RecoverableStep ==
  ASSUME VerifyRekey = TRUE, RecoverableInv, [Next]_vars
  PROVE  RecoverableInv'
<1>1. CASE \E p \in Plays : PlayStep(p)
  BY <1>1, PlayKeepsRecoverable
<1>2. ASSUME NEW h \in Hosts, HostDown(h) \/ HostUp(h) PROVE RecoverableInv'
  <2>1. UNCHANGED <<vault, files, play>> /\ up' \subseteq Hosts
    BY <1>2 DEF RecoverableInv, TypeOK, HostDown, HostUp
  <2> QED BY <2>1 DEF RecoverableInv, TypeOK, vault, files, play, KeysReadFromHosts,
             SeenOnHosts, NewKeysMade, Recoverable, Known, Stored
<1>3. CASE VaultForgets
  BY <1>3 DEF VaultForgets, RecoverableInv, TypeOK, files, play, KeysReadFromHosts,
     SeenOnHosts, NewKeysMade, Recoverable, Known, Stored
<1>4. CASE Repair
  <2>1. /\ live' \in [Hosts -> MaybeKeys]
        /\ kept' \in [Hosts -> SUBSET Generations]
        /\ \A h \in Hosts : Stored(h) \subseteq Stored(h)'
    BY <1>4 DEF Repair, RecoverableInv, TypeOK, MaybeKeys, Stored
  <2>2. Known \subseteq Known'
    BY <2>1 DEF Known
  <2>3. TypeOK'
    BY <1>4, <2>1 DEF Repair, RecoverableInv, TypeOK, vault, play
  <2> QED BY <1>4, <2>2, <2>3 DEF Repair, vault, play, RecoverableInv, KeysReadFromHosts,
             SeenOnHosts, NewKeysMade, Recoverable
<1>5. CASE UNCHANGED vars
  BY <1>5 DEF vars, vault, files, play, RecoverableInv, TypeOK, KeysReadFromHosts,
     SeenOnHosts, NewKeysMade, Recoverable, Known, Stored
<1> QED BY <1>1, <1>2, <1>3, <1>4, <1>5 DEF Next

\* The inductive invariant: no file's content is ever lost, so what a play has
\* read, and what Vault is given, is on some host.
THEOREM InvariantHolds ==
  ASSUME VerifyRekey = TRUE
  PROVE  Spec => []RecoverableInv
<1>1. Init => RecoverableInv
  BY RotationInit
<1>2. RecoverableInv /\ [Next]_vars => RecoverableInv'
  BY RecoverableStep
<1> QED BY <1>1, <1>2, PTL DEF Spec

\* With bbcrd_vault_verify_rekey, no order of crashes, failed hosts, failovers
\* and parallel plays loses the keys Vault takes: a file or a backup on some
\* host has them.
THEOREM KeysAreRecoverable ==
  ASSUME VerifyRekey = TRUE
  PROVE  Spec => []Recoverable
<1>1. RecoverableInv => Recoverable
  BY DEF RecoverableInv
<1> QED BY <1>1, InvariantHolds, PTL

(***************************************************************************)
(* One play at a time, as the documentation has it, for any hosts and any  *)
(* number of rekeyings, failures and hosts that are down in between.       *)
(***************************************************************************)
Alone == \A p, q \in Plays : p = q

AtRest == {"idle", "done", "failed"}
Rekeying == {"cancel", "begin", "submit", "save", "candidate", "verify", "make_live"}

SomewhereLive(g) == \E h \in Hosts : live[h] = g

\* The hosts a play deals with are its own, and it has some.
PlaysItsHosts(p) ==
  /\ todo[p] \subseteq playHosts[p]
  /\ pc[p] \notin AtRest => playHosts[p] # {}
  /\ pc[p] \in Rekeying /\ ~SkipSanityCheck => playHosts[p] = Hosts

\* What it has read of the live files is still there.
ReadsLive(p) ==
  /\ pc[p] \in AtRest => seen[p] = {}
  /\ pc[p] \in {"decrypt", "fetch", "compare"} => \A g \in seen[p] : SomewhereLive(g)
  /\ pc[p] \in {"fetch", "propagate", "compare", "cancel", "begin", "submit"} /\ keys[p] # None
       => SomewhereLive(keys[p])
  /\ pc[p] = "propagate" => SomewhereLive(bundle[p]) /\ bundle[p] # None

\* Until new keys are verified the old ones are in a live file; by then all hosts of the
\* play have the new ones beside it, and only these are made live.
SavesFirst(p) ==
  /\ pc[p] \in {"save", "candidate", "verify"} => SomewhereLive(vgen) /\ bundle[p] # None
  /\ pc[p] = "save" => \A h \in playHosts[p] \ todo[p] : candidate[h] = bundle[p]
  /\ pc[p] \in {"candidate", "verify"} => \A h \in playHosts[p] : candidate[h] = bundle[p]
  /\ pc[p] = "candidate" => seen[p] \subseteq {bundle[p]}
  /\ pc[p] = "verify" => keys[p] = bundle[p]
  /\ pc[p] = "make_live" => /\ \A h \in playHosts[p] : candidate[h] = vgen
                            /\ \A h \in playHosts[p] \ todo[p] : live[h] = vgen

AloneInv ==
  /\ \A p \in Plays : PlaysItsHosts(p) /\ ReadsLive(p) /\ SavesFirst(p)
  /\ vgen \in committed
  /\ NeverLockedOut /\ VerifiedBeforeLive

\* Holds initially: no play has begun, and only the first keys are in force.
LEMMA AloneInit == Init => AloneInv
  BY NoneAssumption
     DEF Init, AloneInv, PlaysItsHosts, ReadsLive, SavesFirst, AtRest, Rekeying,
         SomewhereLive, NeverLockedOut, VerifiedBeforeLive

\* A play that ends leaves nothing of itself, and no file or key changes.
LEMMA EndsAlone ==
  ASSUME TypeOK, Alone, AloneInv, NEW p \in Plays, NEW how \in {"failed", "done"}, End(p, how)
  PROVE  AloneInv'
<1>1. /\ pc'[p] = how /\ todo'[p] = {} /\ seen'[p] = {} /\ playHosts'[p] = {}
      /\ UNCHANGED <<vgen, committed, live, candidate>>
  BY DEF End, TypeOK, vault, files
<1>2. PlaysItsHosts(p)' /\ ReadsLive(p)' /\ SavesFirst(p)'
  BY <1>1 DEF PlaysItsHosts, ReadsLive, SavesFirst, AtRest, Rekeying
<1> QED BY <1>1, <1>2 DEF Alone, AloneInv, NeverLockedOut, VerifiedBeforeLive

\* A task read or wrote what it had to: the play moves on, and no file or key
\* in force changes.
LEMMA MovesOnAlone ==
  ASSUME TypeOK, Alone, AloneInv, NEW p \in Plays,
         UNCHANGED <<vgen, committed, live, candidate>>,
         PlaysItsHosts(p)', ReadsLive(p)', SavesFirst(p)'
  PROVE  AloneInv'
  BY DEF Alone, AloneInv, NeverLockedOut, VerifiedBeforeLive

\* The tasks that only read.
LEMMA ReadingAlone ==
  ASSUME TypeOK, Alone, AloneInv, NEW p \in Plays,
         StartPlay(p) \/ \E h \in Hosts : ReadFile(p, h)
  PROVE  AloneInv'
<1>p. PlaysItsHosts(p) /\ ReadsLive(p) /\ SavesFirst(p)
  BY DEF AloneInv
<1>1. CASE StartPlay(p)
  <2>1. /\ pc'[p] = "decrypt" /\ playHosts'[p] = up /\ todo'[p] = up /\ up # {}
        /\ seen'[p] = {}
        /\ UNCHANGED <<vgen, committed, live, candidate>>
    BY <1>1, <1>p DEF StartPlay, TypeOK, vault, files, ReadsLive, AtRest
  <2>2. PlaysItsHosts(p)' /\ ReadsLive(p)' /\ SavesFirst(p)'
    BY <2>1 DEF PlaysItsHosts, ReadsLive, SavesFirst, AtRest, Rekeying
  <2> QED BY <2>1, <2>2, MovesOnAlone
<1>2. ASSUME NEW h \in Hosts, ReadFile(p, h) PROVE AloneInv'
  <2>1. /\ pc[p] \in ReadTasks /\ h \in todo[p] /\ todo'[p] = todo[p] \ {h}
        /\ seen'[p] = (seen[p] \union {File(pc[p])[h]}) \ {None}
        /\ UNCHANGED <<vgen, committed, live, candidate, pc, playHosts, keys, bundle>>
    BY <1>2 DEF ReadFile, TypeOK, vault, files
  <2>2. PlaysItsHosts(p)'
    BY <1>p, <2>1 DEF PlaysItsHosts
  <2>3. ReadsLive(p)'
    <3>1. pc[p] # "candidate" => File(pc[p])[h] = live[h]
      BY DEF File
    <3>2. \A g : SomewhereLive(g) <=> SomewhereLive(g)'
      BY <2>1 DEF SomewhereLive
    <3>3. SomewhereLive(live[h])
      BY DEF SomewhereLive
    <3> QED BY <1>p, <2>1, <3>1, <3>2, <3>3 DEF ReadsLive, ReadTasks, AtRest
  <2>4. SavesFirst(p)'
    <3>1. pc[p] = "candidate" => File(pc[p])[h] = bundle[p]
      BY <1>p, <2>1 DEF File, SavesFirst, PlaysItsHosts
    <3> QED BY <1>p, <2>1, <3>1 DEF SavesFirst, SomewhereLive, ReadTasks
  <2> QED BY <2>1, <2>2, <2>3, <2>4, MovesOnAlone
<1> QED BY <1>1, <1>2

\* The tasks that write: propagation fills gaps with keys that are in force,
\* saving leaves the live files alone, and only keys in force are made live.
LEMMA WritingAlone ==
  ASSUME VerifyRekey = TRUE, TypeOK, Alone, AloneInv, NEW p \in Plays, NEW h \in Hosts,
         WriteFile(p, h)
  PROVE  AloneInv'
<1>p. PlaysItsHosts(p) /\ ReadsLive(p) /\ SavesFirst(p)
  BY DEF AloneInv
<1>t. /\ pc[p] \in WriteTasks /\ h \in todo[p] /\ todo'[p] = todo[p] \ {h}
      /\ Write(pc[p], h, bundle[p])
      /\ UNCHANGED <<vgen, committed, pc, playHosts, seen, keys, bundle>>
  BY DEF WriteFile, TypeOK, vault
<1>h. PlaysItsHosts(p)'
  BY <1>p, <1>t DEF PlaysItsHosts
<1>n. vgen # None
  BY NoneAssumption DEF TypeOK, Generations
<1> SUFFICES ReadsLive(p)' /\ SavesFirst(p)' /\ NeverLockedOut' /\ VerifiedBeforeLive'
  BY <1>t, <1>h DEF Alone, AloneInv
<1>1. CASE pc[p] = "propagate"
  <2>1. /\ candidate' = candidate
        /\ \/ live' = live
           \/ live[h] = None /\ live' = [live EXCEPT ![h] = bundle[p]]
    BY <1>1, <1>t DEF Write, WriteLive, files
  <2>2. \A g : g # None /\ SomewhereLive(g) => SomewhereLive(g)'
    BY <2>1 DEF SomewhereLive, TypeOK
  <2>3. ReadsLive(p)' /\ SavesFirst(p)'
    BY <1>1, <1>p, <1>t, <2>2 DEF ReadsLive, SavesFirst, AtRest
  <2>4. NeverLockedOut'
    BY <1>t, <1>n, <2>1 DEF AloneInv, NeverLockedOut, TypeOK
  <2>5. VerifiedBeforeLive'
    BY <1>1, <1>p, <1>t, <2>1
       DEF AloneInv, ReadsLive, VerifiedBeforeLive, SomewhereLive, TypeOK
  <2> QED BY <2>3, <2>4, <2>5
<1>2. CASE pc[p] = "save"
  <2>1. live' = live /\ candidate' = [candidate EXCEPT ![h] = bundle[p]]
    BY <1>2, <1>t DEF Write, WriteCandidate
  <2>2. ReadsLive(p)'
    BY <1>2, <1>p, <1>t DEF ReadsLive, AtRest
  <2>3. SavesFirst(p)'
    BY <1>2, <1>p, <1>t, <2>1 DEF SavesFirst, SomewhereLive, TypeOK, PlaysItsHosts
  <2>4. NeverLockedOut' /\ VerifiedBeforeLive'
    BY <1>2, <1>p, <1>t, <2>1
       DEF AloneInv, SavesFirst, SomewhereLive, NeverLockedOut, VerifiedBeforeLive
  <2> QED BY <2>2, <2>3, <2>4
<1>3. CASE pc[p] = "make_live"
  <2>1. /\ candidate' = candidate /\ candidate[h] = vgen
        /\ live' = [live EXCEPT ![h] = vgen]
    BY <1>3, <1>p, <1>t DEF Write, WriteLive, SavesFirst, PlaysItsHosts
  <2>2. ReadsLive(p)'
    BY <1>3, <1>p, <1>t DEF ReadsLive, AtRest
  <2>3. SavesFirst(p)'
    BY <1>3, <1>p, <1>t, <2>1 DEF SavesFirst, TypeOK, PlaysItsHosts
  <2>4. NeverLockedOut' /\ VerifiedBeforeLive'
    BY <1>t, <2>1 DEF AloneInv, NeverLockedOut, VerifiedBeforeLive, TypeOK
  <2> QED BY <2>2, <2>3, <2>4
<1> QED BY <1>1, <1>2, <1>3, <1>t DEF WriteTasks

\* Between tasks: what the next one relies on is what the last one did.
LEMMA BetweenTasksAlone ==
  ASSUME VerifyRekey = TRUE, TypeOK, Alone, AloneInv, NEW p \in Plays,
         \/ Decrypt(p) \/ Fetch(p) \/ Propagated(p) \/ Changed(p) \/ Cancel(p) \/ Begin(p)
         \/ Submit(p) \/ Saved(p) \/ DecryptCandidate(p)
  PROVE  AloneInv'
<1>p. PlaysItsHosts(p) /\ ReadsLive(p) /\ SavesFirst(p)
  BY DEF AloneInv
<1>c. CASE Changed(p) /\ End(p, "failed")
  BY <1>c, EndsAlone
<1>0. CASE ~(Changed(p) /\ End(p, "failed"))
  <2>1. /\ UNCHANGED <<vgen, committed, live, candidate>>
        /\ playHosts'[p] = playHosts[p] /\ seen'[p] = {} /\ todo'[p] \subseteq playHosts[p]
    BY <1>0, <1>p DEF Decrypt, Fetch, Propagated, Changed, Cancel, Begin, Submit, Saved,
       DecryptCandidate, Enter, GoTo, TypeOK, vault, files, PlaysItsHosts
  <2>2. \A g : SomewhereLive(g) <=> SomewhereLive(g)'
    BY <2>1 DEF SomewhereLive
  <2> SUFFICES PlaysItsHosts(p)' /\ ReadsLive(p)' /\ SavesFirst(p)'
    BY <2>1, MovesOnAlone
  <2>3. CASE Decrypt(p)
    <3>1. /\ pc[p] = "decrypt" /\ pc'[p] = "fetch" /\ keys'[p] = TheBundle(p)
          /\ TheBundle(p) \in seen[p]
      BY <2>3, BundleWasRead DEF Decrypt, Enter, Ready, TypeOK
    <3> QED BY <1>p, <2>1, <2>2, <3>1 DEF PlaysItsHosts, ReadsLive, SavesFirst, AtRest, Rekeying
  <2>4. CASE Fetch(p)
    <3>1. /\ pc[p] = "fetch" /\ pc'[p] = "propagate" /\ bundle'[p] = TheBundle(p)
          /\ TheBundle(p) \in seen[p] /\ TheBundle(p) # None /\ keys' = keys
      BY <2>4, BundleWasRead, NoneAssumption DEF Fetch, Enter, Ready, TypeOK, Generations
    <3> QED BY <1>p, <2>1, <2>2, <3>1 DEF PlaysItsHosts, ReadsLive, SavesFirst, AtRest, Rekeying
  <2>5. CASE Propagated(p)
    <3>1. pc[p] = "propagate" /\ pc'[p] = "compare" /\ keys' = keys
      BY <2>5 DEF Propagated, Enter, Ready, TypeOK
    <3> QED BY <1>p, <2>1, <2>2, <3>1 DEF PlaysItsHosts, ReadsLive, SavesFirst, AtRest, Rekeying
  <2>6. CASE Changed(p)
    <3>1. /\ pc[p] = "compare" /\ pc'[p] = "cancel" /\ keys' = keys /\ AllHostsUp(p)
      BY <1>0, <2>6 DEF Changed, GoTo, Ready, TypeOK
    <3> QED BY <1>p, <2>1, <2>2, <3>1
            DEF PlaysItsHosts, ReadsLive, SavesFirst, AtRest, Rekeying, AllHostsUp
  <2>7. CASE Cancel(p) \/ Begin(p)
    <3>1. /\ keys' = keys
          /\ \/ pc[p] = "cancel" /\ pc'[p] = "begin"
             \/ pc[p] = "begin" /\ pc'[p] = "submit"
      BY <2>7 DEF Cancel, Begin, GoTo, TypeOK
    <3> QED BY <1>p, <2>1, <2>2, <3>1 DEF PlaysItsHosts, ReadsLive, SavesFirst, AtRest, Rekeying
  <2>8. CASE Submit(p)
    <3>1. /\ pc[p] = "submit" /\ keys[p] = vgen
          /\ pc'[p] = "save" /\ bundle'[p] = lastGen + 1
          /\ keys'[p] = None /\ todo'[p] = playHosts[p]
      BY <2>8 DEF Submit, Enter, TypeOK
    <3>2. vgen # None /\ lastGen + 1 # None
      BY NoneAssumption DEF TypeOK, Generations
    <3> QED BY <1>p, <2>1, <2>2, <3>1, <3>2 DEF PlaysItsHosts, ReadsLive, SavesFirst, AtRest, Rekeying
  <2>9. CASE Saved(p)
    <3>1. /\ pc[p] = "save" /\ todo[p] = {} /\ pc'[p] = "candidate"
          /\ keys' = keys /\ bundle' = bundle
      BY <2>9 DEF Saved, Enter, Ready, TypeOK
    <3> QED BY <1>p, <2>1, <2>2, <3>1 DEF PlaysItsHosts, ReadsLive, SavesFirst, AtRest, Rekeying
  <2>10. CASE DecryptCandidate(p)
    <3>1. /\ pc[p] = "candidate" /\ pc'[p] = "verify" /\ keys'[p] = TheBundle(p)
          /\ TheBundle(p) \in seen[p] /\ bundle' = bundle
      BY <2>10, BundleWasRead DEF DecryptCandidate, GoTo, Ready, TypeOK
    <3> QED BY <1>p, <2>1, <2>2, <3>1 DEF PlaysItsHosts, ReadsLive, SavesFirst, AtRest, Rekeying
  <2> QED BY <2>3, <2>4, <2>5, <2>6, <2>7, <2>8, <2>9, <2>10
<1> QED BY <1>c, <1>0

\* The keys take effect that all hosts of the play have beside their live file.
LEMMA VerifyAlone ==
  ASSUME TypeOK, Alone, AloneInv, NEW p \in Plays, Verify(p)
  PROVE  AloneInv'
<1>p. PlaysItsHosts(p) /\ ReadsLive(p) /\ SavesFirst(p)
  BY DEF AloneInv
<1>1. /\ pc[p] = "verify" /\ pc'[p] = "make_live" /\ vgen' = keys[p]
      /\ committed' = committed \union {vgen'}
      /\ playHosts'[p] = playHosts[p] /\ seen'[p] = {} /\ todo'[p] = playHosts[p]
      /\ UNCHANGED <<live, candidate, keys, bundle>>
  BY DEF Verify, Enter, TypeOK, files
<1>2. PlaysItsHosts(p)' /\ ReadsLive(p)'
  BY <1>p, <1>1 DEF PlaysItsHosts, ReadsLive, AtRest, Rekeying
<1>3. \A h \in playHosts[p] : candidate[h] = vgen'
  BY <1>p, <1>1 DEF SavesFirst
<1>4. SavesFirst(p)'
  BY <1>1, <1>3 DEF SavesFirst
<1>5. NeverLockedOut'
  <2>1. PICK h \in playHosts[p] : candidate[h] = vgen'
    BY <1>p, <1>1, <1>3 DEF PlaysItsHosts, AtRest
  <2>2. h \in Hosts
    BY <2>1 DEF TypeOK
  <2> QED BY <1>1, <2>1, <2>2 DEF NeverLockedOut
<1>6. VerifiedBeforeLive' /\ (vgen \in committed)'
  BY <1>1 DEF AloneInv, VerifiedBeforeLive
<1> QED BY <1>2, <1>4, <1>5, <1>6 DEF Alone, AloneInv

\* Every step keeps it, the hosts', Vault's and the administrators' included.
LEMMA AloneStep ==
  ASSUME VerifyRekey = TRUE, Alone, RecoverableInv, AloneInv, [Next]_vars
  PROVE  AloneInv'
<1>t. TypeOK
  BY DEF RecoverableInv
<1>1. ASSUME NEW p \in Plays, PlayStep(p) PROVE AloneInv'
  <2>1. CASE Inconsistent(p) \/ Unchanged(p) \/ MadeLive(p) \/ Fail(p)
    BY <2>1, <1>t, EndsAlone DEF Inconsistent, Unchanged, MadeLive, Fail
  <2> QED BY <1>1, <1>t, <2>1, ReadingAlone, WritingAlone, BetweenTasksAlone, VerifyAlone
          DEF PlayStep
<1>2. CASE \/ \E h \in Hosts : HostDown(h) \/ HostUp(h)
           \/ VaultForgets \/ UNCHANGED vars
  <2>1. UNCHANGED <<vgen, committed, live, candidate, play>>
    BY <1>2 DEF HostDown, HostUp, VaultForgets, vars, vault, files
  <2> QED BY <2>1 DEF play, AloneInv, PlaysItsHosts, ReadsLive, SavesFirst, SomewhereLive,
          NeverLockedOut, VerifiedBeforeLive
<1>3. CASE Repair
  <2>1. /\ UNCHANGED <<vgen, committed, candidate, play>>
        /\ \A h \in Hosts : live'[h] = vgen
        /\ \A p \in Plays : pc[p] \in AtRest
        /\ \E h \in Hosts : TRUE
    BY <1>3 DEF Repair, vault, AtRest, Known
  <2>2. \A p \in Plays : PlaysItsHosts(p)' /\ ReadsLive(p)' /\ SavesFirst(p)'
    BY <2>1 DEF AloneInv, PlaysItsHosts, ReadsLive, SavesFirst, AtRest, Rekeying, play
  <2>3. NeverLockedOut' /\ VerifiedBeforeLive'
    BY <2>1 DEF AloneInv, NeverLockedOut, VerifiedBeforeLive
  <2> QED BY <2>1, <2>2, <2>3 DEF AloneInv
<1> QED BY <1>1, <1>2, <1>3 DEF Next

THEOREM AloneHolds ==
  ASSUME VerifyRekey = TRUE, Alone
  PROVE  Spec => []AloneInv
<1>1. Init => AloneInv
  BY AloneInit
<1>2. RecoverableInv /\ AloneInv /\ [Next]_vars => AloneInv'
  BY AloneStep
<1> QED BY <1>1, <1>2, InvariantHolds, PTL DEF Spec

\* One play at a time never needs the backups: the keys Vault takes are in a
\* live or a candidate file, whatever fails whenever.
THEOREM NeverNeedsBackups ==
  ASSUME VerifyRekey = TRUE, Alone
  PROVE  Spec => []NeverLockedOut
<1>1. AloneInv => NeverLockedOut
  BY DEF AloneInv
<1> QED BY <1>1, AloneHolds, PTL

\* One play at a time never puts keys into the live file before Vault has
\* verified them, so every role that reads it finds keys Vault takes or took.
THEOREM LiveIsVerified ==
  ASSUME VerifyRekey = TRUE, Alone
  PROVE  Spec => []VerifiedBeforeLive
<1>1. AloneInv => VerifiedBeforeLive
  BY DEF AloneInv
<1> QED BY <1>1, AloneHolds, PTL

\* With the check that all hosts are up, a rekeying that ends has put the keys
\* Vault takes on every host, for any hosts that came and went meanwhile.
THEOREM RekeyedHostsAgree ==
  ASSUME VerifyRekey = TRUE, SkipSanityCheck = FALSE, Alone
  PROVE  Spec => RekeyReachesAllHosts
<1>1. RecoverableInv /\ AloneInv /\ [Next]_vars
        => [\A p \in Plays : pc[p] \in {"save", "make_live"} /\ pc'[p] = "done"
                        => \A h \in Hosts : live[h] = vgen]_vars
  <2> SUFFICES ASSUME RecoverableInv, AloneInv, Next, NEW p \in Plays,
                      pc[p] \in {"save", "make_live"}, pc'[p] = "done"
               PROVE  \A h \in Hosts : live[h] = vgen
    OBVIOUS
  <2>t. TypeOK
    BY DEF RecoverableInv
  <2>1. PlayStep(p)
    <3>1. CASE \E q \in Plays : PlayStep(q)
      BY <3>1 DEF Alone
    <3>2. CASE \/ \E h \in Hosts : HostDown(h) \/ HostUp(h)
               \/ VaultForgets \/ Repair
      BY <3>2 DEF HostDown, HostUp, VaultForgets, Repair, play
    <3> QED BY <3>1, <3>2 DEF Next
  <2>2. MadeLive(p)
    BY <2>1, <2>t DEF PlayStep, TypeOK, StartPlay, ReadFile, WriteFile, Inconsistent, Decrypt,
       Fetch, Propagated, Unchanged, Changed, Cancel, Begin, Submit, Saved, DecryptCandidate,
       Verify, Fail, Enter, GoTo, End, Ready, ReadTasks
  <2> QED BY <2>2 DEF MadeLive, Ready, AloneInv, SavesFirst, PlaysItsHosts, Rekeying
<1> QED BY <1>1, InvariantHolds, AloneHolds, PTL DEF Spec, RekeyReachesAllHosts
==============================================================================
