-------------------------- MODULE UnsealKeyRotation --------------------------
(***************************************************************************)
(* Where the encrypted unseal keys are, and which of them Vault takes,     *)
(* while main playbooks rekey: roles/decrypt_unseal_keys,                  *)
(* propagate_unseal_keys, rekey and save_encrypted_unseal_keys, in the     *)
(* order playbooks/manage_vault_cluster.yml runs them, for any number of   *)
(* plays at a time.                                                        *)
(*                                                                         *)
(* Keys are known by their generation.  A task on several hosts reaches    *)
(* them one at a time in any order.  The key ceremonies are those of       *)
(* KeySubmission; here each is its final request.                          *)
(***************************************************************************)
EXTENDS Naturals, FiniteSets

CONSTANTS
  Hosts,           \* the servers of the cluster
  Plays,           \* the control nodes main playbooks are run from
  None,            \* no file, no keys
  VerifyRekey,     \* bbcrd_vault_verify_rekey
  SkipSanityCheck, \* bbcrd_vault_skip_rekey_sanity_check
  MaxRekeys        \* bound: rekeyings ever begun

ASSUME NoneAssumption == None \notin Nat
ASSUME RotationFlags == {VerifyRekey, SkipSanityCheck} \subseteq BOOLEAN
ASSUME MaxRekeysAssumption == MaxRekeys \in Nat

VARIABLES
  \* Vault: the keys it takes, the last ones it made, and the rekeying in
  \* progress, which has a nonce and, once it is verifying, new keys.
  vgen, lastGen, lastNonce, rekey,
  committed,       \* history: every generation Vault has ever taken
  \* The hosts: those that answer, and the files of each.
  up, live, candidate, kept,
  \* The plays: the task each is at, the hosts it began with, the hosts its
  \* task has yet to reach, the bundles the task has read, and the variables
  \* bbcrd_vault_unseal_keys, the bundle to write, and the nonce to use.
  pc, playHosts, todo, seen, keys, bundle, pnonce

vault == <<vgen, lastGen, lastNonce, rekey, committed>>
files == <<live, candidate, kept>>
play == <<pc, playHosts, todo, seen, keys, bundle, pnonce>>
vars == <<vault, up, files, play>>

Generations == Nat
MaybeKeys == Generations \union {None}

ReadTasks == {"decrypt", "fetch", "compare", "candidate"}
WriteTasks == {"propagate", "save", "make_live"}
OtherTasks == {"cancel", "begin", "submit", "verify"}

TypeOK ==
  /\ vgen \in Generations /\ lastGen \in Generations /\ lastNonce \in Nat
  /\ rekey \in [verifying : BOOLEAN, nonce : Nat, new : MaybeKeys] \union {None}
  /\ committed \subseteq Generations
  /\ up \subseteq Hosts
  /\ live \in [Hosts -> MaybeKeys] /\ candidate \in [Hosts -> MaybeKeys]
  /\ kept \in [Hosts -> SUBSET Generations]
  /\ pc \in [Plays -> ReadTasks \union WriteTasks \union OtherTasks
                      \union {"idle", "done", "failed"}]
  /\ playHosts \in [Plays -> SUBSET Hosts] /\ todo \in [Plays -> SUBSET Hosts]
  /\ seen \in [Plays -> SUBSET Generations]
  /\ keys \in [Plays -> MaybeKeys] /\ bundle \in [Plays -> MaybeKeys]
  /\ pnonce \in [Plays -> Nat]

Init ==
  /\ vgen = 0 /\ lastGen = 0 /\ lastNonce = 0 /\ rekey = None
  /\ committed = {0}
  /\ up = Hosts
  /\ live \in [Hosts -> {0, None}] /\ \E h \in Hosts : live[h] = 0
  /\ candidate = [h \in Hosts |-> None]
  /\ kept = [h \in Hosts |-> {}]
  /\ pc = [p \in Plays |-> "idle"]
  /\ playHosts = [p \in Plays |-> {}] /\ todo = [p \in Plays |-> {}]
  /\ seen = [p \in Plays |-> {}]
  /\ keys = [p \in Plays |-> None] /\ bundle = [p \in Plays |-> None]
  /\ pnonce = [p \in Plays |-> 0]

(***************************************************************************)
(* Tasks that run on all the hosts of a play.                              *)
(***************************************************************************)
Enter(p, task) ==
  /\ pc' = [pc EXCEPT ![p] = task]
  /\ todo' = [todo EXCEPT ![p] = playHosts[p]]
  /\ seen' = [seen EXCEPT ![p] = {}]
  /\ UNCHANGED playHosts

GoTo(p, task) ==
  /\ pc' = [pc EXCEPT ![p] = task]
  /\ todo' = [todo EXCEPT ![p] = {}]
  /\ seen' = [seen EXCEPT ![p] = {}]
  /\ UNCHANGED playHosts

\* The play's variables go with it.
End(p, how) ==
  /\ pc' = [pc EXCEPT ![p] = how]
  /\ playHosts' = [playHosts EXCEPT ![p] = {}]
  /\ todo' = [todo EXCEPT ![p] = {}]
  /\ seen' = [seen EXCEPT ![p] = {}]
  /\ keys' = [keys EXCEPT ![p] = None]
  /\ bundle' = [bundle EXCEPT ![p] = None]
  /\ pnonce' = [pnonce EXCEPT ![p] = 0]
  /\ UNCHANGED <<vault, up, files>>

File(task) == IF task = "candidate" THEN candidate ELSE live

\* A host without the file is passed over.
ReadFile(p, h) ==
  /\ pc[p] \in ReadTasks
  /\ h \in todo[p] \intersect up
  /\ todo' = [todo EXCEPT ![p] = @ \ {h}]
  /\ seen' = [seen EXCEPT ![p] = (@ \union {File(pc[p])[h]}) \ {None}]
  /\ UNCHANGED <<vault, up, files, pc, playHosts, keys, bundle, pnonce>>

\* backup: true keeps what a write replaces.
Keep(h, old, new) ==
  kept' = IF old \in {None, new} THEN kept ELSE [kept EXCEPT ![h] = @ \union {old}]

WriteLive(h, new) ==
  /\ live' = [live EXCEPT ![h] = new]
  /\ Keep(h, live[h], new)
  /\ UNCHANGED candidate

WriteCandidate(h, new) ==
  /\ candidate' = [candidate EXCEPT ![h] = new]
  /\ Keep(h, candidate[h], new)
  /\ UNCHANGED live

\* What each writing task does on a host: propagation is force: false.
\* Mutant: new keys go straight to the live file.
WriteUnverified(task, h, b) ==
  \/ task = "propagate" /\ live[h] = None /\ WriteLive(h, b)
  \/ task = "propagate" /\ live[h] # None /\ UNCHANGED files
  \/ task = "save" /\ WriteLive(h, b)
  \/ task = "make_live" /\ UNCHANGED files
Write(task, h, b) ==
  \/ task = "propagate" /\ live[h] = None /\ WriteLive(h, b)
  \/ task = "propagate" /\ live[h] # None /\ UNCHANGED files
  \/ task = "save" /\ VerifyRekey /\ WriteCandidate(h, b)
  \/ task = "save" /\ ~VerifyRekey /\ WriteLive(h, b)
  \/ task = "make_live" /\ candidate[h] # None /\ WriteLive(h, candidate[h])

WriteFile(p, h) ==
  /\ pc[p] \in WriteTasks
  /\ h \in todo[p] \intersect up
  /\ Write(pc[p], h, bundle[p])
  /\ todo' = [todo EXCEPT ![p] = @ \ {h}]
  /\ UNCHANGED <<vault, up, pc, playHosts, seen, keys, bundle, pnonce>>

(***************************************************************************)
(* The course of a play.                                                   *)
(***************************************************************************)
StartPlay(p) ==
  /\ pc[p] \in {"idle", "done", "failed"} /\ up # {}
  /\ pc' = [pc EXCEPT ![p] = "decrypt"]
  /\ playHosts' = [playHosts EXCEPT ![p] = up]
  /\ todo' = [todo EXCEPT ![p] = up]
  /\ UNCHANGED <<vault, up, files, seen, keys, bundle, pnonce>>

Ready(p, task) == pc[p] = task /\ todo[p] = {}

\* fetch.yml wants a bundle, and the same one from every host that has one.
Consistent(p) == \E g \in seen[p] : seen[p] = {g}

Inconsistent(p) ==
  /\ \E task \in ReadTasks : Ready(p, task)
  /\ ~Consistent(p)
  /\ End(p, "failed")

TheBundle(p) == CHOOSE g \in seen[p] : TRUE

Decrypt(p) ==
  /\ Ready(p, "decrypt") /\ Consistent(p)
  /\ keys' = [keys EXCEPT ![p] = TheBundle(p)]
  /\ Enter(p, "fetch")
  /\ UNCHANGED <<vault, up, files, bundle, pnonce>>

Fetch(p) ==
  /\ Ready(p, "fetch") /\ Consistent(p)
  /\ bundle' = [bundle EXCEPT ![p] = TheBundle(p)]
  /\ Enter(p, "propagate")
  /\ UNCHANGED <<vault, up, files, keys, pnonce>>

Propagated(p) ==
  /\ Ready(p, "propagate")
  /\ Enter(p, "compare")
  /\ UNCHANGED <<vault, up, files, keys, bundle, pnonce>>

\* The holders are those of the bundle.
Unchanged(p) ==
  /\ Ready(p, "compare") /\ Consistent(p)
  /\ End(p, "done")

\* "All cluster members must be up or bbcrd_vault_skip_rekey_sanity_check set
\* to true."  Mutant: some member.
SomeHostsUp(p) == SkipSanityCheck \/ playHosts[p] # {}
AllHostsUp(p) == SkipSanityCheck \/ playHosts[p] = Hosts

\* They are not, or bbcrd_vault_force_rekey is set.
Changed(p) ==
  /\ Ready(p, "compare") /\ Consistent(p)
  /\ \/ ~AllHostsUp(p) /\ End(p, "failed")
     \/ /\ AllHostsUp(p) /\ GoTo(p, "cancel")
        /\ UNCHANGED <<vault, up, files, keys, bundle, pnonce>>

Cancel(p) ==
  /\ pc[p] = "cancel" /\ lastNonce < 2 * MaxRekeys
  /\ rekey' = None
  /\ GoTo(p, "begin")
  /\ UNCHANGED <<vgen, lastGen, lastNonce, committed, up, files, keys, bundle, pnonce>>

Begin(p) ==
  /\ pc[p] = "begin" /\ rekey = None
  /\ lastNonce' = lastNonce + 1
  /\ rekey' = [verifying |-> FALSE, nonce |-> lastNonce', new |-> None]
  /\ pnonce' = [pnonce EXCEPT ![p] = lastNonce']
  /\ GoTo(p, "submit")
  /\ UNCHANGED <<vgen, lastGen, committed, up, files, keys, bundle>>

\* Vault takes the keys of a play for the operation it began.
MyOperation(p, verifying) ==
  rekey # None /\ rekey.nonce = pnonce[p] /\ rekey.verifying = verifying

\* Mutant: a rekeying begun without require_verification.
SubmitUnverified(p) ==
  /\ pc[p] = "submit" /\ MyOperation(p, FALSE) /\ keys[p] = vgen
  /\ lastGen' = lastGen + 1
  /\ bundle' = [bundle EXCEPT ![p] = lastGen']
  /\ keys' = [keys EXCEPT ![p] = None]
  /\ vgen' = lastGen'
  /\ committed' = committed \union {lastGen'}
  /\ rekey' = None
  /\ Enter(p, "save")
  /\ UNCHANGED <<lastNonce, up, files, pnonce>>

\* The answer to the final unseal key holds the new keys.  They are in force
\* at once, or once they have been given back under a nonce of their own.
Submit(p) ==
  /\ pc[p] = "submit" /\ MyOperation(p, FALSE) /\ keys[p] = vgen
  /\ lastGen' = lastGen + 1
  /\ bundle' = [bundle EXCEPT ![p] = lastGen']
  /\ keys' = [keys EXCEPT ![p] = None]
  /\ IF VerifyRekey
     THEN /\ lastNonce' = lastNonce + 1
          /\ rekey' = [verifying |-> TRUE, nonce |-> lastNonce', new |-> lastGen']
          /\ pnonce' = [pnonce EXCEPT ![p] = lastNonce']
          /\ UNCHANGED <<vgen, committed>>
     ELSE /\ vgen' = lastGen'
          /\ committed' = committed \union {lastGen'}
          /\ rekey' = None
          /\ UNCHANGED <<lastNonce, pnonce>>
  /\ Enter(p, "save")
  /\ UNCHANGED <<up, files>>

Saved(p) ==
  /\ Ready(p, "save")
  /\ \/ ~VerifyRekey /\ End(p, "done")
     \/ /\ VerifyRekey /\ Enter(p, "candidate")
        /\ UNCHANGED <<vault, up, files, keys, bundle, pnonce>>

\* The keys to verify with are read back from the hosts.
DecryptCandidate(p) ==
  /\ Ready(p, "candidate") /\ Consistent(p)
  /\ keys' = [keys EXCEPT ![p] = TheBundle(p)]
  /\ GoTo(p, "verify")
  /\ UNCHANGED <<vault, up, files, bundle, pnonce>>

Verify(p) ==
  /\ pc[p] = "verify" /\ MyOperation(p, TRUE) /\ keys[p] = rekey.new
  /\ vgen' = rekey.new
  /\ committed' = committed \union {rekey.new}
  /\ rekey' = None
  /\ Enter(p, "make_live")
  /\ UNCHANGED <<lastGen, lastNonce, up, files, keys, bundle, pnonce>>

MadeLive(p) ==
  /\ Ready(p, "make_live")
  /\ End(p, "done")

\* A host stops answering (any_errors_fatal), Vault answers 400, no colleague
\* comes, somebody presses Ctrl-C, the control node crashes.
Fail(p) ==
  /\ pc[p] \notin {"idle", "done", "failed"}
  /\ End(p, "failed")

PlayStep(p) ==
  \/ StartPlay(p)
  \/ \E h \in Hosts : ReadFile(p, h) \/ WriteFile(p, h)
  \/ Inconsistent(p) \/ Decrypt(p) \/ Fetch(p) \/ Propagated(p)
  \/ Unchanged(p) \/ Changed(p) \/ Cancel(p) \/ Begin(p) \/ Submit(p)
  \/ Saved(p) \/ DecryptCandidate(p) \/ Verify(p) \/ MadeLive(p) \/ Fail(p)

(***************************************************************************)
(* Everything else.                                                        *)
(***************************************************************************)
\* Operations in progress are lost with the active node's leadership.
VaultForgets ==
  /\ rekey # None
  /\ rekey' = None
  /\ UNCHANGED <<vgen, lastGen, lastNonce, committed, up, files, play>>

HostDown(h) ==
  /\ h \in up
  /\ up' = up \ {h}
  /\ UNCHANGED <<vault, files, play>>

HostUp(h) ==
  /\ h \in Hosts \ up
  /\ up' = up \union {h}
  /\ UNCHANGED <<vault, files, play>>

Stored(h) == ({live[h], candidate[h]} \union kept[h]) \ {None}

Known == UNION {Stored(h) : h \in Hosts}

\* "You must manually resolve this conflict by placing matching files on all
\* servers": the administrators find the bundle Vault takes.
Repair ==
  /\ \A p \in Plays : pc[p] \in {"idle", "done", "failed"}
  /\ up = Hosts /\ vgen \in Known
  /\ live' = [h \in Hosts |-> vgen]
  /\ kept' = [h \in Hosts |-> kept[h] \union ({live[h]} \ {None})]
  /\ UNCHANGED <<vault, up, candidate, play>>

Next ==
  \/ \E p \in Plays : PlayStep(p)
  \/ \E h \in Hosts : HostDown(h) \/ HostUp(h)
  \/ VaultForgets \/ Repair

Spec == Init /\ [][Next]_vars

(***************************************************************************)
(* Properties.                                                             *)
(***************************************************************************)
\* Whatever fails whenever, in whichever play, the keys Vault takes are in a
\* file or a backup of one on some host: new keys take effect only after they
\* have been read back from the hosts.
Recoverable == vgen \in Known

\* One play at a time never even needs the backups.
NeverLockedOut == \E h \in Hosts : vgen \in {live[h], candidate[h]}

\* The file every other role reads never holds keys Vault has not taken yet.
VerifiedBeforeLive == \A h \in Hosts : live[h] \in committed \union {None}

\* A rekeying that ends leaves the keys Vault takes on all the hosts, those
\* that had none and those that were down earlier included.
RekeyReachesAllHosts ==
  [][\A p \in Plays : pc[p] \in {"save", "make_live"} /\ pc'[p] = "done"
                        => \A h \in Hosts : live[h] = vgen]_vars

(***************************************************************************)
(* The inductive invariant behind Recoverable.                             *)
(***************************************************************************)
KeysReadFromHosts == \A p \in Plays : keys[p] # None => keys[p] \in Known

SeenOnHosts == \A p \in Plays : seen[p] \subseteq Known

NewKeysMade == rekey # None /\ rekey.verifying => rekey.new # None

\* Every generation a play holds has been read from a file, and no file's
\* content is ever lost: so the keys Vault is given are on some host.
RecoverableInv ==
  /\ TypeOK /\ KeysReadFromHosts /\ SeenOnHosts /\ NewKeysMade /\ Recoverable
==============================================================================
