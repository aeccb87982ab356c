# A TLA+ model of bbcrd.vault

`bbcrd.vault` is a collection of Ansible roles, modules, playbooks and small
utilities that administrators run, by hand and each from a control node of their
own, against one HashiCorp Vault cluster.  Nothing in it is a server: its state is
what it leaves in Vault and on the hosts, plus the variables of the plays that
happen to be running.  What can go wrong lies between the requests of a play: other
plays, other administrators, hosts that stop answering, and the play's own end.

This directory models those parts, checks them with TLC and proves the most
important properties with TLAPS.  Paths below are relative to the repository.

## The system and its models

| Part | State it keeps | Must hold | Module |
|---|---|---|---|
| Key submission, main flow (`roles/generic_unseal_key_submission_flow`, called by `unseal`, `rekey`, `generate_root`) | the operation in progress in Vault: nonce and keys given; `remaining`, loop indices | the output of an operation reaches the play that began it; the final key is the last one missing; a disturbed ceremony can be repeated | `KeySubmission`, promising `KeyCeremony` |
| Key submission, helpers (`roles/generic_additional_unseal_key_submission_flow`, `playbooks/supply_additional_keys.yml`) | the status fetched before a prompt; the keys decrypted; the order of the four operations offered keys | no helper completes an operation; keys go to the operation confirmed, one per run of the playbook, and are of the right set | `KeySubmission` (one use of the role), `HelperPlaybook` (the four of them, against a main playbook) |
| Unseal key files and rekeying (`decrypt_unseal_keys`, `propagate_unseal_keys`, `rekey`, `save_encrypted_unseal_keys`) | live and candidate bundle and backups on each host; the keys Vault takes | the keys Vault takes are never lost; live files hold verified keys; a rekeying reaches all hosts | `UnsealKeyRotation` |
| Unsealing and joining, removal, restarts (`unseal`, `remove_old_cluster_nodes`, `restart`) | Raft's peers, sealed and healthy servers, autopilot's report | no step loses the quorum; repeated runs end at the inventory | `ClusterMembership` |
| First initialisation (`init_first_node`) | data directories, first keys, the first root token | never two clusters, none without stored keys, no root token once in use | `InitFirstNode` |
| Root tokens (`generate_root`, its `revoke.yml`) | tokens in Vault, two facts in the play | what a play works with has a TTL and is its own; nothing else is revoked | `RootToken` |
| Modules that declare one object (`vault_auth_method`, `vault_secrets_engine`, `vault_audit`, `vault_policy`, `vault_entity`, `vault_namespace`, `vault_oidc_configure`) | objects in Vault | a success means: as declared, and a second run changes nothing; nothing is destroyed without need or lost in silence | `VaultObjects` |
| Modules that declare a set of roles (`vault_oidc_roles`, `vault_approles`, the roles of `vault_ssh_signer`) | roles in Vault | revocations come first; declared roles are never missing meanwhile | `RoleSet`, promising `DeclaredSet` |
| AppRole credentials (`issue_approle_credentials`, `vault_approle_secret`) | role IDs and secret IDs in Vault, a file per host | what is stored works; a dropped host is locked out for good | `AppRoleCredentials`, composed of a `RoleSet` and issuers |
| Identity (`vault_auth_method_entity_aliases`, `vault_group`, `vault_entity`) | entities, aliases, groups, tokens | users may do what is declared, no more on the way there | `Identity` |
| Disaster recovery (`utils/run_disaster_recovery_vault_server.py`) | a port, a server process, a directory | another's server is left alone; a script comes to its end and its own server with it | `DisasterRecovery` |
| Backups (`configure_backups`, `vault_backup.sh`) | zip files on a host | the newest are kept, whole, one of them with keys that open it | `VaultBackup` |
| Management playbook | the order of the roles, `always` sections | each in the module of what it is about | `HelperPlaybook`, `RootToken`, `InitFirstNode`, `UnsealKeyRotation` |
| Installation, configuration files, API polling, GnuPG, tokens on the control node | files | - | not modelled, see below |

Parts interact only through Vault's HTTP API and files on the hosts.  A play does
one task on all its hosts before the next task; requests of different plays
interleave freely, and a request of a module is one step that may fail with or
without its effect.

`<X>Proofs` modules hold the theorems about `<X>`, `MC<X>` its instance for TLC.
`AppRoleCredentialsProofs` begins with those about `RoleSet`; `ClusterMembershipProofs` ends
with those about `HelperPlaybook` (two sides of the main playbook), `DisasterRecoveryProofs`
with those about `VaultBackup`, and `VaultObjectsProofs` with those about `Identity`.  For
that the specifications of these three have names of their own (`PlaybookSpec`,
`BackupSpec`, `IdentitySpec`).

### Correspondence to the code

`KeySubmission`.  `Main*` actions are the tasks of the main flow in their order, `mpc`
naming the next one; `mleft` is `remaining`, `msent` and `mitem` are the loop indices.
`MainCancel` and `MainBegin` are the requests all callers make first; for unsealing they are
`MainChecksSeal`, which has nothing more to do for an unsealed server, and a `MainBegin` that
restarts the server and resets its progress.  `MainConfirm` ends `unseal.yml`.  `Helper*` actions are the tasks of the helpers' role; `hreq` is its
`required`.  `UsesNonce` is false for unsealing; `Verifying` is true for
`rekey/verify`, whose status request fails while nothing is to be verified.
`Coordinated` is the discipline the documentation asks of helpers: start when the main
play waits, one after the other.  `VaultForgets` is a change of the active node,
`StrangerBegins` another administrator's cancel and begin or, when unsealing, a
restarted server.  Without a nonce `nonce` is 1 while the server is sealed.

`HelperPlaybook`.  `at` is the operation Main's playbook is at; `hpc` and `hstep` are the
task of `supply_additional_keys.yml` a helper is at and the step of the role it includes.
A set of unseal keys is the nonce of the rekeying it comes from.  Main needs one
helper's key per operation, which stands for the last one that is not Main's.

`UnsealKeyRotation`.  `pc` names a play's task; `decrypt`, `fetch`, `compare` and
`candidate` are the four uses of `fetch.yml`, which reads one host at a time into
`seen`; `propagate`, `save` and `make_live` write one host at a time.  `kept` are the
backups of `backup: true`.  `Fail` may end a play anywhere.  `Repair` is the manual
resolution `fetch.yml` asks for.  A ceremony is its one final request here.

`ClusterMembership`.  A play goes through `unseal/tasks/main.yml` (`unseal`, `join`),
`remove_old_cluster_nodes/tasks/main.yml` (`report`, `assert`, `remove`) and
`restart/tasks/` (`enumerate`, `check`, `restart`, `unseal_one`).  `known` is the
registered autopilot state, which may be out of date as long as a play lasts but has
caught up when the next begins.  `outdated` stands for all that
`check_if_restart_required.yml` looks at.

`InitFirstNode`.  A host is *down* if its API does not answer; systemd and files can still
be reached, which is what the rescue section needs.  Hosts that become unreachable in
the middle of a play are left out.  A cluster is the number of its initialisation.
`Continue` is all the playbook does later that makes the cluster worth keeping.

`RootToken`.  `first`, `second` and `root` are the three variables of the role, `flag` its
`bbcrd_vault_root_token_generated`.  The submission of keys is one step.  `Expire` is
Vault's: a TTL ends at any time.

`VaultObjects`.  A run reads the object (`Read`), plans its requests from what it saw and
the arguments (`Plan`, one definition per module) and sends them one by one.
Dictionaries are functions on one key, with two values.

`RoleSet` is the loop the three modules share, one request a step.  `Covers` and
`Written` are parameters (`dict_issubset`, and what Vault does with a write), of which
the theorems assume only that a write covers what was written (`WriteAssumption`).
`AppRoleCredentials` extends it: `Configure` is any step of a `RoleSet`, with what Vault
does to role IDs and secrets on the side; `Issue(i)` are the tasks of
`issue_approle_credentials` and, inside them or by itself, `vault_approle_secret`.

`Identity`.  A play lists aliases, deletes those of users not mapped, maps the others to
entities, then sets each group, all by what it read at the start.  Users log in, with or
without an alias; entities may be deleted by operators.

`DisasterRecovery`.  `Launch`, `Poll`, `VaultInit`, `Reset`, `Unseal`, `WaitForCluster`,
`Restore`, `Use`, `Finish`, `Kill` and `RemoveData` are the script in its order; the exceptions
its loops swallow are the steps that go on.  Others may have the port.  Requests have no
timeout: one to a "mute" server, which takes requests and answers none, lasts (`Asks`) until
that server stops (`ConnectionLost`) or the script is interrupted (`Finish`), and either loop
goes on even then (`Fails`).  Any server may crash; only those of others may be mute.

`VaultBackup`.  The script's commands in their order, `Fail` its `set -e`, at any of them.
A zip's name is the local time; `doomed` is what the listing chose.  `Rekey` and
`MakeLive` are the two ends of a rekeying.

### Vault

Vault is external.  What is modelled of it is what the code relies on: one operation of a
kind at a time, a nonce that must match (except for unsealing), duplicate keys that
count once, a last key whose answer is the output; revocation of child tokens; a change
of Raft's configuration that takes effect when it is requested; secrets that go with
their role; merge patches.

## Runs

| Run | Question | Distinct states |
|---|---|---|
| `submission` | A helper holds all the keys an operation needs, and there are two disturbances: does the output still go to Main, is the final key the last, do helpers' keys go to Main's operation only, is `KeyCeremony` implemented, is every ceremony completed in the end? | 58 thousand |
| `unseal` | The same flow without nonces: does Main, who has enough keys, get to its end beside colleagues who submit theirs whenever they like, while two restarts, resets or interrupts make it begin again? | 740 thousand |
| `rotation` | Two rekeyings, any failure: do files and Vault stay together? | 49 thousand |
| `membership` | From every state of five servers, three of them kept, with a failure: does a step lose the quorum, what does a play leave behind, do further runs get to the inventory? | 1.4 million |
| `init` | Failing tasks, hosts that are down, a killed playbook, any limit: one cluster at most, saved or deleted, in use in the end? | 330 thousand |
| `root` | Two playbooks generating root tokens at once: do they work with their own, which expires? | 120 thousand |
| `helper` | Two helpers and two main playbooks in a row, one killed: which keys go where, and does Main get to its end? | 150 thousand |
| `objects` | Two executions of a task that overlap, one request failing, for all seven kinds | 340 thousand |
| `approles` | Roles configured and secrets issued while the inventory is edited and both fail | 460 thousand |
| `identity` | Plays before and after a change of users and groups, overlapping and repeated, with a failure or a deletion | 620 thousand |
| `recovery` | Two scripts and another server on one port, which may be mute, with crashes, interrupts and a killed script: is a server of others left alone, and does each script come to its end? | 600 thousand |
| `backup` | Five backups with failures, rekeyings and a clock set back | 700 thousand |

Bounds.  *submission*: three administrators and a threshold of three are the least at
which a helper can be one key short with another's keys in the operation; two
disturbances allow a crash during the recovery from the first; `MaxNonce` leaves room
for every restart they cause.  *unseal*: Main's three keys are two initial ones and the final
one; whether it has to wait depends on when colleagues give theirs and what gets reset.  Two
disturbances let one undo what was given before the other.  *rotation*: two hosts are the least that can
disagree, two rekeyings make a candidate of an earlier one stale; plays restart for ever.
Hosts are interchangeable (`SYMMETRY`; the run has no liveness property).  During
development two plays at a time were checked as well; for any number of them
`RecoverableInv` is proved.  *membership*: the least with a majority to keep, one of them
down, and old servers beside it.  *init*: three hosts, so that a limited play can leave
one uncounted beside one it counts; three initialisations are two that fail and one
that does not.  *root*: five tokens are the administrator's and two for each play.
*helper*: the playbook after a killed one finds an operation in progress.  *objects*:
two values of each field make every comparison go either way.  *approles*: one secret
beside the one there may be at first; a failure on each side; one edit drops a host or
adds one.  All role parameters are the same there: `RoleSet`'s own properties are proved
for all of them.  *identity*: one disturbance is a failed play, a deleted entity or a login
that generates one.  *recovery*: one poll before a script gives up; the scripts' servers take the
port from each other as they do from the third.  *backup*: two backups are kept of five, and keys change twice.

Deadlock is not checked: plays end, and the bounds stop the rest.

Fairness is stated where a property needs it: in `KeySubmission`, `ClusterMembership`,
`InitFirstNode`, `HelperPlaybook`, `AppRoleCredentials` and `DisasterRecovery`.  A task
that can be done is done (weak fairness of each play's next step): Ansible goes on by
itself, and an administrator who is asked answers.  A playbook that failed is run again,
which is how the documentation has failures resolved.  What comes from elsewhere is fair
only where something is responsible for it: hosts of the inventory are repaired,
autopilot reports, a process gets a port that is free.  Strong fairness appears three
times: of `HelperFetch`, since the main play may stop and start waiting while a colleague
is asked again and again; of a run of `init_first_node` on all hosts, which may find
servers down at times; and of a check of AppRole credentials that do not work, which
configuration may delay.  Disturbances, failures and crashes are never fair.  The other
modules have safety properties only: that their plays end is the fairness itself.

## Properties

A comment before each definition says exactly what it means and when it is meant to hold.

| Module | Property | In short |
|---|---|---|
| `KeySubmission` | `OutputRegistered` | whatever an operation's final key puts out is in the answer Main's play registers |
| | `FinalKeyIsLast` | when Main is about to submit the final key all others have been accepted |
| | `HelperKeysOnlyForMain` | helpers' keys are in the operation that was confirmed to them, or in none |
| | `Ceremony` | refinement: Main and its helpers, disturbed or not, do one `KeyCeremony` |
| | `EventuallyDone` | every ceremony with a nonce ends with the operation completed |
| | `EventuallyUnsealed` | without one, Main's play ends too, unless it was overtaken (see below) |
| `UnsealKeyRotation` | `RecoverableInv` | keys Vault takes, or that a play has read, are on some host, backups included |
| | `NeverLockedOut` | with one play at a time a live or candidate file has the keys Vault takes: no backup is needed |
| | `VerifiedBeforeLive` | a live file never holds keys Vault has not taken yet |
| | `RekeyReachesAllHosts` | a rekeying that ends well leaves the keys on all hosts |
| `ClusterMembership` | `KeepsQuorumIfOldUp` | no step loses the quorum as long as nothing fails |
| | `PlayEndsClean` | a play leaves the inventory's servers, unsealed and up to date |
| | `Converges` | repairs and repeated runs get to the inventory |
| `InitFirstNode` | `NoSecondCluster` | whatever hosts are down or left out when servers are counted, there are never two clusters |
| | `DeletedUnlessSavedIfUncut` | a playbook that is not killed leaves a cluster with stored keys, or none |
| | `NoRootTokenInUse`, `InUseKept` | a cluster in use has lost its first root token; it is never deleted |
| | `EventuallyInUse` | in the end there is one |
| `RootToken` | `CleanExit` | without failures a play leaves no token of its own |
| | `WorksWithToken` | the token a play works with is good until its TTL ends |
| | `LimitedWhileWorking` | the token without a TTL is gone before work begins |
| | `GivenKept` | the administrator's token is not revoked |
| `HelperPlaybook` | `OneOperation` | one run of the helpers' playbook gives keys to one operation |
| | `WrongOnlyIfOutdated` | keys of the wrong set are given only by helpers whose files changed since |
| | `Completes` | Main's playbook gets to its end |
| `VaultObjects` | `DeclaredWhenDone` | a success, undisturbed, means: as declared |
| | `SettledWhenDone` | and a second run changes nothing |
| | `NoSilentLoss` | a declared object that is gone is about to be made again, or a run has reported its failure |
| | `DestroysOnlyUnusable` | no run deletes what it saw could be kept |
| `AppRoleCredentials` | `Promise` | refinement: roles are managed as `DeclaredSet` has it, with issuers at work |
| | `DroppedLockedOut`, `NoResurrection` | a dropped host is locked out, and old credentials stay dead |
| | `NoNeedlessOutage` | a mere check does not break credentials that work |
| | `Recovers` | in the end every declared host has credentials that work |
| `Identity` | `AccessAsDeclared` | after a play users and tokens may do what is declared, no more, no less |
| | `LeaverGainsNothing` | no step on the way there gives somebody who leaves more |
| | `KeepsAccess` | nor takes from somebody who stays what is theirs before and after |
| `DisasterRecovery` | `SparesInitialised` | a server others initialised is neither unsealed nor loaded, nor its unsealing reset |
| | `Answers` | a script ends up serving, or ends with its own server gone, unless a mute server keeps the port |
| `VaultBackup` | `Restorable` | the newest backups are there, whole, and some backup has the keys that open it |

Every module also has a `TypeOK`.  It is proved for `KeySubmission`,
`UnsealKeyRotation`, `ClusterMembership`, `InitFirstNode`, `RootToken`, `RoleSet`,
`AppRoleCredentials`, `VaultObjects` and `DisasterRecovery`; for the others it documents the state, and was
checked with the same instances.  `RoleSet`'s own `DoneIsDeclared` and `RevokesFirst` are
proved.

## What does not hold

The conditions in the properties above are where the code, read closely, does less than
its documentation says.  Each was seen in a counterexample while modelling.

- *Two shares of Main's* (`generic_unseal_key_submission_flow/tasks/main.yml:77`).  The flow
  counts the missing keys again after Main's initial keys are in, then waits for item n until
  Vault's absolute progress exceeds n.  If Main holds more than one key and fewer than are
  required, the loop ends too early, the final key is submitted while others are missing
  and the play fails.  The role's README promises to "wait for others to submit all but
  the last unseal key".  `SharesFit` excludes it.
- *Unsealing by somebody else's key* (`generic_unseal_key_submission_flow/tasks/main.yml:74-77`).
  Unsealing has no nonce, and an unsealed server's progress is zero.  If a colleague's key,
  given towards an earlier attempt or late, or one of Main's initial keys completes the
  unsealing before Main's final one, Main's play polls for ever;
  `docs/manage_vault_cluster_playbook.md:277` says that it "will automatically continue".
  `EventuallyUnsealed` names the case (`Overtaken`); interrupting the play and running it
  again ends it.
- *A helper interrupted between two keys* (`generic_additional_unseal_key_submission_flow/tasks/main.yml:68`).
  A repeated run slices the helper's keys from the front, by the number still missing: it gives
  those again that Vault has counted, and may never get to the others.  The helpers of the
  run `unseal` have one key each.
- *Order of removals* (`remove_old_cluster_nodes/tasks/main.yml:74`).  Healthy old servers are
  removed before those that are down.  With peers a (kept), d (healthy) and c (down),
  removing d first leaves a and c, no quorum, and c can no longer be removed; the other
  order is harmless.  `docs/manage_vault_cluster_playbook.md` promises careful ordering.
- *Helpers and restarts* (`playbooks/supply_additional_keys.yml:126`).  The restart role
  unseals servers after the root token has been generated, while the helpers' playbook
  offers keys for unsealing after those for a root token: one run gives keys to both,
  although it is meant to go in reverse order to avoid that.  `OneOperation` leaves
  restarts out.
- *Helpers in parallel* may give the candidate keys of an earlier rekeying to a verification.
  The documentation forbids it; `WrongOnlyIfOutdated` has them take turns.
- *A root token without a TTL* (`generate_root/tasks/main.yml:64`).  A play that fails or is
  killed before the first token is revoked leaves it; `revoke.yml` knows only the second.
- *A killed first initialisation* (`init_first_node/tasks/main.yml:157`) runs no rescue section:
  it leaves a cluster whose keys nobody has, and later runs do nothing.
- *Two first initialisations at once*: one that counted before the other initialised is
  refused by Vault, and its rescue section deletes the other's cluster.
- *Auth methods never settle* (`plugins/modules/vault_auth_method.py:154`).  The configuration is
  compared with the mount's own fields, not with those under `config`: an auth method
  with one is tuned by every run.  `SettledWhenDone` leaves these out.
- *A policy without a document* (`plugins/modules/vault_policy.py:99`) is reported as present
  though there is none; the check for the argument can never fail.
- *Two runs that replace a mount* may delete one that the other has made:
  `DestroysOnlyUnusable` speaks of what each run saw.
- *Two issuers for one host* may leave a file whose secret the other has destroyed, until the
  next run; the run `approles` has one issuer.
- *A removed user's tokens* keep the access of their entity until they expire
  (`plugins/modules/vault_auth_method_entity_aliases.py:129`): only aliases are deleted.
- *Backups* (`roles/configure_backups/files/vault_backup.sh:88,96`).  Snapshot and keys file are
  taken one after the other and may not match while a rekeying is under way; names are
  of local time, so that in the hour that comes twice the newest may be deleted.
- *Disaster recovery* (`utils/run_disaster_recovery_vault_server.py:115-125`).  An uninitialised
  server of somebody else on the port is used, and keeps the snapshot; the exception
  that says the port is taken is swallowed by the loop it is raised in, and so is an
  interrupt that comes during one of its requests.  No request has a timeout (lines 114, 144,
  163, 180, 188, 202): a server that takes one and never answers blocks the script for as
  long as it has the port, which `Answers` excepts.  If the script's own server crashes
  between two requests, the next ones go to whichever gets the port: they reset its
  unsealing and count a wrong key, which `SparesInitialised` excepts.
- *A killed recovery script* runs no `finally` clause: its server goes on with the snapshot's
  data, and keeps the port.  `docs/disaster_recovery.md:137` says that "Pressing enter (or
  killing the script) will shut down the Vault instance"; that is so of an interrupt, not of
  a signal that ends Python or of a closed terminal.
  `Answers` excepts scripts that were killed (`Hangup`).

## Proofs

All theorems hold for any sets of hosts, plays, helpers, names, shares and thresholds, and
without the bounds of the runs.  The provers are Z3, Zenon and, for temporal steps, LS4.

`KeySubmissionProofs`.  `TypeCorrect` has no hypotheses.  `FinalKeyIsMains`,
`OutputIsRegistered`, `FinalKeyIsTheLast`, `HelpersStayShort` and `CeremonyImplemented`
assume an API with a nonce, `Coordinated` helpers and `SharesFit`.  `FinalKeyByMain` is
not inductive: a helper's request does no harm only because of what its play fetched
earlier.  `IInv` adds that: an operation is below its threshold (`BelowThreshold`); at
most one helper's play is active (`TurnTaking`); for a helper who fetched this
operation's nonce, keys given plus required when it fetched never exceed the threshold
plus what it has sent since (`ActiveBound`), so its slice ends one key short; and
before Main's play waits, its operation holds nothing but its own initial keys
(`OwnKeysFirst`), so that `FinalKeyIsLast` follows from the wait.
`HelperKeysAreForMain` needs neither `Coordinated` nor `SharesFit`, only the nonce and the
confirmation: a helper who has been asked holds a nonce of Main's.

`UnsealKeyRotationProofs`.  `InvariantHolds`, and `KeysAreRecoverable` with it, assume only
`bbcrd_vault_verify_rekey`, for any number of plays at once.  `Recoverable` is not
inductive by itself: verification makes new keys the ones Vault takes, and the invariant
has to know that the play read them from a host.  `RecoverableInv` says that all
generations plays have read are `Known`, in a file or a backup; lemma `WritesKeep` shows
that no write shrinks `Known`.  `NeverNeedsBackups`, `LiveIsVerified` and
`RekeyedHostsAgree` assume one play at a time as well (the last also the sanity check).
`AloneInv` follows that play from task to task: what it has read of the live files is
still in one (`ReadsLive`); until the new keys are verified the old ones are in a live
file, and by then every host of the play holds the new ones as its candidate, which is
all that it makes live (`SavesFirst`).  What earlier plays, failed or killed anywhere, left
in the files is arbitrary within that.

`ClusterMembershipProofs`.  `QuorumIsKept` assumes that neither assert is switched off.
The invariant, of states in which nothing has failed yet, is what relates the report to
the truth: reported peers are healthy but for the one being restarted (`ReportedHealthy`);
while peers are removed, what was registered still holds of those to be kept, and most
of them are healthy (`RegisteredHolds`, `Asserted`), so that removing one of the others
cannot tip the balance; from then on most peers are reported (`MostReported`), which no
later report changes, and a server is restarted only if there is one to spare without it
(`OneToSpare`).  Lemma `Outnumbers` reduces a majority to two sets of which one is larger,
and `MajorityStays` does the rest without arithmetic.  `EndsClean` has no hypotheses; `WInv`
says which hosts each stage still has to deal with.

The same module, of `HelperPlaybook`, if helpers take turns and come when a key is missing
(`InTurn`).  `RightKeysGiven` holds over any number of main playbooks: a verification that
has been shown is of the keys in the candidate file (`CandidateIsPending`), and while a
helper goes from looking for a verification to submitting to it, Main is `Held` at a stage that
only that helper gets it past, so that what was decrypted is still what is asked for.
`GivenToOne` is about two playbooks that move in opposite directions: `Forward` says that
what is in progress is what Main's first run is at, or has failed at, and `Backward` that a
helper who has given keys is among operations Main has left behind.

`AppRoleCredentialsProofs`, of `RoleSet`.  `IInv` says that whatever a run has dealt with is settled and stays so
while others work (`SettledStays`); `DoneMeansDeclared`, `RevocationFirst` and the
refinement `RolesImplementDeclaredSet` follow.

The same module, of `AppRoleCredentials`.  Lemma `Composed`: with issuers at work the configuration is a
`RoleSet`, so all of the above holds of it (`ConfigurationImplements`).
`DroppedAreLockedOut` is that and `SecretsEndWithRole`.  `DeadStayDead` rests on `AInv`:
no file, and no play, holds an ID or a secret that has yet to be made.  `OutagesAreMeant`
assumes one issuer per host: what the issuer looks up is what is still in the file, and it
goes on to destroy only once that has stopped working, which is for good (`CInv`).

`VaultObjectsProofs`, of `VaultObjects`, without hypotheses.  A run's plan of requests is computed from what it
read, while other runs change the object, so the invariant cannot say that a plan ends
at the declaration.  `OInv` says that the plan fits the declaration, and that its next
request may be sent whatever others have made of the object since (`Planned`); and that an
object not as declared has a run that has failed, is about to read it, or still has to
send a request that mends it (`Mended`).  Lemmas `AuthApt`, `SecretsApt`, `AuditApt` and `PlainApt` show this of
the plans of each kind of module, from every state that can be read.
`DeclaredAtLast`, `Settled`, `NothingLostSilently` and `OnlyUnusableDestroyed` follow.

The same module, of `Identity`, for any users, names, groups, declarations and plays at once.
All assume `Room`: whenever an alias may be made some id in `Ids` is free, as it is in the
run; `MaxId` bounds the run, not Vault.  The invariant `GInv` has two parts.  Whatever else is
at work, what a play has found is of the name it looked for or gone, since ids are given once
(`Called`), the aliases it is about to delete are of users it does not map, and it has found
every member of the group it writes (`PlaySound`).  Of an `undisturbed` play it says in
addition (`Certain`) that all at work have its declaration, that the aliases it has dealt with
are as declared (`AliasesSure`), that the groups it has dealt with are (`SetUp`), and that
what it has read of the present one is still so unless somebody has set it up meanwhile
(`GroupsSure`); deleted subgroups, which vanish from the groups above them, are excepted
throughout.  `MappedKeepAccess` and `LeaversGainNothing` are steps from it.
`EverybodyAsDeclared` also assumes that a declaration says of every group what it is or that
it is absent (`EveryGroup`): a group no task names keeps what it grants, and the code does
not look for such groups.

`InitFirstNodeProofs`.  `TokenGoneBeforeUse` rests on the path a key file takes: who
rekeys has revoked the token, who saves has rekeyed, files are of rekeyed clusters, and
only clusters that files open get into use.  For any number of playbooks at once.
`OneClusterOnly`, `DeletedUnlessSaved` and `UsedIsKept` assume that playbooks run one after
another and that the check for existing clusters is on.  A play then initialises only when
no host holds a cluster, and until it ends there is its cluster alone and nothing in it;
when it deletes, no host that it has not emptied can have joined (`OnlyItsOwn`).

`RootTokenProofs`.  What plays revoke is their own, no two plays have a token in common, and
no token is another's child: so `GivenStays` and `WorksUntilExpired`.  `WorksLimited` adds
that who gets to work has revoked the first token, and that numbers are not used twice.
For `ExitsClean`, while nothing has failed or been killed, the valid tokens made for a play
are at each step those that its facts name, and at the end only one that it knows to
revoke (`Accounted`).

`DisasterRecoveryProofs`.  `InitialisedAreSpared` for any number of scripts and of other
servers: a script with the keys of its own server gets to its next request with the port
still its own (`OwnKeepsPort`), since that server is killed on the way out at the earliest
(`KilledOnTheWayOut`), unless it has crashed.  Only requests wait for an answer, and those of
the loops can still be counted (`Asking`).

The same module, of `VaultBackup`, if the service does not run twice at a time.
`RecentAreKept`, for any number to keep: while the time is not set back names are in the
order of the making of zips (`Named`), so that a name with N newer ones is one of N zips ago
(lemma `DoomedAreOld`), and what was listed is still old when it is removed.
`AlwaysRestorable` adds `Frequent` and that more than one backup, or all, are kept (168 are by
default).  A zip whose keys do not match its snapshot can only be the first since the keys
changed (`OneMismatch`): the one before it matched, or the keys would not have changed, and
the next is not begun before the new keys are in the file (`Settled`).

Several theorems assume that plays run one at a time, helpers in turn, or one issuer per
host.  Without it their properties fail, as told above; the documentation asks for it, and
nothing in the code enforces it.

Only model-checked: liveness and fairness everywhere, which the provers do not reach;
everything about unsealing without a nonce; the type invariants of `Identity`,
`HelperPlaybook` and `VaultBackup`, beyond what the invariants above need.

## Not modelled

- Which administrators can decrypt which shares, invalid keys in a ceremony (only
  `HelperPlaybook` has them), TLS and authentication, the hook
  `bbcrd_vault_provide_additional_unseal_keys_tasks`.
- `bbcrd_vault_verify_rekey: false` is in `UnsealKeyRotation` but nothing is claimed of it:
  the new keys are then in force before any host stores them.
- The ephemeral GnuPG home and the PGP actions: which agent holds a smart card and what
  is computed is gpg's.
- The token helper and the lookups of tokens on the control node; `vault_auth.py` but for
  the login with an AppRole; the CA of `vault_ssh_signer` and the signing of users' keys.
- Installation, templates, configuration roles that use one module with fixed arguments,
  polling for the API: no state or order that a property could tell apart.
- Secret IDs that the caller of `vault_approle_secret` chooses (lines 172-178 of the module): no
  role of the collection passes any, and chosen twice one would live again, which
  `NoResurrection` denies.
- Vault's normalisation of values, of durations for instance: what the modules read back is what
  was written.  Where Vault answers in another form a module reports a change on every run.
- Dictionaries more than one level deep, texts and formats.
- The management playbook as one composition: its parts are related by the interfaces above
  (a ceremony is one step in the modules that use one, as `KeySubmission` shows).
