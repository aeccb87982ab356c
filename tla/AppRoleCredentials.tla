-------------------------- MODULE AppRoleCredentials --------------------------
(***************************************************************************)
(* Machines log into Vault with a role of their own (vault_approles, a     *)
(* RoleSet whose names are the hosts of the inventory group) and a secret  *)
(* in a file, which issue_approle_credentials checks and replaces by means *)
(* of vault_approle_secret.  Issuers are the executions of that role, or   *)
(* of the module alone, for one host at a time; they overlap with one      *)
(* another, with the configuration of the roles and with their failures.   *)
(*                                                                         *)
(* Role IDs and secrets are numbers, a new one each time; an accessor is   *)
(* identified with its secret, and a custom secret ID is one more number.  *)
(***************************************************************************)
EXTENDS RoleSet

CONSTANTS
  Issuers,
  Tasks,       \* "issue", "rotate", or a state of the module by itself
  MaxSecrets,  \* bound: secrets generated before only checks are run
  MaxFaults    \* bound: failures of issuers

ASSUME TasksAssumption ==
  Tasks \subseteq {"issue", "rotate", "singular", "added", "absent"}

VARIABLES
  ids,      \* the role ID of each host's role: counts its creations
  secrets,  \* the secrets Vault takes for each host
  lastSecret,
  file,     \* the credentials file on each host
  step, task, host,           \* per issuer, what it is doing
  roleId, found, doomed, new, \* per issuer, the facts it has registered
  faults

facts == <<roleId, found, doomed, new>>
issuing == <<step, task, host, facts>>
appVars == <<ids, secrets, lastSecret, file, issuing, faults, vars>>

Works(h) ==
  /\ file[h] # None /\ roles[h] # None
  /\ file[h].id = ids[h] /\ file[h].secret \in secrets[h]

AppInit ==
  /\ Init
  /\ ids = [h \in Names |-> 0]
  /\ secrets \in [Names -> {{}, {0}}]
  /\ \A h \in Names : roles[h] = None => secrets[h] = {}
  /\ lastSecret = 0
  /\ file \in [Names -> {None, [id |-> 0, secret |-> 0]}]
  /\ step = [i \in Issuers |-> "idle"]
  /\ task = [i \in Issuers |-> CHOOSE t \in Tasks : TRUE]
  /\ host \in [Issuers -> Names]
  /\ roleId = [i \in Issuers |-> 0]
  /\ found = [i \in Issuers |-> None]
  /\ doomed = [i \in Issuers |-> {}]
  /\ new = [i \in Issuers |-> 0]
  /\ faults = 0

\* configure_approle_auth: with a role Vault deletes its secrets, and a role
\* that is created again has another ID.
Configure ==
  /\ Next
  /\ ids' = [h \in Names |->
               IF roles[h] = None /\ roles'[h] # None THEN ids[h] + 1 ELSE ids[h]]
  /\ secrets' = [h \in Names |-> IF roles'[h] = None THEN {} ELSE secrets[h]]
  /\ UNCHANGED <<lastSecret, file, issuing, faults>>

(***************************************************************************)
(* An issuer.                                                              *)
(***************************************************************************)
Goes(i, from, to) == step[i] = from /\ step' = [step EXCEPT ![i] = to]
RoleExists(i) == roles[host[i]] # None
OfVault == <<ids, secrets, lastSecret>>
ViaFile(i) == task[i] \in {"issue", "rotate"}

BeginIssue(i) ==
  /\ step[i] \in {"idle", "done", "failed"}
  /\ \E t \in Tasks :
       /\ t = "issue" \/ lastSecret < MaxSecrets
       /\ task' = [task EXCEPT ![i] = t]
       /\ step' = [step EXCEPT ![i] = CASE t \in {"issue", "rotate"} -> "id"
                                        [] t = "added" -> "create"
                                        [] OTHER -> "list"]
  /\ roleId' = [roleId EXCEPT ![i] = 0]
  /\ UNCHANGED <<OfVault, file, host, found, doomed, new, faults, vars>>

ReadId(i) ==
  /\ RoleExists(i)
  /\ Goes(i, "id", IF task[i] = "rotate" THEN "list" ELSE "file")
  /\ roleId' = [roleId EXCEPT ![i] = ids[host[i]]]
  /\ UNCHANGED <<OfVault, file, task, host, found, doomed, new, faults, vars>>

ReadFile(i) ==
  /\ Goes(i, "file", "lookup")
  /\ found' = [found EXCEPT ![i] = file[host[i]]]
  /\ UNCHANGED <<OfVault, file, task, host, roleId, doomed, new, faults, vars>>

\* The accessor is looked up; 404 is an answer.
\* Mutants: the answer is looked for in the wrong place; it is not looked up.
UpToDateNever(i) == FALSE
UpToDateByFile(i) == found[i] # None /\ found[i].id = roleId[i]
UpToDate(i) ==
  /\ found[i] # None /\ found[i].id = roleId[i]
  /\ found[i].secret \in secrets[host[i]]

Lookup(i) ==
  /\ Goes(i, "lookup", IF UpToDate(i) THEN "done" ELSE "list")
  /\ found' = [found EXCEPT ![i] = None]
  /\ UNCHANGED <<OfVault, file, task, host, roleId, doomed, new, faults, vars>>

ListSecrets(i) ==
  /\ Goes(i, "list", "destroy")
  /\ doomed' = [doomed EXCEPT ![i] = secrets[host[i]]]
  /\ UNCHANGED <<OfVault, file, task, host, roleId, found, new, faults, vars>>

\* One accessor after the other; Vault refuses one it does not know.
DestroyOne(i, s) ==
  /\ s \in secrets[host[i]]
  /\ secrets' = [secrets EXCEPT ![host[i]] = @ \ {s}]
Destroy(i) ==
  /\ step[i] = "destroy"
  /\ \E s \in doomed[i] : /\ DestroyOne(i, s)
                          /\ doomed' = [doomed EXCEPT ![i] = @ \ {s}]
  /\ UNCHANGED <<ids, lastSecret, file, step, task, host, roleId, found, new,
                 faults, vars>>

Destroyed(i) ==
  /\ doomed[i] = {}
  /\ Goes(i, "destroy", IF task[i] = "absent" THEN "done" ELSE "create")
  /\ UNCHANGED <<OfVault, file, task, host, facts, faults, vars>>

\* Mutant: a custom secret ID, the same every time.
NewSecretCustom(i) ==
  /\ RoleExists(i)
  /\ secrets' = [secrets EXCEPT ![host[i]] = @ \cup {0}]
  /\ UNCHANGED lastSecret
NewSecret(i) ==
  /\ RoleExists(i)
  /\ lastSecret' = lastSecret + 1
  /\ secrets' = [secrets EXCEPT ![host[i]] = @ \cup {lastSecret'}]
Create(i) ==
  /\ NewSecret(i)
  /\ Goes(i, "create", IF ViaFile(i) THEN "store" ELSE "done")
  /\ new' = [new EXCEPT ![i] = IF ViaFile(i) THEN lastSecret' ELSE 0]
  /\ UNCHANGED <<ids, file, task, host, roleId, found, doomed, faults, vars>>

Credentials(i) == [id |-> roleId[i], secret |-> new[i]]

Store(i) ==
  /\ Goes(i, "store", "done")
  /\ file' = [file EXCEPT ![host[i]] = Credentials(i)]
  /\ new' = [new EXCEPT ![i] = 0]
  /\ UNCHANGED <<OfVault, task, host, roleId, found, doomed, faults, vars>>

Active(i) == step[i] \notin {"idle", "done", "failed"}
Ends(i) ==
  /\ Active(i)
  /\ step' = [step EXCEPT ![i] = "failed"]
  /\ roleId' = [roleId EXCEPT ![i] = 0]
  /\ found' = [found EXCEPT ![i] = None]
  /\ doomed' = [doomed EXCEPT ![i] = {}]
  /\ new' = [new EXCEPT ![i] = 0]
  /\ UNCHANGED <<ids, file, task, host, vars>>

\* Vault refuses: no such role, or an accessor it does not know.
Refused(i) ==
  /\ \/ step[i] \in {"id", "create"} /\ ~RoleExists(i)
     \/ step[i] = "destroy" /\ doomed[i] # {} /\ doomed[i] \cap secrets[host[i]] = {}
  /\ Ends(i)
  /\ UNCHANGED <<secrets, lastSecret, faults>>

\* The control node, the host or a request fails, its effect taken or not.
Fault(i) ==
  /\ faults < MaxFaults /\ faults' = faults + 1
  /\ Ends(i)
  /\ \/ UNCHANGED <<secrets, lastSecret>>
     \/ /\ step[i] = "destroy" /\ UNCHANGED lastSecret
        /\ \E s \in doomed[i] : DestroyOne(i, s)
     \/ step[i] = "create" /\ NewSecret(i)

Issue(i) ==
  \/ ReadId(i) \/ ReadFile(i) \/ Lookup(i) \/ ListSecrets(i) \/ Destroy(i)
  \/ Destroyed(i) \/ Create(i) \/ Store(i) \/ Refused(i)
AppNext ==
  \/ Configure
  \/ \E i \in Issuers : BeginIssue(i) \/ Issue(i) \/ Fault(i)

\* Both playbooks go on once begun.  The configuration is repeated until it
\* succeeds, and so is issuing, also after the credentials have broken.
AppFairness ==
  /\ \A r \in Runs : /\ WF_appVars(Configure /\ Work(r))
                     /\ WF_appVars(Configure /\ pc[r] # "done" /\ Start(r))
  /\ \A i \in Issuers : /\ WF_appVars(Issue(i))
                        /\ SF_appVars(/\ ~Works(host[i]) /\ BeginIssue(i)
                                      /\ task'[i] = "issue")
AppSafety == AppInit /\ [][AppNext]_appVars
AppSpec == AppSafety /\ AppFairness

(***************************************************************************)
(* Properties.                                                             *)
(***************************************************************************)
AppTypeOK ==
  /\ TypeOK
  /\ ids \in [Names -> Nat]
  /\ secrets \in [Names -> SUBSET (0 .. lastSecret)]
  /\ file \in [Names -> {None} \cup [id : Nat, secret : 0 .. lastSecret]]
  /\ step \in [Issuers -> {"idle", "id", "file", "lookup", "list", "destroy",
                           "create", "store", "done", "failed"}]
  /\ doomed \in [Issuers -> SUBSET (0 .. lastSecret)]

\* Credentials that work stop working only because the host is dropped or by a
\* task that is meant to replace or remove them: a mere check never rotates.
NoNeedlessOutage ==
  [][\A h \in Names :
       Works(h) /\ ~Works(h)' =>
         \/ roles'[h] = None
         \/ \E i \in Issuers : host[i] = h /\ Active(i) /\ task[i] # "issue"]_appVars

\* Credentials that have stopped working never work again, be it because the
\* host is declared again: it takes a new file.
NoResurrection ==
  [][\A h \in Names : ~Works(h) /\ Works(h)' => file'[h] # file[h]]_appVars

\* A host that is not declared is locked out once the configuration has
\* succeeded, whatever is being issued to it.
DroppedLockedOut ==
  \A r \in Runs, h \in Names :
    pc[r] = "done" /\ h \notin DOMAIN declared => ~Works(h) /\ secrets[h] = {}

\* Failures end: every declared host has credentials that work, for ever.
Recovers == <>[](\A i \in Issuers : host[i] \in DOMAIN declared => Works(host[i]))
===============================================================================
