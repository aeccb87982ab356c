----------------------------- MODULE VaultObjects -----------------------------
(***************************************************************************)
(* The modules that declare one object of Vault's: vault_auth_method,      *)
(* vault_secrets_engine, vault_audit, vault_policy, vault_entity,          *)
(* vault_namespace and vault_oidc_configure.  Each reads the object once,  *)
(* works out from what it saw the requests that would make it as declared, *)
(* and sends them one by one.  Runs are the control nodes that execute the *)
(* same playbook, at the same time or again later.                         *)
(*                                                                         *)
(* A request is a step.  It is answered, or it fails without an effect, or *)
(* it takes effect and the answer is lost; vault_api_request ends the run  *)
(* in the last two cases.                                                  *)
(*                                                                         *)
(* Abstracted: an object is its type, its text (a description, a policy's  *)
(* document), its options and its settings (config, metadata, policies),   *)
(* the last two as dictionaries.  A kind that lacks a field leaves it at   *)
(* its default.                                                            *)
(***************************************************************************)
EXTENDS Naturals, Sequences

CONSTANTS
  Runs,        \* executions of the playbook that may overlap
  Kinds,       \* the modules under study
  Types, Texts, SettingKeys, Values,
  None,        \* Python's None: no object, or a field its kind does not have
  MaxFailures  \* bound: requests that fail

ASSUME NoneAssumption == None \notin Types \cup Texts \cup Values
ASSUME KindsAssumption ==
  Kinds \subseteq {"auth", "secrets", "audit", "policy", "entity",
                   "namespace", "oidc"}
ASSUME MaxFailuresAssumption == MaxFailures \in Nat

VARIABLES
  kind, want,   \* the task of the playbook: never change
  object,       \* what Vault has at the mount point or under the name
  pc, seen, plan, changed, failures

vars == <<kind, want, object, pc, seen, plan, changed, failures>>

(***************************************************************************)
(* Dictionaries, and the objects and arguments of each kind.               *)
(***************************************************************************)
Dicts == UNION {[D -> Values] : D \in SUBSET SettingKeys}
Empty == [k \in {} |-> None]
Covers(actual, wanted) ==
  \A k \in DOMAIN wanted : k \in DOMAIN actual /\ actual[k] = wanted[k]
Merge(old, new) ==
  [k \in DOMAIN old \cup DOMAIN new |->
     IF k \in DOMAIN new THEN new[k] ELSE old[k]]

HasType(k) == k \in {"auth", "secrets", "audit"}
HasText(k) == HasType(k) \/ k = "policy"
HasOptions(k) == k \in {"secrets", "audit"}
HasSettings(k) == k \notin {"audit", "policy"}
Objects(k) ==
  [type: IF HasType(k) THEN Types ELSE {None},
   text: IF HasText(k) THEN Texts ELSE {None},
   options: IF HasOptions(k) THEN Dicts ELSE {Empty},
   settings: IF HasSettings(k) THEN Dicts ELSE {Empty}]

ASSUME NoObjectAssumption == \A k \in Kinds : None \notin Objects(k)

States(k) == IF k = "oidc" THEN {"present", "updated"} ELSE {"present", "absent"}
Tasks(k) == [declared: Objects(k), state: States(k)]

(***************************************************************************)
(* What each module decides from the object it saw.                        *)
(***************************************************************************)
If(condition, requests) == IF condition THEN requests ELSE <<>>
Declares(w) == w.state # "absent"

\* The options are looked for among the fields of the mount itself, where
\* Vault does not have them: every option given is one that differs.
AuthDiffers(o, w) == o.text # w.declared.text \/ DOMAIN w.declared.settings # {}
\* Mutant: a mount with another description is rebuilt as well.
AuthRebuiltEagerly(o, w) ==
  o = None \/ o.type # w.declared.type \/ o.text # w.declared.text
AuthRebuilt(o, w) == o = None \/ o.type # w.declared.type
AuthPlan(o, w) ==
  IF ~Declares(w) THEN If(o # None, <<"delete">>)
  ELSE (IF AuthRebuilt(o, w)
          THEN If(o # None, <<"delete">>) \o <<"create">>
          ELSE If(AuthDiffers(o, w), <<"tune">>)) \o <<"accessor">>

SecretsUnusable(o, w) ==
  /\ o # None
  /\ \/ o.type # w.declared.type
     \/ ~Covers(o.options, w.declared.options)
SecretsDiffersInText(o, w) == o.text # w.declared.text
SecretsDiffers(o, w) ==
  \/ o.text # w.declared.text
  \/ ~Covers(o.settings, w.declared.settings)
SecretsPlan(o, w) ==
  LET gone == o = None \/ SecretsUnusable(o, w)
  IN  If(SecretsUnusable(o, w), <<"delete">>)
        \o IF Declares(w)
             THEN IF gone THEN <<"create">> ELSE If(SecretsDiffers(o, w), <<"tune">>)
             ELSE If(~gone, <<"delete">>)

AuditUnusable(o, w) ==
  /\ o # None
  /\ \/ o.type # w.declared.type
     \/ o.text # w.declared.text
     \/ ~Covers(o.options, w.declared.options)
\* Mutant: that the device has been deleted is forgotten.
AuditPlanForgets(o, w) ==
  If(AuditUnusable(o, w), <<"delete">>)
    \o IF Declares(w) THEN If(o = None, <<"create">>) ELSE If(o # None, <<"delete">>)
AuditPlan(o, w) ==
  LET gone == o = None \/ AuditUnusable(o, w)
  IN  If(AuditUnusable(o, w), <<"delete">>)
        \o IF Declares(w) THEN If(gone, <<"create">>) ELSE If(~gone, <<"delete">>)

PolicyPlan(o, w) ==
  LET rules == IF o = None THEN None ELSE o.text
  IN  IF Declares(w) THEN If(w.declared.text # rules, <<"write">>)
                     ELSE If(rules # None, <<"delete">>)

EntityPlan(o, w) ==
  IF Declares(w) THEN If(o = None \/ o.settings # w.declared.settings, <<"write">>)
                 ELSE If(o # None, <<"delete">>)

NamespacePlan(o, w) ==
  IF ~Declares(w) THEN If(o # None, <<"delete">>)
  ELSE IF o = None THEN <<"create">>
                   ELSE If(o.settings # w.declared.settings, <<"patch">>)

OidcPlan(o, w) == If(o = None \/ w.state = "updated", <<"write">>)

Plan(k, o, w) ==
  CASE k = "auth" -> AuthPlan(o, w)
    [] k = "secrets" -> SecretsPlan(o, w)
    [] k = "audit" -> AuditPlan(o, w)
    [] k = "policy" -> PolicyPlan(o, w)
    [] k = "entity" -> EntityPlan(o, w)
    [] k = "namespace" -> NamespacePlan(o, w)
    [] k = "oidc" -> OidcPlan(o, w)

(***************************************************************************)
(* What Vault makes of a request.                                          *)
(***************************************************************************)
\* vault_namespace sends null for the keys it saw and does not want.
Removed(saw, w) == DOMAIN saw.settings \ DOMAIN w.declared.settings
\* Mutant: the module does not send them.
PatchedOnly(o, saw, w) == [o EXCEPT !.settings = Merge(@, w.declared.settings)]
Patched(o, saw, w) ==
  LET merged == Merge(o.settings, w.declared.settings)
  IN  [o EXCEPT !.settings = [k \in DOMAIN merged \ Removed(saw, w) |-> merged[k]]]

Refused(request, o, w) ==
  \/ request = "create" /\ o # None
  \/ request \in {"tune", "patch", "accessor"} /\ o = None
Result(request, o, saw, w) ==
  CASE request = "delete" -> None
    [] request \in {"create", "write"} -> w.declared
    [] request = "tune" -> [o EXCEPT !.text = w.declared.text,
                                     !.settings = Merge(@, w.declared.settings)]
    [] request = "patch" -> Patched(o, saw, w)
    [] request = "accessor" -> o

(***************************************************************************)
(* The runs.                                                               *)
(***************************************************************************)
Init ==
  /\ kind \in Kinds
  /\ object \in Objects(kind) \cup {None}
  /\ want \in Tasks(kind)
  /\ pc = [r \in Runs |-> "idle"]
  /\ seen = [r \in Runs |-> None]
  /\ plan = [r \in Runs |-> <<>>]
  /\ changed = [r \in Runs |-> FALSE]
  /\ failures = 0

\* The playbook is run, for the first time or again.
Start(r) ==
  /\ pc[r] \in {"idle", "done", "failed"}
  /\ pc' = [pc EXCEPT ![r] = "read"]
  /\ seen' = [seen EXCEPT ![r] = None]
  /\ plan' = [plan EXCEPT ![r] = <<>>]
  /\ changed' = [changed EXCEPT ![r] = FALSE]
  /\ UNCHANGED <<kind, want, object, failures>>

Writes(requests) == \E i \in DOMAIN requests : requests[i] # "accessor"

\* The first request, and the decision taken on its answer.
Read(r) ==
  /\ pc[r] = "read"
  /\ pc' = [pc EXCEPT ![r] = "send"]
  /\ seen' = [seen EXCEPT ![r] = object]
  /\ plan' = [plan EXCEPT ![r] = Plan(kind, object, want)]
  /\ changed' = [changed EXCEPT ![r] = Writes(Plan(kind, object, want))]
  /\ UNCHANGED <<kind, want, object, failures>>

Sends(r) == pc[r] = "send" /\ plan[r] # <<>>
Effect(r) == object' = Result(Head(plan[r]), object, seen[r], want)

Request(r) ==
  /\ Sends(r)
  /\ ~Refused(Head(plan[r]), object, want)
  /\ Effect(r)
  /\ plan' = [plan EXCEPT ![r] = Tail(@)]
  /\ UNCHANGED <<kind, want, pc, seen, changed, failures>>

\* The module ends without a result, and with it the play on that host.
Fail(r) ==
  /\ pc' = [pc EXCEPT ![r] = "failed"]
  /\ seen' = [seen EXCEPT ![r] = None]
  /\ plan' = [plan EXCEPT ![r] = <<>>]
  /\ changed' = [changed EXCEPT ![r] = FALSE]
  /\ UNCHANGED <<kind, want>>

\* Vault answers with a status that is not expected.
RequestRefused(r) ==
  /\ Sends(r)
  /\ Refused(Head(plan[r]), object, want)
  /\ Fail(r)
  /\ UNCHANGED <<object, failures>>

\* No connection or a server in trouble, with the request done or not.
RequestFails(r) ==
  /\ pc[r] = "read" \/ Sends(r)
  /\ failures < MaxFailures
  /\ failures' = failures + 1
  /\ Fail(r)
  /\ \/ UNCHANGED object
     \/ Sends(r) /\ ~Refused(Head(plan[r]), object, want) /\ Effect(r)

Exit(r) ==
  /\ pc[r] = "send" /\ plan[r] = <<>>
  /\ pc' = [pc EXCEPT ![r] = "done"]
  /\ seen' = [seen EXCEPT ![r] = None]
  /\ UNCHANGED <<kind, want, object, plan, changed, failures>>

RunStep(r) == Read(r) \/ Request(r) \/ RequestRefused(r) \/ Exit(r)
Next == \E r \in Runs : Start(r) \/ RunStep(r) \/ RequestFails(r)

Spec == Init /\ [][Next]_vars

(***************************************************************************)
(* Properties.                                                             *)
(***************************************************************************)
Requests == {"delete", "create", "tune", "write", "patch", "accessor"}
TypeOK ==
  /\ kind \in Kinds /\ want \in Tasks(kind)
  /\ object \in Objects(kind) \cup {None}
  /\ pc \in [Runs -> {"idle", "read", "send", "done", "failed"}]
  /\ seen \in [Runs -> Objects(kind) \cup {None}]
  /\ plan \in [Runs -> Seq(Requests)]
  /\ changed \in [Runs -> BOOLEAN]
  /\ failures \in 0 .. MaxFailures

\* The object is what the task says: options and configuration are compared
\* where they are given, the metadata of entities and namespaces exactly.
Exact(k) == k \in {"entity", "namespace"}
Usable(o) ==
  /\ o # None
  /\ o.type = want.declared.type
  /\ Covers(o.options, want.declared.options)
AsDeclared ==
  IF ~Declares(want) THEN object = None
  ELSE /\ Usable(object)
       /\ object.text = want.declared.text
       /\ (kind = "oidc" /\ want.state # "updated") \/ Covers(object.settings, want.declared.settings)
       /\ Exact(kind) => object.settings = want.declared.settings

AllSucceeded ==
  /\ \A r \in Runs : pc[r] \in {"idle", "done"}
  /\ \E r \in Runs : pc[r] = "done"

\* When every run has ended well Vault is as declared, however their requests
\* interleaved and whatever had failed before.
DeclaredWhenDone == AllSucceeded => AsDeclared

\* Another run would then change nothing ("No change if left same"), but for an
\* authentication method with options: AuthDiffers.
Repeatable == kind # "auth" \/ want.declared.settings = Empty
SettledWhenDone ==
  /\ AllSucceeded /\ want.state # "updated" /\ Repeatable
  => ~Writes(Plan(kind, object, want))

\* A mount that is gone although it is declared is about to be created again,
\* or a run has reported its failure: it never disappears unnoticed.
Owes(r) == \E i \in DOMAIN plan[r] : plan[r][i] \in {"create", "write"}
NoSilentLoss ==
  object = None /\ Declares(want) =>
    \/ \E r \in Runs : pc[r] \in {"read", "failed"} \/ Owes(r)
    \/ \A r \in Runs : pc[r] = "idle"

\* Nothing is destroyed by a run that saw it could be kept, and with it the
\* secrets, accounts or hash keys inside it.
DestroysOnlyUnusable ==
  [][\A r \in Runs :
       object # None /\ object' = None /\ plan'[r] # plan[r] /\ Declares(want) =>
         \/ ~Usable(seen[r])
         \/ kind = "audit" /\ seen[r].text # want.declared.text]_vars
=============================================================================
