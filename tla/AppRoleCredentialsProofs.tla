------------------------ MODULE AppRoleCredentialsProofs ------------------------
(***************************************************************************)
(* The roles machines log in with, for any names, parameters and           *)
(* executions of the configuration: what RoleSet promises by itself; then  *)
(* that it guarantees this with any number of issuers at work, and what    *)
(* the credentials have of it.                                             *)
(***************************************************************************)
EXTENDS AppRoleCredentials, TLAPS

(***************************************************************************)
(* RoleSet.                                                                *)
(***************************************************************************)
USE DEF bounds, run

\* No step but an edit undoes what is as declared, whoever takes it.
LEMMA SettledStays ==
  ASSUME TypeOK, NEW n \in Names, Settled(n),
         NEW r \in Runs, AtWork(r), InOrder(r),
         Start(r) \/ Work(r) \/ Fail(r)
  PROVE  Settled(n)' /\ declared' = declared
<1> USE DEF TypeOK, Settled
<1> DEFINE m == current[r]
<1>1. CASE UNCHANGED <<declared, roles>>
  BY <1>1
<1>2. CASE UNCHANGED declared /\ Erased(r) /\ pc[r] = "delete"
  BY <1>2 DEF Erased, AtWork
<1>3. CASE UNCHANGED declared /\ pc[r] = "write" /\ Overwrite(current[r])
  <2>1. m \in DOMAIN declared
    BY <1>3 DEF AtWork, InOrder
  <2>2. declared[m] \in Params /\ m \in Names /\ roles[m] \in Params \cup {None}
    BY <2>1 DEF DS!Sets
  <2>3. Written(declared[m], roles[m]) \in Params
        /\ Covers(declared[m], Written(declared[m], roles[m]))
    BY <2>2, WriteAssumption
  <2>4. roles' = [roles EXCEPT ![m] = Written(declared[m], roles[m])]
    BY <1>3 DEF Overwrite
  <2>5. CASE n = m
    BY <2>1, <2>2, <2>3, <2>4, <2>5, <1>3, NoneAssumption
  <2>6. CASE n # m
    BY <2>2, <2>4, <2>6, <1>3
  <2> QED BY <2>5, <2>6
<1>4. Delete(r) => Erased(r) /\ pc[r] = "delete" /\ UNCHANGED declared
  BY DEF Delete, Erased
<1> QED BY <1>1, <1>2, <1>3, <1>4 DEF Start, Work, List, Look, Write, Exit, Fail

(***************************************************************************)
(* The inductive invariant.                                                *)
(***************************************************************************)
LEMMA InitIInv == Init => IInv
BY NoneAssumption DEF Init, IInv, TypeOK, DS!Init, AtRest, AtWork, InOrder

\* The parts of the invariant that speak of the run that takes the step.
LEMMA OwnStep ==
  ASSUME IInv, NEW r \in Runs, Start(r) \/ Work(r) \/ Fail(r)
  PROVE  TypeOK' /\ AtRest(r)' /\ AtWork(r)' /\ InOrder(r)'
<1> USE NoneAssumption DEF IInv, TypeOK, AtRest, AtWork, InOrder
<1>0. \A n \in Names : Settled(n) => Settled(n)' /\ declared' = declared
  BY SettledStays
<1>1. CASE Start(r)
  BY <1>0, <1>1 DEF Start, Idle, Settled
<1>2. CASE List(r)
  BY <1>2 DEF List, Existing, Settled, DS!Sets
<1>3. CASE Delete(r)
  <2>1. PICK m \in extra[r] : /\ roles' = [roles EXCEPT ![m] = None]
                              /\ extra' = [extra EXCEPT ![r] = @ \ {m}]
    BY <1>3 DEF Delete
  <2>2. m \in Names /\ m \notin DOMAIN declared
    BY <1>3 DEF Delete
  <2>3. Settled(m)'
    BY <2>1, <2>2, <1>3 DEF Delete, Settled
  <2> QED BY <1>0, <1>3, <2>1, <2>2, <2>3 DEF Delete
<1>4. CASE Look(r)
  <2>1. PICK m \in todo[r] :
          IF Lacks(m)
            THEN /\ pc' = [pc EXCEPT ![r] = "write"]
                 /\ current' = [current EXCEPT ![r] = m]
                 /\ UNCHANGED todo
            ELSE /\ pc' = [pc EXCEPT ![r] = "look"]
                 /\ todo' = [todo EXCEPT ![r] = @ \ {m}]
                 /\ UNCHANGED current
    BY <1>4 DEF Look
  <2>2. m \in Names /\ m \in DOMAIN declared /\ extra[r] = {}
    BY <1>4 DEF Look, MayLook
  <2>3. CASE Lacks(m)
    BY <1>0, <1>4, <2>1, <2>2, <2>3 DEF Look, MayLook
  <2>4. CASE ~Lacks(m)
    <3>1. Settled(m)
      BY <2>2, <2>4 DEF Lacks, Settled
    <3> QED BY <1>0, <1>4, <2>1, <2>2, <2>4, <3>1 DEF Look, MayLook
  <2> QED BY <2>3, <2>4
<1>5. CASE Write(r)
  <2>0. PICK m \in todo[r] : m = current[r]
    BY <1>5 DEF Write
  <2>1. m \in Names /\ m \in DOMAIN declared /\ extra[r] = {}
    BY <1>5 DEF Write
  <2>2. Written(declared[m], roles[m]) \in Params
        /\ Covers(declared[m], Written(declared[m], roles[m]))
    BY <2>1, WriteAssumption DEF DS!Sets
  <2>3. roles' = [roles EXCEPT ![m] = Written(declared[m], roles[m])]
    BY <2>0, <1>5 DEF Write, Overwrite
  <2>4. Settled(m)'
    BY <2>1, <2>2, <2>3, <1>5 DEF Write, Settled
  <2>5. /\ pc' = [pc EXCEPT ![r] = "look"] /\ todo' = [todo EXCEPT ![r] = @ \ {m}]
        /\ current' = [current EXCEPT ![r] = None]
        /\ UNCHANGED <<declared, extra, failures, edits>>
    BY <2>0, <1>5 DEF Write
  <2>6. TypeOK'
    BY <2>1, <2>2, <2>3, <2>5
  <2>7. \A n \in Names : n \in todo'[r] \/ n \in extra'[r] \/ Settled(n)'
    <3>1. pc[r] = "write"
      BY <1>5 DEF Write
    <3>2. \A n \in Names : n \in todo[r] \/ n \in extra[r] \/ Settled(n)
      BY <3>1
    <3> QED BY <1>0, <2>4, <2>5, <3>2
  <2>8. pc'[r] = "look" /\ todo'[r] \subseteq DOMAIN declared' /\ extra'[r] = {}
    BY <2>1, <2>5, <1>5 DEF Write
  <2> QED BY <2>6, <2>7, <2>8
<1>6. CASE Exit(r)
  BY <1>0, <1>6 DEF Exit, MayLook
<1>7. CASE Fail(r)
  <2>1. roles' \in [Names -> Params \cup {None}]
    <3>1. CASE pc[r] = "delete" /\ Erased(r)
      BY <3>1 DEF Erased
    <3>2. CASE pc[r] = "write" /\ Overwrite(current[r])
      BY <3>2, WriteAssumption DEF Overwrite, DS!Sets
    <3> QED BY <1>7, <3>1, <3>2 DEF Fail
  <2> QED BY <1>7, <2>1 DEF Fail
<1> QED BY <1>1, <1>2, <1>3, <1>4, <1>5, <1>6, <1>7 DEF Work

\* A run only touches its own variables, and what another one has dealt with
\* stays settled.
LEMMA OthersStep ==
  ASSUME IInv, NEW r \in Runs, NEW s \in Runs, s # r, Start(r) \/ Work(r) \/ Fail(r)
  PROVE  AtRest(s)' /\ AtWork(s)' /\ InOrder(s)'
<1>1. \A n \in Names : Settled(n) => Settled(n)'
  BY SettledStays DEF IInv
<1>2. declared' = declared /\ pc'[s] = pc[s] /\ todo'[s] = todo[s]
      /\ extra'[s] = extra[s] /\ current'[s] = current[s]
  BY DEF IInv, TypeOK, Start, Work, List, Delete, Look, Write, Exit, Fail
<1> QED BY <1>1, <1>2 DEF IInv, AtRest, AtWork, InOrder

LEMMA EditStep == IInv /\ Redeclare => IInv'
BY DEF IInv, TypeOK, Redeclare, Idle, AtRest, AtWork, InOrder

LEMMA NextIInv == IInv /\ [Next]_vars => IInv'
<1> SUFFICES ASSUME IInv, [Next]_vars PROVE IInv'
  OBVIOUS
<1>1. CASE UNCHANGED vars
  BY <1>1 DEF vars, IInv, TypeOK, AtRest, AtWork, InOrder, Settled
<1>2. CASE Redeclare
  BY <1>2, EditStep
<1>3. ASSUME NEW r \in Runs, Start(r) \/ Work(r) \/ Fail(r) PROVE IInv'
  <2>1. TypeOK' /\ AtRest(r)' /\ AtWork(r)' /\ InOrder(r)'
    BY <1>3, OwnStep
  <2>2. \A s \in Runs : s # r => AtRest(s)' /\ AtWork(s)' /\ InOrder(s)'
    BY <1>3, OthersStep
  <2> QED BY <2>1, <2>2 DEF IInv
<1> QED BY <1>1, <1>2, <1>3 DEF Next

LEMMA Inductive == Spec => []IInv
BY InitIInv, NextIInv, PTL DEF Spec

(***************************************************************************)
(* What follows from it.                                                   *)
(***************************************************************************)
\* The types of the variables, for any runs, names and parameters.
THEOREM TypeCorrect == Spec => []TypeOK
BY Inductive, PTL DEF IInv

\* The inductive invariant holds of every behaviour.
THEOREM IInvHolds == Spec => []IInv
BY Inductive

\* A successful run has made the roles as declared, and so they stay until the
\* declaration is edited, whatever other runs do: vault_oidc_roles, vault_approles
\* and the roles of vault_ssh_signer.
THEOREM DoneMeansDeclared == Spec => []DoneIsDeclared
<1>1. IInv => DoneIsDeclared
  BY DEF IInv, DoneIsDeclared, AtWork, InOrder, Settled, DS!AsDeclared
<1> QED BY <1>1, Inductive, PTL

\* A role is written only once every role that is not declared is gone.
THEOREM RevocationFirst == Spec => RevokesFirst
<1>1. IInv /\ [Next]_vars =>
        [\A n \in DOMAIN declared :
           roles'[n] # roles[n] => \A m \in Names \ DOMAIN declared : roles[m] = None]_vars
  <2> SUFFICES ASSUME IInv, Next, NEW n \in DOMAIN declared, roles'[n] # roles[n],
                      NEW m \in Names \ DOMAIN declared
               PROVE  roles[m] = None
    OBVIOUS
  <2> USE DEF IInv, TypeOK
  <2>0. n \in Names
    BY DEF DS!Sets
  <2>1. PICK r \in Runs : Start(r) \/ Work(r) \/ Fail(r)
    BY <2>0 DEF Next, Redeclare
  <2>2. AtWork(r) /\ InOrder(r)
    OBVIOUS
  <2>3. pc[r] = "write"
    <3>1. ASSUME Erased(r), pc[r] = "delete" PROVE FALSE
      BY <2>0, <2>2, <3>1 DEF Erased, AtWork
    <3>2. Delete(r) => Erased(r) /\ pc[r] = "delete"
      BY DEF Delete, Erased
    <3> QED BY <2>0, <2>1, <3>1, <3>2 DEF Start, Work, List, Look, Write, Exit, Fail
  <2> QED BY <2>2, <2>3 DEF AtWork, InOrder, Settled
<1> QED BY <1>1, Inductive, PTL DEF Spec, RevokesFirst

\* Every step of any number of runs is a step of DeclaredSet or a stutter: no
\* declared role is missing for a while, no undeclared one is ever written.
THEOREM RolesImplementDeclaredSet == Spec => Promise
<1>1. Init => DS!Init
  BY DEF Init
<1>2. IInv /\ [Next]_vars => [DS!Next]_(DS!vars)
  <2> SUFFICES ASSUME IInv, Next PROVE DS!Next \/ UNCHANGED <<declared, roles>>
    BY DEF vars, DS!vars
  <2> USE DEF IInv, TypeOK
  <2>1. CASE Redeclare
    BY <2>1 DEF Redeclare, DS!Next, DS!Redeclare
  <2>2. ASSUME NEW r \in Runs, Start(r) \/ Work(r) \/ Fail(r)
        PROVE  DS!Next \/ UNCHANGED <<declared, roles>>
    <3>1. AtWork(r) /\ InOrder(r)
      OBVIOUS
    <3>2. ASSUME Erased(r), pc[r] = "delete", UNCHANGED declared PROVE DS!Next
      <4>1. PICK n \in extra[r] : roles' = [roles EXCEPT ![n] = None]
        BY <3>2 DEF Erased
      <4>2. n \in Names /\ n \notin DOMAIN declared
        BY <3>1, <3>2 DEF AtWork
      <4> QED BY <3>2, <4>1, <4>2 DEF DS!Next, DS!Disappear
    <3>3. ASSUME Overwrite(current[r]), pc[r] = "write", UNCHANGED declared PROVE DS!Next
      <4> DEFINE n == current[r]
      <4>1. n \in Names /\ n \in DOMAIN declared
        BY <3>1, <3>3 DEF AtWork, InOrder
      <4>2. Written(declared[n], roles[n]) \in Params
            /\ Covers(declared[n], Written(declared[n], roles[n]))
        BY <4>1, WriteAssumption DEF DS!Sets
      <4>3. DS!BecomeAsDeclared(n)
        BY <3>3, <4>1, <4>2 DEF DS!BecomeAsDeclared, Overwrite
      <4> QED BY <4>1, <4>3 DEF DS!Next
    <3>4. Delete(r) => Erased(r) /\ pc[r] = "delete" /\ UNCHANGED declared
      BY DEF Delete, Erased
    <3> QED BY <2>2, <3>2, <3>3, <3>4 DEF Start, Work, List, Look, Write, Exit, Fail
  <2> QED BY <2>1, <2>2 DEF Next
<1> QED BY <1>1, <1>2, Inductive, PTL DEF Spec, Promise, DS!Spec

(***************************************************************************)
(* The issuers.                                                            *)
(***************************************************************************)
USE DEF facts, issuing, OfVault

\* Issuers leave the roles alone.
LEMMA IssuersKeepRoles ==
  ASSUME NEW i \in Issuers, BeginIssue(i) \/ Issue(i) \/ Fault(i)
  PROVE  UNCHANGED vars /\ UNCHANGED <<ids, host>>
BY DEF BeginIssue, Issue, Fault, ReadId, ReadFile, Lookup, ListSecrets, Destroy,
       Destroyed, Create, Store, Refused, Ends

LEMMA Composed == AppSpec => Spec
<1>1. AppInit => Init
  BY DEF AppInit
<1>2. [AppNext]_appVars => [Next]_vars
  <2>1. Configure => Next
    BY DEF Configure
  <2>2. UNCHANGED appVars => UNCHANGED vars
    BY DEF appVars
  <2> QED BY <2>1, <2>2, IssuersKeepRoles DEF AppNext
<1> QED BY <1>1, <1>2, PTL DEF AppSpec, AppSafety, Spec

(***************************************************************************)
(* The inductive invariant: nobody holds the ID of a role that is yet to   *)
(* be created or a secret that is yet to be generated, and secrets end     *)
(* with their role.                                                        *)
(***************************************************************************)
Numbers ==
  /\ ids \in [Names -> Nat] /\ lastSecret \in Nat
  /\ host \in [Issuers -> Names]
  /\ roleId \in [Issuers -> Nat] /\ new \in [Issuers -> 0 .. lastSecret]
  /\ secrets \in [Names -> SUBSET (0 .. lastSecret)]

IdsOfThePast == \A i \in Issuers : roleId[i] <= ids[host[i]]

FilesOfThePast ==
  \A h \in Names : file[h] # None =>
    /\ file[h].id \in Nat /\ file[h].id <= ids[h]
    /\ file[h].secret \in 0 .. lastSecret

SecretsEndWithRole == \A h \in Names : roles[h] = None => secrets[h] = {}

AInv ==
  /\ Numbers /\ IdsOfThePast /\ SecretsEndWithRole
  /\ file \in [Names -> {None} \cup [id : Nat, secret : Nat]] /\ FilesOfThePast

LEMMA AInvInit == AppInit => AInv
<1> SUFFICES ASSUME AppInit PROVE AInv
  OBVIOUS
<1> USE DEF AppInit
<1>1. Numbers /\ IdsOfThePast /\ SecretsEndWithRole
  BY DEF Numbers, IdsOfThePast, SecretsEndWithRole
<1>2. file \in [Names -> {None} \cup [id : Nat, secret : Nat]]
  OBVIOUS
<1>3. FilesOfThePast
  BY DEF FilesOfThePast
<1> QED BY <1>1, <1>2, <1>3 DEF AInv

LEMMA AInvConfigure == AInv /\ TypeOK /\ Configure => AInv'
<1> SUFFICES ASSUME AInv, TypeOK, Configure PROVE AInv'
  OBVIOUS
<1> USE DEF AInv, Configure
<1>1. ids' \in [Names -> Nat] /\ \A h \in Names : ids[h] <= ids'[h]
  BY DEF Numbers
<1>2. secrets' \in [Names -> SUBSET (0 .. lastSecret)]
  BY DEF Numbers
<1>3. Numbers'
  BY <1>1, <1>2 DEF Numbers
<1>4. IdsOfThePast'
  BY <1>1 DEF Numbers, IdsOfThePast
<1>5. SecretsEndWithRole'
  BY DEF SecretsEndWithRole
<1>6. FilesOfThePast'
  BY <1>1 DEF Numbers, FilesOfThePast
<1> QED BY <1>3, <1>4, <1>5, <1>6

\* What an issuer does to the secrets of its host.
Generated(i) == NewSecret(i)
Reduced ==
  /\ lastSecret' = lastSecret
  /\ \/ secrets' = secrets
     \/ \E h \in Names : \E s \in secrets[h] : secrets' = [secrets EXCEPT ![h] = @ \ {s}]

LEMMA IssuerSteps ==
  ASSUME AInv, NEW i \in Issuers, BeginIssue(i) \/ Issue(i) \/ Fault(i)
  PROVE  /\ UNCHANGED <<ids, host, roles>>
         /\ Generated(i) \/ Reduced
         /\ \/ file' = file
            \/ file' = [file EXCEPT ![host[i]] = [id |-> roleId[i], secret |-> new[i]]]
         /\ \/ roleId' = roleId
            \/ roleId' = [roleId EXCEPT ![i] = 0]
            \/ roleId' = [roleId EXCEPT ![i] = ids[host[i]]]
         /\ \/ new' = new
            \/ new' = [new EXCEPT ![i] = 0]
            \/ Generated(i) /\ new' = [new EXCEPT ![i] = lastSecret']
<1>0. host[i] \in Names
  BY DEF AInv, Numbers
<1>1. UNCHANGED <<ids, host, roles>>
  BY IssuersKeepRoles DEF vars
<1> USE DEF Generated, Reduced
<1>2. CASE BeginIssue(i)
  BY <1>1, <1>2 DEF BeginIssue
<1>3. CASE ReadId(i) \/ ReadFile(i) \/ Lookup(i) \/ ListSecrets(i) \/ Destroyed(i)
  BY <1>1, <1>3 DEF ReadId, ReadFile, Lookup, ListSecrets, Destroyed
<1>4. CASE Destroy(i)
  BY <1>0, <1>1, <1>4 DEF Destroy, DestroyOne
<1>5. CASE Create(i)
  BY <1>1, <1>5 DEF Create
<1>6. CASE Store(i)
  BY <1>1, <1>6 DEF Store, Credentials
<1>7. CASE Refused(i)
  BY <1>1, <1>7 DEF Refused, Ends
<1>8. CASE Fault(i)
  BY <1>0, <1>1, <1>8 DEF Fault, Ends, DestroyOne
<1> QED BY <1>2, <1>3, <1>4, <1>5, <1>6, <1>7, <1>8 DEF Issue

LEMMA AInvIssuer ==
  ASSUME AInv, NEW i \in Issuers, BeginIssue(i) \/ Issue(i) \/ Fault(i)
  PROVE  AInv'
<1> USE DEF AInv
<1>0. host[i] \in Names /\ roleId[i] \in Nat /\ new[i] \in 0 .. lastSecret /\ lastSecret \in Nat
  BY DEF Numbers
<1>1. UNCHANGED <<ids, host, roles>>
  BY IssuerSteps
<1>2. /\ lastSecret' \in Nat /\ lastSecret <= lastSecret'
      /\ secrets' \in [Names -> SUBSET (0 .. lastSecret')]
      /\ SecretsEndWithRole'
  <2>1. CASE Generated(i)
    <3>1. /\ roles[host[i]] # None /\ lastSecret' = lastSecret + 1
          /\ secrets' = [secrets EXCEPT ![host[i]] = @ \cup {lastSecret'}]
      BY <2>1 DEF Generated, NewSecret, RoleExists
    <3>2. \A h \in Names : secrets'[h] \subseteq 0 .. lastSecret'
      BY <1>0, <3>1 DEF Numbers
    <3> QED BY <1>0, <1>1, <3>1, <3>2 DEF Numbers, SecretsEndWithRole
  <2>2. CASE Reduced
    BY <1>0, <1>1, <2>2 DEF Reduced, Numbers, SecretsEndWithRole
  <2> QED BY <2>1, <2>2, IssuerSteps
<1>3. roleId' \in [Issuers -> Nat] /\ IdsOfThePast'
  <2>1. CASE roleId' = roleId
    BY <1>1, <2>1 DEF Numbers, IdsOfThePast
  <2>2. CASE roleId' = [roleId EXCEPT ![i] = 0]
    BY <1>0, <1>1, <2>2 DEF Numbers, IdsOfThePast
  <2>3. CASE roleId' = [roleId EXCEPT ![i] = ids[host[i]]]
    BY <1>0, <1>1, <2>3 DEF Numbers, IdsOfThePast
  <2> QED BY <2>1, <2>2, <2>3, IssuerSteps
<1>4. new' \in [Issuers -> 0 .. lastSecret']
  BY <1>0, <1>2, IssuerSteps DEF Numbers
<1>5. Numbers'
  BY <1>1, <1>2, <1>3, <1>4 DEF Numbers
<1>6. file' \in [Names -> {None} \cup [id : Nat, secret : Nat]] /\ FilesOfThePast'
  <2>1. CASE file' = file
    BY <1>0, <1>1, <1>2, <2>1 DEF Numbers, FilesOfThePast
  <2>2. CASE file' = [file EXCEPT ![host[i]] = [id |-> roleId[i], secret |-> new[i]]]
    <3> DEFINE c == [id |-> roleId[i], secret |-> new[i]]
    <3>1. c \in [id : Nat, secret : Nat] /\ c.id = roleId[i] /\ c.secret = new[i]
      BY <1>0
    <3>2. roleId[i] <= ids[host[i]]
      BY DEF IdsOfThePast
    <3>3. file'[host[i]] = c /\ \A h \in Names : h # host[i] => file'[h] = file[h]
      BY <1>0, <2>2
    <3>4. file' \in [Names -> {None} \cup [id : Nat, secret : Nat]]
      BY <2>2, <3>1
    <3>5. FilesOfThePast'
      BY <1>0, <1>1, <1>2, <3>1, <3>2, <3>3 DEF Numbers, FilesOfThePast
    <3> QED BY <3>4, <3>5
  <2> QED BY <2>1, <2>2, IssuerSteps
<1> QED BY <1>2, <1>3, <1>5, <1>6

LEMMA AInvNext == AInv /\ TypeOK /\ [AppNext]_appVars => AInv'
<1>1. AInv /\ UNCHANGED appVars => AInv'
  BY DEF appVars, vars, AInv, Numbers, IdsOfThePast, SecretsEndWithRole, FilesOfThePast
<1> QED BY <1>1, AInvConfigure, AInvIssuer DEF AppNext

LEMMA AInductive == AppSpec => [](AInv /\ IInv)
<1>1. IInv => TypeOK
  BY DEF IInv
<1> QED BY <1>1, AInvInit, AInvNext, Composed, Inductive, PTL DEF AppSpec, AppSafety

Steps == {"idle", "id", "file", "lookup", "list", "destroy", "create", "store",
          "done", "failed"}
Facts ==
  step \in [Issuers -> Steps] /\ doomed \in [Issuers -> SUBSET (0 .. lastSecret)]

LEMMA FactsIssuer ==
  ASSUME AInv, AInv', Facts, NEW i \in Issuers, BeginIssue(i) \/ Issue(i) \/ Fault(i)
  PROVE  Facts'
<1>1. lastSecret \in Nat /\ lastSecret' \in Nat /\ lastSecret <= lastSecret'
  BY IssuerSteps DEF AInv, Numbers, Generated, NewSecret, Reduced
<1>2. host[i] \in Names /\ secrets[host[i]] \subseteq 0 .. lastSecret
  BY DEF AInv, Numbers
<1>3. \E t \in Steps : step' = [step EXCEPT ![i] = t]
  <2>1. CASE BeginIssue(i)
    <3>1. PICK t \in Tasks :
            step' = [step EXCEPT ![i] = CASE t \in {"issue", "rotate"} -> "id"
                                          [] t = "added" -> "create"
                                          [] OTHER -> "list"]
      BY <2>1 DEF BeginIssue
    <3>2. (CASE t \in {"issue", "rotate"} -> "id" [] t = "added" -> "create"
             [] OTHER -> "list") \in Steps
      BY Zenon DEF Steps
    <3> QED BY <3>1, <3>2
  <2>2. CASE Destroy(i)
    BY <2>2 DEF Destroy, Facts
  <2>3. CASE Issue(i) \/ Fault(i)
    BY <2>2, <2>3 DEF Issue, Fault, ReadId, ReadFile, Lookup, ListSecrets, Destroyed,
       Create, Store, Refused, Ends, Goes, Steps
  <2> QED BY <2>1, <2>3
<1>4. \/ doomed' = doomed
      \/ \E d \in SUBSET (0 .. lastSecret) : doomed' = [doomed EXCEPT ![i] = d]
  <2>1. CASE ListSecrets(i)
    BY <1>2, <2>1 DEF ListSecrets
  <2>2. CASE Destroy(i)
    <3>1. PICK s \in doomed[i] : doomed' = [doomed EXCEPT ![i] = @ \ {s}]
      BY <2>2 DEF Destroy
    <3> QED BY <3>1 DEF Facts
  <2>3. CASE Refused(i) \/ Fault(i)
    BY <2>3 DEF Refused, Fault, Ends
  <2>4. CASE BeginIssue(i) \/ ReadId(i) \/ ReadFile(i) \/ Lookup(i) \/ Destroyed(i)
               \/ Create(i) \/ Store(i)
    BY <2>4 DEF BeginIssue, ReadId, ReadFile, Lookup, Destroyed, Create, Store
  <2> QED BY <2>1, <2>2, <2>3, <2>4 DEF Issue
<1>5. step' \in [Issuers -> Steps]
  BY <1>3 DEF Facts
<1>6. doomed' \in [Issuers -> SUBSET (0 .. lastSecret)]
  BY <1>4 DEF Facts
<1> QED BY <1>1, <1>5, <1>6 DEF Facts

LEMMA FactsInductive == AppSpec => []Facts
<1>1. AppInit => Facts
  BY DEF AppInit, Facts, Steps
<1>2. AInv /\ AInv' /\ Facts /\ [AppNext]_appVars => Facts'
  <2>1. Facts /\ (Configure \/ UNCHANGED appVars) => Facts'
    BY DEF Configure, appVars, Facts
  <2> QED BY <2>1, FactsIssuer DEF AppNext
<1> QED BY <1>1, <1>2, AInductive, PTL DEF AppSpec, AppSafety

(***************************************************************************)
(* What follows from it.                                                   *)
(***************************************************************************)
\* The types of the variables: a file has the ID and the secret of some time.
THEOREM AppTypeCorrect == AppSpec => []AppTypeOK
<1>1. AInv /\ IInv /\ Facts => AppTypeOK
  <2> SUFFICES ASSUME AInv, IInv, Facts PROVE AppTypeOK
    OBVIOUS
  <2>1. file \in [Names -> {None} \cup [id : Nat, secret : 0 .. lastSecret]]
    <3>1. \A h \in Names : file[h] \in {None} \cup [id : Nat, secret : 0 .. lastSecret]
      BY DEF AInv, FilesOfThePast
    <3> QED BY <3>1 DEF AInv
  <2> QED BY <2>1 DEF AInv, Numbers, IInv, Facts, Steps, AppTypeOK
<1> QED BY <1>1, AInductive, FactsInductive, PTL

\* Issuers do not get in the way of what vault_approles promises of each of its
\* steps: with them it still implements DeclaredSet.
THEOREM ConfigurationImplements == AppSpec => Promise
BY Composed, RolesImplementDeclaredSet

\* A dropped host is locked out once a run has succeeded, though it be issued
\* new credentials in between: issue_approle_credentials against vault_approles.
THEOREM DroppedAreLockedOut == AppSpec => []DroppedLockedOut
<1>1. AInv /\ IInv => DroppedLockedOut
  BY DEF AInv, SecretsEndWithRole, IInv, AtWork, InOrder, Settled, DroppedLockedOut, Works
<1> QED BY <1>1, AInductive, PTL

\* A step that does not replace the file does not make it work again.
LEMMA NotRevived ==
  ASSUME AInv, AppNext, NEW h \in Names, ~Works(h), Works(h)', file'[h] = file[h]
  PROVE  FALSE
<1>0. /\ file[h] # None /\ roles'[h] # None
      /\ file[h].id = ids'[h] /\ file[h].secret \in secrets'[h]
  BY DEF Works
<1>1. /\ file[h].id \in Nat /\ file[h].id <= ids[h] /\ ids[h] \in Nat
      /\ file[h].secret \in 0 .. lastSecret /\ lastSecret \in Nat
  BY <1>0 DEF AInv, FilesOfThePast, Numbers
<1>2. CASE Configure
  <2>1. ids'[h] = IF roles[h] = None /\ roles'[h] # None THEN ids[h] + 1 ELSE ids[h]
    BY <1>2 DEF Configure
  <2>2. secrets'[h] = secrets[h]
    BY <1>0, <1>2 DEF Configure
  <2>3. roles[h] # None
    BY <1>0, <1>1, <2>1
  <2> QED BY <1>0, <1>1, <2>1, <2>2, <2>3 DEF Works
<1>3. ASSUME NEW i \in Issuers, BeginIssue(i) \/ Issue(i) \/ Fault(i) PROVE FALSE
  <2>1. UNCHANGED <<ids, host, roles>> /\ (Generated(i) \/ Reduced)
    BY <1>3, IssuerSteps
  <2>2. CASE Generated(i)
    BY <1>0, <1>1, <2>1, <2>2 DEF Generated, NewSecret, AInv, Numbers, Works
  <2>3. CASE Reduced
    BY <1>0, <2>1, <2>3 DEF Reduced, AInv, Numbers, Works
  <2> QED BY <2>1, <2>2, <2>3
<1> QED BY <1>2, <1>3 DEF AppNext

\* Old credentials stay dead: a role made anew has another ID, and no secret is
\* generated twice.
THEOREM DeadStayDead == AppSpec => NoResurrection
<1>1. AInv /\ [AppNext]_appVars =>
        [\A h \in Names : ~Works(h) /\ Works(h)' => file'[h] # file[h]]_appVars
  BY NotRevived
<1> QED BY <1>1, AInductive, PTL DEF AppSpec, AppSafety, NoResurrection

(***************************************************************************)
(* Where no two issuers work for one host, a check destroys nothing that   *)
(* works: what it found in the file is still there, and it goes on only if *)
(* that had stopped working, which is for good.                            *)
(***************************************************************************)
OneEach == \A i, j \in Issuers : host[i] = host[j] => i = j

\* The role's ID may have been read before the role was made anew, but not
\* before the file was written.
Checking(i) ==
  /\ step[i] \in {"file", "lookup"} /\ file[host[i]] # None => file[host[i]].id <= roleId[i]
  /\ step[i] = "lookup" => found[i] = file[host[i]]
  /\ task[i] = "issue" /\ step[i] \in {"list", "destroy", "create", "store"} => ~Works(host[i])

CInv ==
  /\ OneEach
  /\ task \in [Issuers -> Tasks \cup {CHOOSE t \in Tasks : TRUE}]
  /\ found \in [Issuers -> {None} \cup [id : Nat, secret : Nat]]
  /\ \A i \in Issuers : Checking(i)

\* An issuer touches the secrets and the file of its own host alone, and its
\* own facts.
LEMMA Elsewhere ==
  ASSUME AInv, NEW j \in Issuers, BeginIssue(j) \/ Issue(j) \/ Fault(j),
         NEW h \in Names \ {host[j]}
  PROVE  secrets'[h] = secrets[h] /\ file'[h] = file[h] /\ (Works(h)' <=> Works(h))
<1>1. UNCHANGED <<ids, roles>> /\ host[j] \in Names /\ h # host[j]
  BY IssuerSteps DEF AInv, Numbers
<1>2. secrets \in [Names -> SUBSET (0 .. lastSecret)]
      /\ file \in [Names -> {None} \cup [id : Nat, secret : Nat]]
  BY DEF AInv, Numbers
<1>3. \/ secrets' = secrets
      \/ \E S : secrets' = [secrets EXCEPT ![host[j]] = S]
  BY DEF BeginIssue, Issue, Fault, ReadId, ReadFile, Lookup, ListSecrets, Destroy, DestroyOne,
     Destroyed, Create, NewSecret, Store, Refused, Ends
<1>4. secrets'[h] = secrets[h]
  BY <1>1, <1>2, <1>3
<1>5. \/ file' = file
      \/ file' = [file EXCEPT ![host[j]] = [id |-> roleId[j], secret |-> new[j]]]
  BY IssuerSteps
<1>6. file'[h] = file[h]
  BY <1>1, <1>2, <1>5
<1> QED BY <1>1, <1>4, <1>6 DEF Works

LEMMA OthersChecking ==
  ASSUME AInv, Facts, CInv, NEW i \in Issuers, NEW j \in Issuers \ {i},
         BeginIssue(j) \/ Issue(j) \/ Fault(j)
  PROVE  Checking(i)'
<1>1. /\ step \in [Issuers -> Steps] /\ roleId \in [Issuers -> Nat]
      /\ task \in [Issuers -> Tasks \cup {CHOOSE t \in Tasks : TRUE}]
      /\ found \in [Issuers -> {None} \cup [id : Nat, secret : Nat]]
      /\ j # i
  BY DEF Facts, AInv, Numbers, CInv
<1>2. UNCHANGED <<step[i], roleId[i], task[i], found[i], host[i]>>
  BY <1>1 DEF BeginIssue, Issue, Fault, ReadId, ReadFile, Lookup, ListSecrets, Destroy,
     Destroyed, Create, Store, Refused, Ends, Goes
<1>3. host[i] \in Names \ {host[j]}
  BY DEF CInv, OneEach, AInv, Numbers
<1>4. file'[host[i]] = file[host[i]] /\ (Works(host[i])' <=> Works(host[i]))
  BY <1>2, <1>3, Elsewhere DEF Works
<1>5. Checking(i)
  BY DEF CInv
<1> QED BY <1>2, <1>4, <1>5 DEF Checking

\* A file that is not up to date does not work.
LEMMA OutOfDate ==
  ASSUME AInv, NEW i \in Issuers, Checking(i), step[i] = "lookup", ~UpToDate(i)
  PROVE  ~Works(host[i])
<1>1. host[i] \in Names /\ roleId[i] \in Nat /\ ids[host[i]] \in Nat /\ roleId[i] <= ids[host[i]]
  BY DEF AInv, Numbers, IdsOfThePast
<1> SUFFICES ASSUME Works(host[i]) PROVE FALSE
  OBVIOUS
<1>2. /\ file[host[i]] # None /\ file[host[i]].id = ids[host[i]]
      /\ file[host[i]].secret \in secrets[host[i]]
  BY DEF Works
<1>3. found[i] = file[host[i]] /\ file[host[i]].id <= roleId[i]
  BY <1>2 DEF Checking
<1>4. found[i].id = roleId[i]
  BY <1>1, <1>2, <1>3
<1> QED BY <1>2, <1>3, <1>4 DEF UpToDate

LEMMA OwnChecking ==
  ASSUME AInv, Facts, CInv, AppNext, NEW i \in Issuers, BeginIssue(i) \/ Issue(i) \/ Fault(i)
  PROVE  Checking(i)'
<1>1. /\ step \in [Issuers -> Steps] /\ roleId \in [Issuers -> Nat]
      /\ task \in [Issuers -> Tasks \cup {CHOOSE t \in Tasks : TRUE}]
      /\ found \in [Issuers -> {None} \cup [id : Nat, secret : Nat]]
  BY DEF Facts, AInv, Numbers, CInv
<1>2. Checking(i) /\ host[i] \in Names /\ UNCHANGED <<ids, host, roles>>
  BY IssuerSteps DEF CInv, AInv, Numbers
<1>3. file' = file /\ ~Works(host[i]) => ~Works(host[i])'
  <2>1. Works(host[i])' => /\ file'[host[i]] # None /\ roles'[host[i]] # None
                           /\ file'[host[i]].id = ids'[host[i]]
                           /\ file'[host[i]].secret \in secrets'[host[i]]
    BY <1>2 DEF Works
  <2> DEFINE h == host[i]
  <2>2. ~(file' = file /\ ~Works(h) /\ file'[h] # None /\ roles'[h] # None
            /\ file'[h].id = ids'[h] /\ file'[h].secret \in secrets'[h])
    <3> HIDE DEF h
    <3>1. h \in Names
      BY <1>2 DEF h
    <3>2. UNCHANGED h
      BY <1>2 DEF h
    <3> QED BY <3>1, <3>2, NotRevived DEF Works
  <2> QED BY <2>1, <2>2
<1>4. CASE BeginIssue(i)
  <2>1. PICK t \in Tasks :
          /\ task' = [task EXCEPT ![i] = t]
          /\ step' = [step EXCEPT ![i] = CASE t \in {"issue", "rotate"} -> "id"
                                          [] t = "added" -> "create"
                                          [] OTHER -> "list"]
    BY <1>4 DEF BeginIssue
  <2>2. task'[i] = t /\ step'[i] \in {"id", "create", "list"} /\ (t = "issue" => step'[i] = "id")
    BY <1>1, <2>1
  <2> QED BY <2>2 DEF Checking
<1>5. CASE ReadId(i)
  <2>1. /\ step'[i] = IF task[i] = "rotate" THEN "list" ELSE "file"
        /\ task' = task /\ file' = file /\ roleId'[i] = ids[host[i]]
    BY <1>1, <1>5 DEF ReadId, Goes
  <2>2. file[host[i]] # None => file[host[i]].id <= ids[host[i]]
    BY <1>2 DEF AInv, FilesOfThePast
  <2> QED BY <1>2, <2>1, <2>2 DEF Checking
<1>6. CASE ReadFile(i)
  <2>1. step[i] = "file" /\ step'[i] = "lookup" /\ found'[i] = file[host[i]]
        /\ file' = file /\ roleId' = roleId
    BY <1>1, <1>6 DEF ReadFile, Goes
  <2> QED BY <1>2, <2>1 DEF Checking
<1>7. CASE Lookup(i)
  <2>1. /\ step[i] = "lookup" /\ step'[i] = IF UpToDate(i) THEN "done" ELSE "list"
        /\ file' = file
    BY <1>1, <1>7 DEF Lookup, Goes
  <2> QED BY <1>2, <1>3, <2>1, OutOfDate DEF Checking
<1>8. CASE ListSecrets(i) \/ Destroy(i) \/ Destroyed(i) \/ Create(i)
  <2>1. /\ step[i] \in {"list", "destroy", "create"}
        /\ step'[i] \in {"destroy", "create", "store", "done"}
        /\ file' = file /\ task' = task
    BY <1>1, <1>8 DEF ListSecrets, Destroy, Destroyed, Create, Goes
  <2> QED BY <1>2, <1>3, <2>1 DEF Checking
<1>9. CASE Store(i) \/ Refused(i) \/ Fault(i)
  <2>1. step'[i] \in {"done", "failed"}
    BY <1>1, <1>9 DEF Store, Refused, Fault, Ends, Goes
  <2> QED BY <2>1 DEF Checking
<1> QED BY <1>4, <1>5, <1>6, <1>7, <1>8, <1>9 DEF Issue

LEMMA CInvNext == AInv /\ Facts /\ CInv /\ [AppNext]_appVars => CInv'
<1> SUFFICES ASSUME AInv, Facts, CInv, [AppNext]_appVars PROVE CInv'
  OBVIOUS
<1>1. CASE Configure
  <2>1. UNCHANGED <<file, step, task, host, roleId, found>>
    BY <1>1 DEF Configure
  <2>2. \A h \in Names : ~Works(h) => ~Works(h)'
    BY <1>1, <2>1, NotRevived DEF AppNext
  <2>3. \A i \in Issuers : host[i] \in Names
    BY DEF AInv, Numbers
  <2>4. \A i \in Issuers : ~Works(host[i]) => ~Works(host[i])'
    BY <2>1, <2>2, <2>3 DEF Works
  <2> QED BY <2>1, <2>4 DEF CInv, OneEach, Checking
<1>2. ASSUME NEW j \in Issuers, BeginIssue(j) \/ Issue(j) \/ Fault(j) PROVE CInv'
  <2>1. AppNext /\ UNCHANGED host /\ host[j] \in Names
    BY <1>2, IssuerSteps DEF AppNext, AInv, Numbers
  <2>2. \A i \in Issuers : Checking(i)'
    BY <1>2, <2>1, OthersChecking, OwnChecking
  <2>3. task' \in [Issuers -> Tasks \cup {CHOOSE t \in Tasks : TRUE}]
    <3>1. task' = task \/ \E t \in Tasks : task' = [task EXCEPT ![j] = t]
      BY <1>2 DEF BeginIssue, Issue, Fault, ReadId, ReadFile, Lookup, ListSecrets, Destroy,
         Destroyed, Create, Store, Refused, Ends
    <3> QED BY <3>1 DEF CInv
  <2>4. found' \in [Issuers -> {None} \cup [id : Nat, secret : Nat]]
    <3>1. file[host[j]] \in {None} \cup [id : Nat, secret : Nat]
      BY <2>1 DEF AInv
    <3>2. \/ found' = found
          \/ \E c \in {None, file[host[j]]} : found' = [found EXCEPT ![j] = c]
      BY <1>2 DEF BeginIssue, Issue, Fault, ReadId, ReadFile, Lookup, ListSecrets, Destroy,
         Destroyed, Create, Store, Refused, Ends
    <3> QED BY <3>1, <3>2 DEF CInv
  <2> QED BY <2>1, <2>2, <2>3, <2>4 DEF CInv, OneEach
<1>3. CASE UNCHANGED appVars
  BY <1>3 DEF appVars, vars, CInv, OneEach, Checking, Works
<1> QED BY <1>1, <1>2, <1>3 DEF AppNext

\* Credentials that work are destroyed only by who means to: a mere check does
\* not, though roles be dropped and made anew between its requests and any of
\* them fail, as long as one issuer works for a host.
THEOREM OutagesAreMeant == AppSpec /\ OneEach => NoNeedlessOutage
<1>1. AppInit /\ OneEach => CInv
  <2> SUFFICES ASSUME AppInit, OneEach PROVE CInv
    OBVIOUS
  <2>1. task \in [Issuers -> Tasks \cup {CHOOSE t \in Tasks : TRUE}]
    BY DEF AppInit
  <2> QED BY <2>1 DEF AppInit, CInv, Checking
<1>2. AInv /\ Facts /\ CInv /\ [AppNext]_appVars =>
        [\A h \in Names :
           Works(h) /\ ~Works(h)' =>
             \/ roles'[h] = None
             \/ \E i \in Issuers : host[i] = h /\ Active(i) /\ task[i] # "issue"]_appVars
  <2> SUFFICES ASSUME AInv, Facts, CInv, AppNext, NEW h \in Names,
                      Works(h), ~Works(h)', roles'[h] # None
               PROVE  \E i \in Issuers : host[i] = h /\ Active(i) /\ task[i] # "issue"
    OBVIOUS
  <2>1. ~Configure
    BY DEF Configure, Works
  <2>2. PICK i \in Issuers : BeginIssue(i) \/ Issue(i) \/ Fault(i)
    BY <2>1 DEF AppNext
  <2>3. host[i] = h
    BY <2>2, Elsewhere
  <2>4. UNCHANGED <<ids, roles>>
    BY <2>2, IssuerSteps
  <2>5. ~UNCHANGED <<secrets, file>>
    BY <2>4 DEF Works
  <2>6. step[i] \in {"destroy", "create", "store"}
    BY <2>2, <2>5 DEF BeginIssue, Issue, Fault, ReadId, ReadFile, Lookup, ListSecrets, Destroy,
       Destroyed, Create, Store, Refused, Ends, Goes
  <2> QED BY <2>3, <2>6 DEF CInv, Checking, Active
<1> QED BY <1>1, <1>2, CInvNext, AInductive, FactsInductive, PTL
        DEF AppSpec, AppSafety, NoNeedlessOutage
=================================================================================
