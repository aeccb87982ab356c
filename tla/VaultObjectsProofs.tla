--------------------------- MODULE VaultObjectsProofs ---------------------------
(***************************************************************************)
(* Proofs about the modules that make Vault as declared: VaultObjects and, *)
(* from `Users and what they may do' on, Identity.                         *)
(*                                                                         *)
(* VaultObjects, for all of its modules, any number of runs, any objects   *)
(* and tasks, and any number of requests that fail.                        *)
(* A run that deletes what is declared still has to create it, and what it *)
(* does last makes the object as declared, whatever the others have made   *)
(* of it since this run read it.  So when the object is not as declared,   *)
(* some run is about to read it, has a request to send that mends it, or   *)
(* has failed.                                                             *)
(***************************************************************************)
EXTENDS VaultObjects, Identity, SequenceTheorems, TLAPS

Plans ==
  {<<>>, <<"delete">>, <<"create">>, <<"delete", "create">>, <<"tune">>, <<"write">>,
   <<"patch">>, <<"accessor">>, <<"create", "accessor">>,
   <<"delete", "create", "accessor">>, <<"tune", "accessor">>}

\* Only a task that declares nothing deletes for good, and it does nothing else.
Fits(requests) ==
  /\ requests \in Plans
  /\ IF Declares(want) THEN requests # <<"delete">> ELSE requests \in {<<>>, <<"delete">>}

MayDelete(r) ==
  Declares(want) => ~Usable(seen[r]) \/ (kind = "audit" /\ seen[r].text # want.declared.text)

\* What others leave of the object can be tuned, and has no key that a patch
\* knows nothing of.
MayTune == kind \in {"auth", "secrets"} /\ (object # None => Usable(object))
MayPatch(r) ==
  /\ kind = "namespace"
  /\ object # None => DOMAIN object.settings
                        \subseteq DOMAIN seen[r].settings \cup DOMAIN want.declared.settings

Planned(r) ==
  /\ pc[r] # "send" => plan[r] = <<>>
  /\ Fits(plan[r])
  /\ plan[r] # <<>> =>
       /\ Head(plan[r]) = "delete" => MayDelete(r)
       /\ Head(plan[r]) = "tune" => MayTune
       /\ Head(plan[r]) = "patch" => MayPatch(r)

Mends(r) == pc[r] \in {"read", "failed"} \/ Writes(plan[r])
Mended == AsDeclared \/ (\A r \in Runs : pc[r] = "idle") \/ \E r \in Runs : Mends(r)

\* The inductive invariant.
OInv == TypeOK /\ (\A r \in Runs : Planned(r)) /\ Mended /\ NoSilentLoss

(***************************************************************************)
(* Plans as sequences.                                                     *)
(***************************************************************************)
LEMMA ConcatOne == ASSUME NEW a, NEW b PROVE <<a>> \o <<b>> = <<a, b>>
<1> DEFINE S == {a, b}
<1>1. <<a>> \in Seq(S) /\ <<b>> \in Seq(S) /\ <<a, b>> \in Seq(S)
  OBVIOUS
<1>2. Len(<<a>>) = 1 /\ Len(<<b>>) = 1 /\ Len(<<a, b>>) = 2
  OBVIOUS
<1>3. /\ <<a>> \o <<b>> \in Seq(S) /\ Len(<<a>> \o <<b>>) = 2
      /\ \A i \in 1..2 : (<<a>> \o <<b>>)[i] = IF i <= 1 THEN <<a>>[i] ELSE <<b>>[i - 1]
  <2> HIDE DEF S
  <2> QED BY <1>1, <1>2, ConcatProperties
<1>4. \A i \in 1..2 : (<<a>> \o <<b>>)[i] = <<a, b>>[i]
  BY <1>3
<1> HIDE DEF S
<1> QED BY <1>1, <1>2, <1>3, <1>4, SeqEqual

LEMMA ConcatTwo == ASSUME NEW a, NEW b, NEW c PROVE <<a, b>> \o <<c>> = <<a, b, c>>
<1> DEFINE S == {a, b, c}
<1>1. <<a, b>> \in Seq(S) /\ <<c>> \in Seq(S) /\ <<a, b, c>> \in Seq(S)
  OBVIOUS
<1>2. Len(<<a, b>>) = 2 /\ Len(<<c>>) = 1 /\ Len(<<a, b, c>>) = 3
  OBVIOUS
<1>3. /\ <<a, b>> \o <<c>> \in Seq(S) /\ Len(<<a, b>> \o <<c>>) = 3
      /\ \A i \in 1..3 : (<<a, b>> \o <<c>>)[i] = IF i <= 2 THEN <<a, b>>[i] ELSE <<c>>[i - 2]
  <2> HIDE DEF S
  <2> QED BY <1>1, <1>2, ConcatProperties
<1>4. \A i \in 1..3 : (<<a, b>> \o <<c>>)[i] = <<a, b, c>>[i]
  BY <1>3
<1> HIDE DEF S
<1> QED BY <1>1, <1>2, <1>3, <1>4, SeqEqual

LEMMA ConcatNone ==
  ASSUME NEW a
  PROVE  <<>> \o <<a>> = <<a>> /\ <<a>> \o <<>> = <<a>> /\ <<>> \o <<>> = <<>>
OBVIOUS

OwesIn(requests) == \E i \in DOMAIN requests : requests[i] \in {"create", "write"}

\* A deletion of what is declared is followed by a creation; after any other request
\* there is nothing left to change.
LEMMA PlanSteps ==
  ASSUME NEW requests \in Plans
  PROVE  /\ requests \in Seq(Requests)
         /\ OwesIn(requests) => Writes(requests)
         /\ Writes(requests) <=> requests \notin {<<>>, <<"accessor">>}
         /\ requests \in {<<"create">>, <<"create", "accessor">>, <<"write">>} => OwesIn(requests)
         /\ requests # <<>> =>
              /\ Head(requests) \in Requests /\ Tail(requests) \in Plans
              /\ Tail(requests) # <<"delete">>
              /\ Tail(requests) # <<>> => Head(Tail(requests)) \in {"create", "accessor"}
              /\ Head(requests) = "delete" /\ requests # <<"delete">> => OwesIn(Tail(requests))
              /\ Head(requests) = "accessor" => ~Writes(requests)
              /\ Head(requests) = "delete" /\ requests # <<"delete">> =>
                   requests \in {<<"delete", "create">>, <<"delete", "create", "accessor">>}
              /\ Head(requests) = "tune" => requests \in {<<"tune">>, <<"tune", "accessor">>}
              /\ Head(requests) = "patch" => requests = <<"patch">>
              /\ requests = <<"delete">> => Tail(requests) = <<>>
<1> USE DEF Requests, Writes, OwesIn
<1>1. CASE requests = <<>>
  BY <1>1 DEF Plans
<1>2. CASE requests = <<"delete">>
  BY <1>2 DEF Plans
<1>3. CASE requests = <<"create">>
  BY <1>3 DEF Plans
<1>4. CASE requests = <<"tune">>
  BY <1>4 DEF Plans
<1>5. CASE requests = <<"write">>
  BY <1>5 DEF Plans
<1>6. CASE requests = <<"patch">>
  BY <1>6 DEF Plans
<1>7. CASE requests = <<"accessor">>
  BY <1>7 DEF Plans
<1>8. CASE requests = <<"delete", "create">>
  BY <1>8 DEF Plans
<1>9. CASE requests = <<"create", "accessor">>
  BY <1>9 DEF Plans
<1>10. CASE requests = <<"tune", "accessor">>
  BY <1>10 DEF Plans
<1>11. CASE requests = <<"delete", "create", "accessor">>
  BY <1>11 DEF Plans
<1> QED BY <1>1, <1>2, <1>3, <1>4, <1>5, <1>6, <1>7, <1>8, <1>9, <1>10, <1>11 DEF Plans

(***************************************************************************)
(* What each module decides.                                               *)
(***************************************************************************)
\* A plan that suits the object as it is: nothing that can be used is deleted, nothing
\* unusable tuned, and nothing left to do only if the object is as declared.
Apt(requests) ==
  /\ requests \in Plans
  /\ IF ~Declares(want) THEN requests = If(object # None, <<"delete">>)
     ELSE /\ requests # <<"delete">>
          /\ requests \in {<<"delete", "create">>, <<"delete", "create", "accessor">>} =>
               ~Usable(object) \/ (kind = "audit" /\ object.text # want.declared.text)
          /\ requests \in {<<"tune">>, <<"tune", "accessor">>} =>
               kind \in {"auth", "secrets"} /\ Usable(object)
          /\ requests = <<"patch">> => kind = "namespace"
          /\ object = None => requests \in {<<"create">>, <<"create", "accessor">>, <<"write">>}
          /\ requests \in {<<>>, <<"accessor">>} => AsDeclared
  /\ AsDeclared /\ want.state # "updated" /\ Repeatable => requests \in {<<>>, <<"accessor">>}

LEMMA Typed ==
  ASSUME TypeOK
  PROVE  /\ kind \in {"auth", "secrets", "audit", "policy", "entity", "namespace", "oidc"}
         /\ want.declared \in Objects(kind) /\ want.state \in States(kind)
         /\ object \in Objects(kind) \cup {None} /\ None \notin Objects(kind)
         /\ None \notin Texts
  BY KindsAssumption, NoObjectAssumption, NoneAssumption DEF TypeOK, Tasks

LEMMA CoversEmpty == ASSUME NEW d PROVE Covers(d, Empty)
  BY DEF Covers, Empty

LEMMA AuthApt == ASSUME TypeOK, kind = "auth" PROVE Apt(AuthPlan(object, want))
<1> DEFINE P == AuthPlan(object, want)
<1>0. /\ object # None => object.options = Empty
      /\ want.declared.options = Empty
  BY Typed DEF Objects, HasOptions
<1>1. CASE ~Declares(want)
  <2>1. P = If(object # None, <<"delete">>)
    BY <1>1 DEF AuthPlan
  <2> QED BY <1>1, <2>1 DEF Apt, If, Plans, AsDeclared
<1>2. CASE Declares(want) /\ object = None
  <2>1. P = <<"create", "accessor">>
    BY <1>2, ConcatOne, ConcatNone DEF AuthPlan, AuthRebuilt, If
  <2> QED BY <1>2, <2>1 DEF Apt, Plans, AsDeclared, Usable
<1>3. CASE Declares(want) /\ object # None /\ object.type # want.declared.type
  <2>1. P = (<<"delete">> \o <<"create">>) \o <<"accessor">>
    BY <1>3 DEF AuthPlan, AuthRebuilt, If
  <2>2. P = <<"delete", "create", "accessor">>
    <3>1. <<"delete">> \o <<"create">> = <<"delete", "create">>
      BY ConcatOne
    <3>2. <<"delete", "create">> \o <<"accessor">> = <<"delete", "create", "accessor">>
      BY ConcatTwo
    <3> HIDE DEF P
    <3> QED BY <2>1, <3>1, <3>2, Zenon
  <2> QED BY <1>3, <2>2 DEF Apt, Plans, AsDeclared, Usable
<1>4. CASE /\ Declares(want) /\ object # None /\ object.type = want.declared.type
           /\ AuthDiffers(object, want)
  <2>1. P = <<"tune", "accessor">>
    BY <1>4, ConcatOne DEF AuthPlan, AuthRebuilt, If
  <2>2. Usable(object)
    BY <1>0, <1>4, CoversEmpty DEF Usable
  <2>3. ~(AsDeclared /\ Repeatable)
    BY <1>4 DEF AuthDiffers, AsDeclared, Repeatable, Empty
  <2> QED BY <1>4, <2>1, <2>2, <2>3 DEF Apt, Plans
<1>5. CASE /\ Declares(want) /\ object # None /\ object.type = want.declared.type
           /\ ~AuthDiffers(object, want)
  <2>1. P = <<"accessor">>
    BY <1>5, ConcatNone DEF AuthPlan, AuthRebuilt, If
  <2>2. AsDeclared
    BY <1>0, <1>5, CoversEmpty DEF AuthDiffers, AsDeclared, Usable, Covers, Exact
  <2> QED BY <1>5, <2>1, <2>2 DEF Apt, Plans
<1> QED BY <1>1, <1>2, <1>3, <1>4, <1>5

LEMMA SecretsApt == ASSUME TypeOK, kind = "secrets" PROVE Apt(SecretsPlan(object, want))
<1> DEFINE P == SecretsPlan(object, want)
<1>1. CASE ~Declares(want)
  <2>1. CASE object = None
    <3>1. P = <<>>
      BY <1>1, <2>1, ConcatNone DEF SecretsPlan, SecretsUnusable, If
    <3> QED BY <1>1, <2>1, <3>1 DEF Apt, If, Plans, AsDeclared
  <2>2. CASE object # None
    <3>1. P = <<"delete">>
      <4>1. CASE SecretsUnusable(object, want)
        BY <1>1, <2>2, <4>1, ConcatNone DEF SecretsPlan, If
      <4>2. CASE ~SecretsUnusable(object, want)
        BY <1>1, <2>2, <4>2, ConcatNone DEF SecretsPlan, If
      <4> QED BY <4>1, <4>2
    <3> QED BY <1>1, <2>2, <3>1 DEF Apt, If, Plans, AsDeclared
  <2> QED BY <2>1, <2>2
<1>2. CASE Declares(want) /\ object = None
  <2>1. P = <<"create">>
    BY <1>2, ConcatNone DEF SecretsPlan, SecretsUnusable, If
  <2> QED BY <1>2, <2>1 DEF Apt, Plans, AsDeclared, Usable
<1>3. CASE Declares(want) /\ SecretsUnusable(object, want)
  <2>1. P = <<"delete", "create">>
    BY <1>3, ConcatOne DEF SecretsPlan, If
  <2> QED BY <1>3, <2>1 DEF Apt, Plans, AsDeclared, Usable, SecretsUnusable
<1>4. CASE /\ Declares(want) /\ object # None /\ ~SecretsUnusable(object, want)
           /\ SecretsDiffers(object, want)
  <2>1. P = <<"tune">>
    BY <1>4, ConcatNone DEF SecretsPlan, If
  <2>2. Usable(object) /\ ~AsDeclared
    BY <1>4 DEF Usable, SecretsUnusable, SecretsDiffers, AsDeclared
  <2> QED BY <1>4, <2>1, <2>2 DEF Apt, Plans
<1>5. CASE /\ Declares(want) /\ object # None /\ ~SecretsUnusable(object, want)
           /\ ~SecretsDiffers(object, want)
  <2>1. P = <<>>
    BY <1>5 DEF SecretsPlan, If
  <2>2. AsDeclared
    BY <1>5 DEF Usable, SecretsUnusable, SecretsDiffers, AsDeclared, Exact
  <2> QED BY <1>5, <2>1, <2>2 DEF Apt, Plans
<1> QED BY <1>1, <1>2, <1>3, <1>4, <1>5

LEMMA AuditApt == ASSUME TypeOK, kind = "audit" PROVE Apt(AuditPlan(object, want))
<1> DEFINE P == AuditPlan(object, want)
<1>0. want.declared.settings = Empty
  BY Typed DEF Objects, HasSettings
<1>1. CASE ~Declares(want)
  <2>1. CASE object = None
    <3>1. P = <<>>
      BY <1>1, <2>1, ConcatNone DEF AuditPlan, AuditUnusable, If
    <3> QED BY <1>1, <2>1, <3>1 DEF Apt, If, Plans, AsDeclared
  <2>2. CASE object # None
    <3>1. P = <<"delete">>
      <4>1. CASE AuditUnusable(object, want)
        BY <1>1, <2>2, <4>1, ConcatNone DEF AuditPlan, If
      <4>2. CASE ~AuditUnusable(object, want)
        BY <1>1, <2>2, <4>2, ConcatNone DEF AuditPlan, If
      <4> QED BY <4>1, <4>2
    <3> QED BY <1>1, <2>2, <3>1 DEF Apt, If, Plans, AsDeclared
  <2> QED BY <2>1, <2>2
<1>2. CASE Declares(want) /\ object = None
  <2>1. P = <<"create">>
    BY <1>2, ConcatNone DEF AuditPlan, AuditUnusable, If
  <2> QED BY <1>2, <2>1 DEF Apt, Plans, AsDeclared, Usable
<1>3. CASE Declares(want) /\ AuditUnusable(object, want)
  <2>1. P = <<"delete", "create">>
    BY <1>3, ConcatOne DEF AuditPlan, If
  <2> QED BY <1>3, <2>1 DEF Apt, Plans, AsDeclared, Usable, AuditUnusable
<1>4. CASE Declares(want) /\ object # None /\ ~AuditUnusable(object, want)
  <2>1. P = <<>>
    BY <1>4 DEF AuditPlan, If
  <2>2. AsDeclared
    BY <1>0, <1>4, CoversEmpty DEF Usable, AuditUnusable, AsDeclared, Exact
  <2> QED BY <1>4, <2>1, <2>2 DEF Apt, Plans
<1> QED BY <1>1, <1>2, <1>3, <1>4

\* The kinds that are written as a whole, or patched.
LEMMA PlainApt ==
  ASSUME TypeOK, kind \in {"policy", "entity", "namespace", "oidc"}
  PROVE  Apt(Plan(kind, object, want))
<1>0. /\ want.declared.type = None /\ want.declared.options = Empty
      /\ object # None => object.type = None /\ object.options = Empty
      /\ kind # "policy" => /\ want.declared.text = None
                            /\ object # None => object.text = None
      /\ kind = "policy" => /\ want.declared.settings = Empty /\ want.declared.text # None
                            /\ object # None => object.text # None
  BY Typed DEF Objects, HasType, HasText, HasOptions, HasSettings
<1>u. object # None => Usable(object)
  BY <1>0, CoversEmpty DEF Usable
<1>c. Covers(want.declared.settings, want.declared.settings)
  BY DEF Covers
<1>1. CASE kind = "policy"
  <2>0. Plan(kind, object, want) = PolicyPlan(object, want)
    BY <1>1 DEF Plan
  <2>1. CASE ~Declares(want) /\ object = None
    <3>1. Plan(kind, object, want) = <<>>
      BY <1>0, <1>1, <2>0, <2>1 DEF PolicyPlan, If
    <3>2. AsDeclared
      BY <1>0, <1>1, <1>u, <1>c, <2>1, CoversEmpty DEF AsDeclared, Usable, Exact
    <3> QED BY <1>1, <1>u, <2>1, <3>1, <3>2 DEF Apt, Plans, If
  <2>2. CASE ~Declares(want) /\ object # None
    <3>1. Plan(kind, object, want) = <<"delete">>
      BY <1>0, <1>1, <2>0, <2>2 DEF PolicyPlan, If
    <3>2. ~AsDeclared
      BY <1>0, <1>1, <1>u, <1>c, <2>2, CoversEmpty DEF AsDeclared, Usable, Exact
    <3> QED BY <1>1, <1>u, <2>2, <3>1, <3>2 DEF Apt, Plans, If
  <2>3. CASE Declares(want) /\ object = None
    <3>1. Plan(kind, object, want) = <<"write">>
      BY <1>0, <1>1, <2>0, <2>3 DEF PolicyPlan, If
    <3>2. ~AsDeclared
      BY <1>0, <1>1, <1>u, <1>c, <2>3, CoversEmpty DEF AsDeclared, Usable, Exact
    <3> QED BY <1>1, <1>u, <2>3, <3>1, <3>2 DEF Apt, Plans, If
  <2>4. CASE Declares(want) /\ object # None /\ object.text # want.declared.text
    <3>1. Plan(kind, object, want) = <<"write">>
      BY <1>0, <1>1, <2>0, <2>4 DEF PolicyPlan, If
    <3>2. ~AsDeclared
      BY <1>0, <1>1, <1>u, <1>c, <2>4, CoversEmpty DEF AsDeclared
    <3>3. Declares(want) /\ object # None
      BY <2>4
    <3> QED BY <3>1, <3>2, <3>3 DEF Apt, Plans
  <2>5. CASE Declares(want) /\ object # None /\ object.text = want.declared.text
    <3>1. Plan(kind, object, want) = <<>>
      BY <1>0, <1>1, <2>0, <2>5 DEF PolicyPlan, If
    <3>2. AsDeclared
      BY <1>0, <1>1, <1>u, <1>c, <2>5, CoversEmpty DEF AsDeclared, Exact
    <3> QED BY <1>1, <1>u, <2>5, <3>1, <3>2 DEF Apt, Plans, If
  <2> QED BY <2>1, <2>2, <2>3, <2>4, <2>5
<1>2. CASE kind = "entity"
  <2>0. Plan(kind, object, want) = EntityPlan(object, want)
    BY <1>2 DEF Plan
  <2>1. CASE ~Declares(want) /\ object = None
    <3>1. Plan(kind, object, want) = <<>>
      BY <1>0, <1>2, <2>0, <2>1 DEF EntityPlan, If
    <3>2. AsDeclared
      BY <1>0, <1>2, <1>u, <1>c, <2>1 DEF AsDeclared, Usable, Exact
    <3> QED BY <1>2, <1>u, <2>1, <3>1, <3>2 DEF Apt, Plans, If
  <2>2. CASE ~Declares(want) /\ object # None
    <3>1. Plan(kind, object, want) = <<"delete">>
      BY <1>0, <1>2, <2>0, <2>2 DEF EntityPlan, If
    <3>2. ~AsDeclared
      BY <1>0, <1>2, <1>u, <1>c, <2>2 DEF AsDeclared, Usable, Exact
    <3> QED BY <1>2, <1>u, <2>2, <3>1, <3>2 DEF Apt, Plans, If
  <2>3. CASE Declares(want) /\ object = None
    <3>1. Plan(kind, object, want) = <<"write">>
      BY <1>0, <1>2, <2>0, <2>3 DEF EntityPlan, If
    <3>2. ~AsDeclared
      BY <1>0, <1>2, <1>u, <1>c, <2>3 DEF AsDeclared, Usable, Exact
    <3> QED BY <1>2, <1>u, <2>3, <3>1, <3>2 DEF Apt, Plans, If
  <2>4. CASE Declares(want) /\ object # None /\ object.settings # want.declared.settings
    <3>1. Plan(kind, object, want) = <<"write">>
      BY <1>0, <1>2, <2>0, <2>4 DEF EntityPlan, If
    <3>2. ~AsDeclared
      BY <1>0, <1>2, <1>u, <1>c, <2>4 DEF AsDeclared, Usable, Exact
    <3> QED BY <1>2, <1>u, <2>4, <3>1, <3>2 DEF Apt, Plans, If
  <2>5. CASE Declares(want) /\ object # None /\ object.settings = want.declared.settings
    <3>1. Plan(kind, object, want) = <<>>
      BY <1>0, <1>2, <2>0, <2>5 DEF EntityPlan, If
    <3>2. AsDeclared
      BY <1>0, <1>2, <1>u, <1>c, <2>5 DEF AsDeclared, Exact
    <3> QED BY <1>2, <1>u, <2>5, <3>1, <3>2 DEF Apt, Plans, If
  <2> QED BY <2>1, <2>2, <2>3, <2>4, <2>5
<1>3. CASE kind = "namespace"
  <2>0. Plan(kind, object, want) = NamespacePlan(object, want)
    BY <1>3 DEF Plan
  <2>1. CASE ~Declares(want) /\ object = None
    <3>1. Plan(kind, object, want) = <<>>
      BY <1>0, <1>3, <2>0, <2>1 DEF NamespacePlan, If
    <3>2. AsDeclared
      BY <1>0, <1>3, <1>u, <1>c, <2>1 DEF AsDeclared, Usable, Exact
    <3> QED BY <1>3, <1>u, <2>1, <3>1, <3>2 DEF Apt, Plans, If
  <2>2. CASE ~Declares(want) /\ object # None
    <3>1. Plan(kind, object, want) = <<"delete">>
      BY <1>0, <1>3, <2>0, <2>2 DEF NamespacePlan, If
    <3>2. ~AsDeclared
      BY <1>0, <1>3, <1>u, <1>c, <2>2 DEF AsDeclared, Usable, Exact
    <3> QED BY <1>3, <1>u, <2>2, <3>1, <3>2 DEF Apt, Plans, If
  <2>3. CASE Declares(want) /\ object = None
    <3>1. Plan(kind, object, want) = <<"create">>
      BY <1>0, <1>3, <2>0, <2>3 DEF NamespacePlan, If
    <3>2. ~AsDeclared
      BY <1>0, <1>3, <1>u, <1>c, <2>3 DEF AsDeclared, Usable, Exact
    <3> QED BY <1>3, <1>u, <2>3, <3>1, <3>2 DEF Apt, Plans, If
  <2>4. CASE Declares(want) /\ object # None /\ object.settings # want.declared.settings
    <3>1. Plan(kind, object, want) = <<"patch">>
      BY <1>0, <1>3, <2>0, <2>4 DEF NamespacePlan, If
    <3>2. ~AsDeclared
      BY <1>0, <1>3, <1>u, <1>c, <2>4 DEF AsDeclared, Usable, Exact
    <3> QED BY <1>3, <1>u, <2>4, <3>1, <3>2 DEF Apt, Plans, If
  <2>5. CASE Declares(want) /\ object # None /\ object.settings = want.declared.settings
    <3>1. Plan(kind, object, want) = <<>>
      BY <1>0, <1>3, <2>0, <2>5 DEF NamespacePlan, If
    <3>2. AsDeclared
      BY <1>0, <1>3, <1>u, <1>c, <2>5 DEF AsDeclared, Exact
    <3> QED BY <1>3, <1>u, <2>5, <3>1, <3>2 DEF Apt, Plans, If
  <2> QED BY <2>1, <2>2, <2>3, <2>4, <2>5
<1>4. CASE kind = "oidc"
  <2>d. Declares(want)
    BY <1>4, Typed DEF States, Declares
  <2>0. Plan(kind, object, want) = OidcPlan(object, want)
    BY <1>4 DEF Plan
  <2>1. CASE object = None
    <3>1. Plan(kind, object, want) = <<"write">>
      BY <1>0, <1>4, <2>0, <2>1 DEF OidcPlan, If
    <3>2. ~AsDeclared
      BY <1>0, <1>4, <1>u, <1>c, <2>1, <2>d DEF AsDeclared, Usable, Exact
    <3> QED BY <1>4, <1>u, <2>1, <2>d, <3>1, <3>2 DEF Apt, Plans, If
  <2>2. CASE object # None /\ want.state = "updated"
    <3>1. Plan(kind, object, want) = <<"write">>
      BY <1>0, <1>4, <2>0, <2>2 DEF OidcPlan, If
    <3> QED BY <1>4, <1>u, <2>d, <2>2, <3>1 DEF Apt, Plans
  <2>3. CASE object # None /\ want.state # "updated"
    <3>1. Plan(kind, object, want) = <<>>
      BY <1>0, <1>4, <2>0, <2>3 DEF OidcPlan, If
    <3>2. AsDeclared
      BY <1>0, <1>4, <1>u, <1>c, <2>3, <2>d DEF AsDeclared, Exact
    <3> QED BY <1>4, <1>u, <2>3, <2>d, <3>1, <3>2 DEF Apt, Plans, If
  <2> QED BY <2>1, <2>2, <2>3, <2>d
<1> QED BY <1>1, <1>2, <1>3, <1>4

LEMMA PlanApt == ASSUME TypeOK PROVE Apt(Plan(kind, object, want))
<1>1. CASE kind = "auth"
  BY <1>1, AuthApt DEF Plan
<1>2. CASE kind = "secrets"
  BY <1>2, SecretsApt DEF Plan
<1>3. CASE kind = "audit"
  BY <1>3, AuditApt DEF Plan
<1> QED BY <1>1, <1>2, <1>3, PlainApt, Typed

(***************************************************************************)
(* What a request does to the object, and to the plans.                    *)
(***************************************************************************)
LEMMA MergeIsDict ==
  ASSUME NEW old \in Dicts, NEW new \in Dicts
  PROVE  Merge(old, new) \in Dicts /\ Covers(Merge(old, new), new)
<1>1. PICK D \in SUBSET SettingKeys : old \in [D -> Values]
  BY DEF Dicts
<1>2. PICK E \in SUBSET SettingKeys : new \in [E -> Values]
  BY DEF Dicts
<1>3. Merge(old, new) \in [D \cup E -> Values]
  BY <1>1, <1>2 DEF Merge
<1>4. D \cup E \in SUBSET SettingKeys
  OBVIOUS
<1>5. Covers(Merge(old, new), new)
  BY <1>1, <1>2 DEF Merge, Covers
<1> QED BY <1>3, <1>4, <1>5 DEF Dicts

\* A patch leaves exactly what is declared, if the object has no key that the run did
\* not see and does not declare.
LEMMA PatchedIsDeclared ==
  ASSUME NEW o \in Objects("namespace"), NEW saw, NEW w, w.declared \in Objects("namespace"),
         DOMAIN o.settings \subseteq DOMAIN saw.settings \cup DOMAIN w.declared.settings
  PROVE  Patched(o, saw, w) = [o EXCEPT !.settings = w.declared.settings]
<1> DEFINE new == w.declared.settings
           merged == Merge(o.settings, new)
           kept == DOMAIN merged \ Removed(saw, w)
<1>1. new \in Dicts
  BY DEF Objects, HasSettings
<1>2. PICK D \in SUBSET SettingKeys : new \in [D -> Values]
  BY <1>1 DEF Dicts
<1>3. DOMAIN merged = DOMAIN o.settings \cup DOMAIN new
  BY DEF Merge
<1>4. kept = DOMAIN new
  BY <1>3 DEF Removed
<1>5. \A k \in DOMAIN new : merged[k] = new[k]
  BY DEF Merge
<1>6. [k \in kept |-> merged[k]] = new
  <2> HIDE DEF merged, kept, new
  <2> QED BY <1>2, <1>4, <1>5
<1>7. Patched(o, saw, w) = [o EXCEPT !.settings = [k \in kept |-> merged[k]]]
  BY DEF Patched
<1> HIDE DEF kept, merged
<1> QED BY <1>6, <1>7

\* A request that Vault accepts deletes, does nothing, or makes the object as declared.
LEMMA ResultIs ==
  ASSUME TypeOK, NEW r \in Runs, Planned(r), plan[r] # <<>>,
         ~Refused(Head(plan[r]), object, want), Effect(r), kind' = kind, want' = want
  PROVE  /\ object' \in Objects(kind) \cup {None}
         /\ \/ Head(plan[r]) = "delete" /\ object' = None
            \/ Head(plan[r]) = "accessor" /\ object' = object /\ object # None
            \/ Declares(want) /\ object' # None /\ AsDeclared'
<1> DEFINE h == Head(plan[r])
<1>0. /\ h \in Requests
      /\ want.declared \in Objects(kind) /\ None \notin Objects(kind)
      /\ object \in Objects(kind) \cup {None}
  BY Typed, PlanSteps DEF Planned, Fits
<1>1. CASE h = "delete"
  BY <1>1 DEF Effect, Result
<1>2. CASE h = "accessor"
  BY <1>0, <1>2 DEF Effect, Result, Refused
<1>3. h # "delete" => Declares(want)
  BY DEF Planned, Fits
<1>4. want.declared # None
  BY <1>0
<1>5. Covers(want.declared.settings, want.declared.settings)
      /\ Covers(want.declared.options, want.declared.options)
  BY DEF Covers
<1>6. CASE h \in {"create", "write"}
  <2>1. object' = want.declared
    BY <1>6 DEF Effect, Result
  <2>2. Declares(want) /\ Declares(want)'
    BY <1>3, <1>6 DEF Declares
  <2>3. Usable(object)'
    BY <1>4, <1>5, <2>1 DEF Usable
  <2>4. AsDeclared'
    BY <1>5, <2>1, <2>2, <2>3 DEF AsDeclared
  <2> QED BY <1>0, <1>4, <2>1, <2>2, <2>4
<1>7. CASE h = "tune"
  <2>1. object \in Objects(kind) /\ object # None /\ kind \in {"auth", "secrets"} /\ Usable(object)
    BY <1>0, <1>7 DEF Planned, MayTune, Refused
  <2> DEFINE m == Merge(object.settings, want.declared.settings)
  <2>2. object' = [object EXCEPT !.text = want.declared.text, !.settings = m]
    BY <1>7 DEF Effect, Result
  <2>3. object.settings \in Dicts /\ want.declared.settings \in Dicts
    BY <1>0, <2>1 DEF Objects, HasSettings
  <2>4. m \in Dicts /\ Covers(m, want.declared.settings)
    BY <2>3, MergeIsDict
  <2> HIDE DEF m
  <2>5. /\ object'.type = object.type /\ object'.options = object.options
        /\ object'.text = want.declared.text /\ object'.settings = m
    BY <2>1, <2>2 DEF Objects
  <2>6. object' \in Objects(kind)
    BY <1>0, <2>1, <2>2, <2>4 DEF Objects, HasSettings
  <2>7. object' # None
    BY <1>0, <2>6
  <2>8. Usable(object)'
    BY <2>1, <2>5, <2>7 DEF Usable
  <2>9. Declares(want) /\ Declares(want)'
    BY <1>3, <1>7 DEF Declares
  <2>10. ~Exact(kind) /\ ~Exact(kind)'
    BY <2>1 DEF Exact
  <2>11. AsDeclared'
    BY <2>4, <2>5, <2>8, <2>9, <2>10 DEF AsDeclared
  <2> QED BY <2>6, <2>7, <2>9, <2>11
<1>8. CASE h = "patch"
  <2>1. object \in Objects(kind) /\ object # None /\ kind = "namespace" /\ MayPatch(r)
    BY <1>0, <1>8 DEF Planned, MayPatch, Refused
  <2>2. object' = Patched(object, seen[r], want)
    BY <1>8 DEF Effect, Result
  <2>3. object' = [object EXCEPT !.settings = want.declared.settings]
    BY <1>0, <2>1, <2>2, PatchedIsDeclared DEF MayPatch
  <2>4. /\ object'.type = object.type /\ object'.options = object.options
        /\ object'.text = object.text /\ object'.settings = want.declared.settings
    BY <2>1, <2>3 DEF Objects
  <2>5. object' \in Objects(kind)
    BY <1>0, <2>1, <2>3 DEF Objects
  <2>6. object' # None
    BY <1>0, <2>5
  <2>7. /\ object.type = want.declared.type /\ object.text = want.declared.text
        /\ object.options = want.declared.options
    BY <1>0, <2>1 DEF Objects, HasType, HasText, HasOptions
  <2>8. Usable(object)'
    BY <1>5, <2>4, <2>6, <2>7 DEF Usable
  <2>9. Declares(want) /\ Declares(want)'
    BY <1>3, <1>8 DEF Declares
  <2>10. AsDeclared'
    BY <1>5, <2>4, <2>7, <2>8, <2>9 DEF AsDeclared
  <2> QED BY <2>5, <2>6, <2>9, <2>10
<1> QED BY <1>0, <1>1, <1>2, <1>6, <1>7, <1>8 DEF Requests

\* The plan of a run survives the requests of another.
LEMMA OthersPlanned ==
  ASSUME TypeOK, NEW q \in Runs, Planned(q), kind' = kind, want' = want,
         pc'[q] = pc[q], seen'[q] = seen[q], plan'[q] = plan[q],
         object' = None \/ object' = object \/ (Declares(want) /\ AsDeclared')
  PROVE  Planned(q)' /\ (Mends(q) => Mends(q)') /\ (Owes(q) => Owes(q)')
<1>1. Fits(plan[q])' /\ (MayDelete(q) => MayDelete(q)')
  BY DEF Planned, Fits, MayDelete, Usable, Declares
<1>2. ASSUME MayTune PROVE MayTune'
  <2>1. CASE object' = None
    BY <1>2, <2>1 DEF MayTune
  <2>2. CASE object' = object
    BY <1>2, <2>2 DEF MayTune, Usable
  <2>3. CASE Declares(want) /\ AsDeclared'
    BY <1>2, <2>3 DEF MayTune, AsDeclared, Declares
  <2> QED BY <2>1, <2>2, <2>3
<1>3. ASSUME MayPatch(q) PROVE MayPatch(q)'
  <2>1. CASE object' = None
    BY <1>3, <2>1 DEF MayPatch
  <2>2. CASE object' = object
    BY <1>3, <2>2 DEF MayPatch
  <2>3. CASE Declares(want) /\ AsDeclared'
    <3>1. object'.settings = want.declared.settings
      BY <1>3, <2>3 DEF MayPatch, AsDeclared, Declares, Exact
    <3> QED BY <1>3, <3>1 DEF MayPatch
  <2> QED BY <2>1, <2>2, <2>3
<1>4. Planned(q)'
  BY <1>1, <1>2, <1>3 DEF Planned
<1>5. (Mends(q) => Mends(q)') /\ (Owes(q) => Owes(q)')
  BY DEF Mends, Owes, Writes
<1> QED BY <1>4, <1>5

\* So does that of the run that sends the first of its requests.
LEMMA ActorPlanned ==
  ASSUME NEW r \in Runs, Planned(r), plan[r] # <<>>, kind' = kind, want' = want,
         pc'[r] = "send", plan'[r] = Tail(plan[r])
  PROVE  Planned(r)' /\ plan'[r] \in Seq(Requests)
<1>1. /\ Tail(plan[r]) \in Plans /\ Tail(plan[r]) # <<"delete">>
      /\ Tail(plan[r]) # <<>> => Head(Tail(plan[r])) \in {"create", "accessor"}
      /\ ~Declares(want) => Tail(plan[r]) = <<>>
  BY PlanSteps DEF Planned, Fits
<1>2. plan'[r] \in Seq(Requests)
  BY <1>1, PlanSteps
<1>3. Fits(plan[r])'
  BY <1>1 DEF Fits, Declares
<1>4. plan'[r] # <<>> => Head(plan'[r]) \notin {"delete", "tune", "patch"}
  BY <1>1
<1> QED BY <1>2, <1>3, <1>4 DEF Planned

\* A plan just made from the object as it is.
LEMMA PlanFits ==
  ASSUME NEW r \in Runs, TypeOK, Read(r)
  PROVE  /\ Planned(r)' /\ plan'[r] \in Seq(Requests)
         /\ AsDeclared \/ Writes(plan'[r])
         /\ object = None /\ Declares(want) => OwesIn(plan'[r])
<1> DEFINE P == Plan(kind, object, want)
<1>1. /\ Apt(P) /\ P \in Plans
      /\ plan'[r] = P /\ seen'[r] = object /\ pc'[r] = "send"
      /\ kind' = kind /\ want' = want /\ object' = object
  BY PlanApt DEF Apt, Read, TypeOK
<1> HIDE DEF P
<1>2. Fits(plan[r])'
  <2>1. CASE Declares(want)
    BY <1>1, <2>1 DEF Fits, Apt, Declares
  <2>2. CASE ~Declares(want)
    <3>1. P \in {<<>>, <<"delete">>}
      BY <1>1, <2>2 DEF Apt, If
    <3> QED BY <1>1, <2>2, <3>1 DEF Fits, Declares
  <2> QED BY <2>1, <2>2
<1>3. P # <<>> /\ Head(P) = "delete" => MayDelete(r)'
  <2> SUFFICES ASSUME P # <<>>, Head(P) = "delete", Declares(want)
               PROVE  ~Usable(object) \/ (kind = "audit" /\ object.text # want.declared.text)
    BY <1>1 DEF MayDelete, Declares, Usable
  <2>1. P # <<"delete">>
    BY <1>1 DEF Apt
  <2>2. P \in {<<"delete", "create">>, <<"delete", "create", "accessor">>}
    BY <1>1, <2>1, PlanSteps
  <2> QED BY <1>1, <2>2 DEF Apt
<1>4. P # <<>> /\ Head(P) = "tune" => MayTune'
  <2> SUFFICES ASSUME P # <<>>, Head(P) = "tune" PROVE MayTune
    BY <1>1 DEF MayTune, Usable
  <2>1. P \in {<<"tune">>, <<"tune", "accessor">>}
    BY <1>1, PlanSteps
  <2>2. Declares(want)
    BY <1>1, <2>1 DEF Apt, If
  <2> QED BY <1>1, <2>1, <2>2 DEF Apt, MayTune
<1>5. P # <<>> /\ Head(P) = "patch" => MayPatch(r)'
  <2> SUFFICES ASSUME P # <<>>, Head(P) = "patch" PROVE kind = "namespace"
    BY <1>1 DEF MayPatch
  <2>1. P = <<"patch">>
    BY <1>1, PlanSteps
  <2>2. Declares(want)
    BY <1>1, <2>1 DEF Apt, If
  <2> QED BY <1>1, <2>1, <2>2 DEF Apt
<1>6. Planned(r)'
  BY <1>1, <1>2, <1>3, <1>4, <1>5 DEF Planned
<1>7. AsDeclared \/ Writes(P)
  <2>1. CASE P \notin {<<>>, <<"accessor">>}
    BY <1>1, <2>1, PlanSteps
  <2>2. CASE P \in {<<>>, <<"accessor">>} /\ Declares(want)
    BY <1>1, <2>2 DEF Apt
  <2>3. CASE P \in {<<>>, <<"accessor">>} /\ ~Declares(want)
    <3>1. object = None
      BY <1>1, <2>3 DEF Apt, If
    <3> QED BY <2>3, <3>1 DEF AsDeclared
  <2> QED BY <2>1, <2>2, <2>3
<1>8. object = None /\ Declares(want) => OwesIn(P)
  BY <1>1, PlanSteps DEF Apt
<1> QED BY <1>1, <1>6, <1>7, <1>8, PlanSteps

(***************************************************************************)
(* The steps.                                                              *)
(***************************************************************************)
LEMMA InitOInv == Init => OInv
<1> SUFFICES ASSUME Init PROVE OInv
  OBVIOUS
<1>1. TypeOK
  <2>1. plan \in [Runs -> Seq(Requests)]
    BY DEF Init
  <2>2. failures \in 0 .. MaxFailures
    BY MaxFailuresAssumption DEF Init
  <2> QED BY <2>1, <2>2 DEF Init, TypeOK
<1>2. \A r \in Runs : Planned(r)
  BY DEF Init, Planned, Fits, Plans
<1>3. \A r \in Runs : pc[r] = "idle"
  BY DEF Init
<1> QED BY <1>1, <1>2, <1>3 DEF OInv, Mended, NoSilentLoss

\* A run that only reads keeps the invariant if its plan makes the object as declared.
LEMMA ReadStep ==
  ASSUME OInv, NEW r \in Runs, UNCHANGED <<kind, want, object>>,
         \A q \in Runs \ {r} : pc'[q] = pc[q] /\ seen'[q] = seen[q] /\ plan'[q] = plan[q],
         TypeOK', Planned(r)',
         \/ AsDeclared /\ (object # None \/ ~Declares(want))
         \/ Writes(plan'[r]) /\ (object = None /\ Declares(want) => OwesIn(plan'[r]))
  PROVE  OInv'
<1>1. \A q \in Runs : Planned(q)'
  BY OthersPlanned DEF OInv
<1>2. Mended'
  <2>1. CASE Writes(plan'[r])
    <3>1. Mends(r)'
      BY <2>1 DEF Mends, Writes
    <3> QED BY <3>1 DEF Mended
  <2>2. CASE AsDeclared
    BY <2>2 DEF Mended, AsDeclared, Usable, Declares, Exact
  <2> QED BY <2>1, <2>2
<1>3. NoSilentLoss'
  <2>1. CASE object # None \/ ~Declares(want)
    BY <2>1 DEF NoSilentLoss, Declares
  <2>2. CASE OwesIn(plan'[r])
    <3>1. Owes(r)'
      BY <2>2 DEF Owes, OwesIn
    <3> QED BY <3>1 DEF NoSilentLoss
  <2> QED BY <2>1, <2>2
<1> QED BY <1>1, <1>2, <1>3 DEF OInv

\* What happens to the object when a run ends, its last request done or not.
LEMMA Failing ==
  ASSUME OInv, NEW r \in Runs, Fail(r), failures' \in 0 .. MaxFailures,
         \/ UNCHANGED object
         \/ Sends(r) /\ ~Refused(Head(plan[r]), object, want) /\ Effect(r)
  PROVE  OInv'
<1>1. /\ pc'[r] = "failed" /\ plan'[r] = <<>> /\ kind' = kind /\ want' = want
      /\ \A q \in Runs \ {r} : pc'[q] = pc[q] /\ seen'[q] = seen[q] /\ plan'[q] = plan[q]
  BY DEF OInv, TypeOK, Fail
<1>2. /\ object' \in Objects(kind) \cup {None}
      /\ object' = None \/ object' = object \/ (Declares(want) /\ AsDeclared')
  <2>1. CASE UNCHANGED object
    BY <2>1 DEF OInv, TypeOK
  <2>2. CASE Sends(r) /\ ~Refused(Head(plan[r]), object, want) /\ Effect(r)
    BY <1>1, <2>2, ResultIs DEF OInv, Sends
  <2> QED BY <2>1, <2>2
<1>3. TypeOK'
  <2>1. <<>> \in Seq(Requests)
    OBVIOUS
  <2>2. plan' \in [Runs -> Seq(Requests)]
    BY <2>1 DEF OInv, TypeOK, Fail
  <2> QED BY <1>2, <2>2 DEF OInv, TypeOK, Fail
<1>4. Planned(r)'
  BY <1>1 DEF Planned, Fits, Plans
<1>5. \A q \in Runs : Planned(q)'
  BY <1>1, <1>2, <1>4, OthersPlanned DEF OInv
<1>6. Mended' /\ NoSilentLoss'
  BY <1>1 DEF Mended, Mends, NoSilentLoss
<1> QED BY <1>3, <1>5, <1>6 DEF OInv

LEMMA Requesting ==
  ASSUME OInv, NEW r \in Runs, Request(r)
  PROVE  OInv'
<1>0. /\ TypeOK /\ Planned(r) /\ plan[r] \in Plans /\ plan[r] # <<>> /\ pc[r] = "send"
      /\ kind' = kind /\ want' = want /\ pc' = pc /\ seen' = seen /\ changed' = changed
      /\ failures' = failures
      /\ plan' = [plan EXCEPT ![r] = Tail(@)]
  BY DEF OInv, Planned, Fits, Request, Sends
<1>1. plan'[r] = Tail(plan[r]) /\ \A q \in Runs \ {r} : plan'[q] = plan[q]
  BY <1>0 DEF TypeOK
<1>2. /\ object' \in Objects(kind) \cup {None}
      /\ \/ Head(plan[r]) = "delete" /\ object' = None
         \/ Head(plan[r]) = "accessor" /\ object' = object /\ object # None
         \/ Declares(want) /\ object' # None /\ AsDeclared'
  BY <1>0, ResultIs DEF Request
<1>3. Planned(r)' /\ plan'[r] \in Seq(Requests)
  BY <1>0, <1>1, ActorPlanned
<1>4. TypeOK'
  <2>1. plan' \in [Runs -> Seq(Requests)]
    BY <1>0, <1>1, <1>3 DEF TypeOK
  <2> QED BY <1>0, <1>2, <2>1 DEF TypeOK
<1>5. \A q \in Runs \ {r} : Planned(q)' /\ (Mends(q) => Mends(q)') /\ (Owes(q) => Owes(q)')
  BY <1>0, <1>1, <1>2, OthersPlanned DEF OInv
<1>6. CASE Head(plan[r]) = "delete" /\ object' = None
  <2>1. CASE Declares(want)
    <3>1. OwesIn(Tail(plan[r])) /\ Tail(plan[r]) \in Plans
      BY <1>0, <1>6, <2>1, PlanSteps DEF Planned, Fits
    <3>2. OwesIn(plan'[r]) /\ Writes(plan'[r])
      BY <1>1, <3>1, PlanSteps
    <3>3. Owes(r)' /\ Mends(r)'
      BY <3>2 DEF Owes, OwesIn, Mends, Writes
    <3> QED BY <1>3, <1>4, <1>5, <3>3 DEF OInv, Mended, NoSilentLoss
  <2>2. CASE ~Declares(want)
    <3>1. AsDeclared' /\ ~Declares(want)'
      BY <1>0, <1>6, <2>2 DEF AsDeclared, Declares
    <3> QED BY <1>3, <1>4, <1>5, <3>1 DEF OInv, Mended, NoSilentLoss
  <2> QED BY <2>1, <2>2
<1>7. CASE Head(plan[r]) = "accessor" /\ object' = object /\ object # None
  <2>1. ~Mends(r)
    BY <1>0, <1>7, PlanSteps DEF Mends
  <2>2. AsDeclared \/ \E q \in Runs \ {r} : Mends(q)
    BY <1>0, <2>1 DEF OInv, Mended
  <2>3. AsDeclared => AsDeclared'
    BY <1>0, <1>7 DEF AsDeclared, Usable, Declares, Exact
  <2>4. Mended'
    BY <1>5, <2>2, <2>3 DEF Mended
  <2> QED BY <1>3, <1>4, <1>5, <1>7, <2>4 DEF OInv, NoSilentLoss
<1>8. CASE Declares(want) /\ object' # None /\ AsDeclared'
  BY <1>3, <1>4, <1>5, <1>8 DEF OInv, Mended, NoSilentLoss
<1> QED BY <1>2, <1>6, <1>7, <1>8

LEMMA WritesOrNot == ASSUME NEW requests PROVE Writes(requests) \in BOOLEAN
  BY DEF Writes

LEMMA Reading == ASSUME OInv, NEW r \in Runs, Read(r) PROVE OInv'
<1>1. /\ Planned(r)' /\ plan'[r] \in Seq(Requests)
      /\ AsDeclared \/ Writes(plan'[r])
      /\ object = None /\ Declares(want) => OwesIn(plan'[r])
  BY PlanFits DEF OInv
<1>2. /\ \A q \in Runs \ {r} : pc'[q] = pc[q] /\ seen'[q] = seen[q] /\ plan'[q] = plan[q]
      /\ plan' \in [Runs -> Seq(Requests)]
      /\ UNCHANGED <<kind, want, object>>
  <2> DEFINE P == Plan(kind, object, want)
  <2> HIDE DEF P
  <2>1. plan' = [plan EXCEPT ![r] = P] /\ plan'[r] = P
    BY DEF Read, OInv, TypeOK, P
  <2> QED BY <1>1, <2>1 DEF Read, OInv, TypeOK
<1>3. changed' \in [Runs -> BOOLEAN]
  <2> DEFINE c == Writes(Plan(kind, object, want))
  <2>1. c \in BOOLEAN /\ changed' = [changed EXCEPT ![r] = c]
    BY WritesOrNot DEF Read
  <2> HIDE DEF c
  <2> QED BY <2>1 DEF OInv, TypeOK
<1>4. TypeOK'
  BY <1>2, <1>3 DEF Read, OInv, TypeOK
<1>5. AsDeclared => object # None \/ ~Declares(want)
  BY DEF AsDeclared, Usable
<1> QED BY <1>1, <1>2, <1>4, <1>5, ReadStep

LEMMA Starting == ASSUME OInv, NEW r \in Runs, Start(r) PROVE OInv'
<1>1. /\ pc'[r] = "read" /\ plan'[r] = <<>>
      /\ \A q \in Runs \ {r} : pc'[q] = pc[q] /\ seen'[q] = seen[q] /\ plan'[q] = plan[q]
      /\ UNCHANGED <<kind, want, object>>
  BY DEF OInv, TypeOK, Start
<1>2. TypeOK'
  <2>1. <<>> \in Seq(Requests)
    OBVIOUS
  <2>2. plan' \in [Runs -> Seq(Requests)]
    BY <2>1 DEF OInv, TypeOK, Start
  <2> QED BY <2>2 DEF OInv, TypeOK, Start
<1>3. Planned(r)'
  BY <1>1 DEF Planned, Fits, Plans
<1>4. \A q \in Runs : Planned(q)'
  BY <1>1, <1>3, OthersPlanned DEF OInv
<1>5. Mended' /\ NoSilentLoss'
  BY <1>1 DEF Mended, Mends, NoSilentLoss
<1> QED BY <1>2, <1>4, <1>5 DEF OInv

LEMMA Exiting == ASSUME OInv, NEW r \in Runs, Exit(r) PROVE OInv'
<1>1. /\ pc[r] = "send" /\ plan[r] = <<>> /\ plan' = plan /\ pc'[r] = "done"
      /\ \A q \in Runs \ {r} : pc'[q] = pc[q] /\ seen'[q] = seen[q]
      /\ kind' = kind /\ want' = want /\ object' = object
  BY DEF OInv, TypeOK, Exit
<1>2. TypeOK'
  BY DEF OInv, TypeOK, Exit
<1>3. Planned(r)'
  BY <1>1 DEF Planned, Fits, Plans
<1>4. \A q \in Runs \ {r} : Planned(q)' /\ (Mends(q) => Mends(q)') /\ (Owes(q) => Owes(q)')
  BY <1>1, OthersPlanned DEF OInv
<1>5. ~Mends(r) /\ ~Owes(r)
  BY <1>1, PlanSteps DEF Mends, Owes, Writes, Plans
<1>6. AsDeclared => AsDeclared'
  BY <1>1 DEF AsDeclared, Usable, Declares, Exact
<1>7. Mended'
  <2>1. AsDeclared \/ \E q \in Runs \ {r} : Mends(q)
    BY <1>1, <1>5 DEF OInv, Mended
  <2> QED BY <1>4, <1>6, <2>1 DEF Mended
<1>8. NoSilentLoss'
  <2> SUFFICES ASSUME object = None, Declares(want) PROVE NoSilentLoss'
    BY <1>1 DEF NoSilentLoss, Declares
  <2>1. PICK q \in Runs \ {r} : pc[q] \in {"read", "failed"} \/ Owes(q)
    BY <1>1, <1>5 DEF OInv, NoSilentLoss
  <2>2. pc'[q] \in {"read", "failed"} \/ Owes(q)'
    BY <1>1, <1>4, <2>1
  <2> QED BY <2>2 DEF NoSilentLoss
<1> QED BY <1>2, <1>3, <1>4, <1>7, <1>8 DEF OInv

LEMMA OInvStep == OInv /\ [Next]_vars => OInv'
<1> SUFFICES ASSUME OInv, [Next]_vars PROVE OInv'
  OBVIOUS
<1>1. ASSUME NEW r \in Runs, Start(r) PROVE OInv'
  BY <1>1, Starting
<1>2. ASSUME NEW r \in Runs, Read(r) PROVE OInv'
  BY <1>2, Reading
<1>3. ASSUME NEW r \in Runs, Request(r) PROVE OInv'
  BY <1>3, Requesting
<1>4. ASSUME NEW r \in Runs, RequestRefused(r) PROVE OInv'
  BY <1>4, Failing DEF RequestRefused, OInv, TypeOK
<1>5. ASSUME NEW r \in Runs, RequestFails(r) PROVE OInv'
  <2>1. failures' \in 0 .. MaxFailures
    BY <1>5, MaxFailuresAssumption DEF RequestFails, OInv, TypeOK
  <2> QED BY <1>5, <2>1, Failing DEF RequestFails
<1>6. ASSUME NEW r \in Runs, Exit(r) PROVE OInv'
  BY <1>6, Exiting
<1>7. CASE UNCHANGED vars
  BY <1>7 DEF vars, OInv, TypeOK, Planned, Fits, MayDelete, MayTune, MayPatch, Mended, Mends,
              NoSilentLoss, Owes, Writes, AsDeclared, Usable, Declares, Exact
<1> QED BY <1>1, <1>2, <1>3, <1>4, <1>5, <1>6, <1>7 DEF Next, RunStep

(***************************************************************************)
(* The theorems.                                                           *)
(***************************************************************************)
\* The inductive invariant, for overlapping runs of a playbook.
THEOREM OInvHolds == Spec => []OInv
<1> QED BY InitOInv, OInvStep, PTL DEF Spec

\* Objects and requests are what Vault's interface takes.
THEOREM TypeCorrect == Spec => []TypeOK
<1>1. OInv => TypeOK
  BY DEF OInv
<1> QED BY <1>1, OInvHolds, PTL

\* When all have ended well nobody has a request left, and so the object is declared.
LEMMA AllSucceededIsDeclared == OInv => DeclaredWhenDone
<1> SUFFICES ASSUME OInv, AllSucceeded PROVE AsDeclared
  BY DEF DeclaredWhenDone
<1>1. ASSUME NEW r \in Runs PROVE ~Mends(r)
  <2>1. pc[r] \in {"idle", "done"} /\ plan[r] = <<>>
    BY <1>1 DEF OInv, Planned, AllSucceeded
  <2>2. ~Writes(<<>>)
    BY DEF Writes
  <2> QED BY <2>1, <2>2 DEF Mends
<1> QED BY <1>1 DEF OInv, Mended, AllSucceeded

\* Vault is as the task says once every run of it has succeeded, whatever the order of
\* their requests and whatever failed before them (vault_auth_method.py,
\* vault_secrets_engine.py, vault_audit.py and the others, main).
THEOREM DeclaredAtLast == Spec => []DeclaredWhenDone
<1> QED BY OInvHolds, AllSucceededIsDeclared, PTL

\* One more run would send nothing that writes.
THEOREM Settled == Spec => []SettledWhenDone
<1>1. OInv => SettledWhenDone
  <2> SUFFICES ASSUME OInv, AllSucceeded, want.state # "updated", Repeatable
               PROVE  ~Writes(Plan(kind, object, want))
    BY DEF SettledWhenDone
  <2>1. AsDeclared
    BY AllSucceededIsDeclared DEF DeclaredWhenDone
  <2>2. Apt(Plan(kind, object, want))
    BY PlanApt DEF OInv
  <2>3. /\ Plan(kind, object, want) \in Plans
        /\ Plan(kind, object, want) \in {<<>>, <<"accessor">>}
    BY <2>1, <2>2 DEF Apt
  <2> QED BY <2>3, PlanSteps
<1> QED BY <1>1, OInvHolds, PTL

\* A declared object that is missing is about to be created, or somebody has been told.
THEOREM NothingLostSilently == Spec => []NoSilentLoss
<1>1. OInv => NoSilentLoss
  BY DEF OInv
<1> QED BY <1>1, OInvHolds, PTL

\* Only a run deletes the object, by a request it decided on when it saw an object that
\* no other request could make usable.
LEMMA Destroying ==
  ASSUME OInv, NEW r \in Runs, Sends(r), ~Refused(Head(plan[r]), object, want), Effect(r),
         kind' = kind, want' = want, object # None, object' = None, Declares(want)
  PROVE  ~Usable(seen[r]) \/ (kind = "audit" /\ seen[r].text # want.declared.text)
<1>1. TypeOK /\ Planned(r) /\ plan[r] # <<>>
  BY DEF OInv, Sends
<1>2. Head(plan[r]) = "delete"
  BY <1>1, ResultIs
<1> QED BY <1>1, <1>2 DEF Planned, MayDelete

\* A run that saw the object could be kept does not delete it (the decisions of
\* vault_auth_method.py, vault_secrets_engine.py and vault_audit.py, main).
THEOREM OnlyUnusableDestroyed == Spec => DestroysOnlyUnusable
<1> DEFINE Keeps ==
      \A r \in Runs :
        object # None /\ object' = None /\ plan'[r] # plan[r] /\ Declares(want) =>
          \/ ~Usable(seen[r])
          \/ kind = "audit" /\ seen[r].text # want.declared.text
<1>1. OInv /\ [Next]_vars => Keeps
  <2> SUFFICES ASSUME OInv, [Next]_vars, NEW q \in Runs,
                      object # None, object' = None, plan'[q] # plan[q], Declares(want)
               PROVE  \/ ~Usable(seen[q])
                      \/ kind = "audit" /\ seen[q].text # want.declared.text
    OBVIOUS
  <2>1. PICK r \in Runs : Request(r) \/ RequestFails(r)
    BY DEF vars, Next, RunStep, Start, Read, RequestRefused, Exit
  <2>2. q = r
    BY <2>1 DEF OInv, TypeOK, Request, RequestFails, Fail
  <2>3. Sends(r) /\ ~Refused(Head(plan[r]), object, want) /\ Effect(r)
    BY <2>1 DEF Request, RequestFails
  <2>4. kind' = kind /\ want' = want
    BY <2>1 DEF Request, RequestFails, Fail
  <2> QED BY <2>2, <2>3, <2>4, Destroying
<1> QED BY <1>1, OInvHolds, PTL DEF Spec, DestroysOnlyUnusable

(***************************************************************************)
(* Users and what they may do: Identity.                                   *)
(*                                                                         *)
(* Ids are given once, so what a play has found is of the name it looked   *)
(* for, or gone, however long ago that was.  Of a play that nobody with    *)
(* another declaration or a deletion has disturbed since it began, what it *)
(* has dealt with stays as declared: others at work only do the same.      *)
(***************************************************************************)
AliasType == [id : Nat, user : Users, entity : Nat]
PlayStages ==
  {"idle", "list", "unlist", "alias", "create", "write", "group", "members", "member", "store",
   "remove", "done", "failed"}
PlayType ==
  [pc : PlayStages, listed : SUBSET AliasType, todo : SUBSET (Nat \cup Users \cup Names),
   user : Users \cup Names \cup {Nothing}, entity : Nat, step : Nat \ {0},
   existing : StoredType \cup {Nothing}, ids : SUBSET Nat]

EntitiesTyped ==
  /\ lastId \in Nat /\ DOMAIN entities \subseteq 1..lastId
  /\ \A i \in DOMAIN entities : entities[i] \in Names \cup {Nothing}
  /\ \A i, j \in DOMAIN entities : entities[i] = entities[j] /\ entities[i] # Nothing => i = j
AliasesTyped ==
  /\ aliases \subseteq AliasType /\ \A a \in aliases : a.entity \in DOMAIN entities
  /\ \A a, b \in aliases : a.id = b.id \/ a.user = b.user => a = b
\* Groups are of named entities.
GroupsTyped ==
  /\ groups \in [Groups -> StoredType \cup {Nothing}]
  /\ \A g \in Groups : groups[g] # Nothing =>
       \A i \in groups[g].members : i \in DOMAIN entities /\ entities[i] \in Names
PlaysTyped == play \in [Plays -> PlayType] /\ undisturbed \subseteq Plays
WellTyped == EntitiesTyped /\ AliasesTyped /\ GroupsTyped /\ PlaysTyped

\* An id that was given to the name: no other entity has it or will have it.
Called(i, n) == i \in 1..lastId /\ (i \in DOMAIN entities => entities[i] = n)

\* Every id found is of a member, and every member that was looked for has an id.
MembersFound(p) ==
  /\ play[p].todo \subseteq Wanted(p).members
  /\ \A i \in play[p].ids : \E n \in Wanted(p).members : Called(i, n)
  /\ \A n \in Wanted(p).members \ play[p].todo : \E i \in play[p].ids : Called(i, n)

\* What a play works with, whatever else is at work.
PlaySound(p) ==
  /\ play[p].pc = "unlist" =>
       \A a \in aliases : a.id \in play[p].todo => a.user \notin Mapped(p)
  /\ play[p].pc \in {"alias", "create", "write"} => play[p].todo \subseteq Mapped(p)
  /\ play[p].pc \in {"create", "write"} => play[p].user \in Mapped(p)
  /\ play[p].pc = "write" => Called(play[p].entity, Decl(p).alias[play[p].user])
  /\ play[p].pc \in {"members", "member", "store"} =>
       MoreGroups(p) /\ Wanted(p) # Nothing /\ MembersFound(p)
  /\ play[p].pc = "member" => play[p].user \in play[p].todo
  /\ play[p].pc = "store" => play[p].todo = {}
  /\ play[p].pc \notin {"members", "member", "store"} => play[p].ids = {}
  /\ play[p].pc = "remove" => MoreGroups(p) /\ Wanted(p) = Nothing
  /\ \A a \in play[p].listed : a.entity \in 1..lastId

\* A declaration d come true, of a user and of a group; deleted groups are in none.
HasAlias(d, u) == \E a \in aliases : a.user = u /\ entities[a.entity] = d.alias[u]
Kept(d) == {g \in Groups : d.group[g] # Nothing}
SetUp(d, g) ==
  IF d.group[g] = Nothing THEN groups[g] = Nothing
  ELSE /\ groups[g] # Nothing
       /\ groups[g].policies = d.group[g].policies
       /\ groups[g].subgroups \cap Kept(d) = d.group[g].subgroups \cap Kept(d)
       /\ \A i \in DOMAIN entities :
            i \in groups[g].members <=> entities[i] \in d.group[g].members
       /\ \A n \in d.group[g].members : IdOf(n) # {}

Mapping == {"alias", "create", "write"}
Later == Mapping \cup {"group", "members", "member", "store", "remove", "done"}
\* Users whose aliases are still to be dealt with.
Unmapped(r) ==
  IF play[r].pc \notin Mapping THEN {}
  ELSE play[r].todo \cup (IF play[r].pc = "alias" THEN {} ELSE {play[r].user})

AliasesSure(r) ==
  /\ play[r].pc = "unlist" =>
       \A a \in aliases : a.user \notin Mapped(r) =>
         a.id \in play[r].todo \/ entities[a.entity] = Nothing
  /\ play[r].pc \in Later =>
       \A a \in aliases : a.user \notin Mapped(r) => entities[a.entity] = Nothing
  /\ \A a \in play[r].listed :
       /\ a.user \in Mapped(r) /\ a.entity \in DOMAIN entities
       /\ entities[a.entity] = Decl(r).alias[a.user]
       => HasAlias(Decl(r), a.user)
  /\ play[r].pc \in Later => \A u \in Mapped(r) \ Unmapped(r) : HasAlias(Decl(r), u)

\* The group is as the play read it, but for groups deleted since.
AsRead(d, g, had) ==
  /\ groups[g] # Nothing
  /\ groups[g].policies = had.policies /\ groups[g].members = had.members
  /\ groups[g].subgroups \cap Kept(d) = had.subgroups \cap Kept(d)

GroupsSure(r) ==
  /\ \A k \in 1..Len(Decl(r).order) :
       k < play[r].step \/ play[r].pc = "done" => SetUp(Decl(r), Decl(r).order[k])
  /\ play[r].pc \in {"members", "member"} /\ play[r].existing # Nothing =>
       \/ SetUp(Decl(r), GroupOf(r))
       \/ AsRead(Decl(r), GroupOf(r), play[r].existing)

\* What is certain of a play while nobody else makes changes of another kind.
Certain(r) ==
  /\ \A p \in Plays : ~Idle(p) => Decl(p) = Decl(r)
  /\ AliasesSure(r) /\ GroupsSure(r)

GInv == WellTyped /\ (\A p \in Plays : PlaySound(p)) /\ \A r \in undisturbed : Certain(r)

\* A new alias has an id that no other has had while anybody remembers it.
Room == \E n \in Ids : n \notin {a.id : a \in aliases} \cup UNION {play[r].todo : r \in Plays}

-----------------------------------------------------------------------------
(***************************************************************************)
(* Declarations.                                                           *)
(***************************************************************************)
LEMMA DeclTyped ==
  ASSUME NEW r \in Plays
  PROVE  /\ Decl(r).alias \in [Users -> Names \cup {Nothing}]
         /\ Decl(r).order \in Seq(Groups)
         /\ Decl(r).group \in [Groups -> GroupType \cup {Nothing}]
  BY DeclaredAssumption DEF Decl, DeclaredType

LEMMA WantedTyped ==
  ASSUME NEW r \in Plays, WellTyped, MoreGroups(r)
  PROVE  /\ GroupOf(r) \in Groups
         /\ Wanted(r) = Decl(r).group[GroupOf(r)] /\ Wanted(r) \in GroupType \cup {Nothing}
<1>1. play[r].step \in 1..Len(Decl(r).order)
  BY DeclTyped DEF WellTyped, PlaysTyped, PlayType, MoreGroups
<1>2. GroupOf(r) \in Groups
  BY <1>1, DeclTyped DEF GroupOf
<1> QED BY <1>2, DeclTyped DEF Wanted

(***************************************************************************)
(* What the steps of others leave alone.                                   *)
(***************************************************************************)
\* No id is given twice.
EntitiesStep ==
  /\ lastId' \in Nat /\ lastId <= lastId'
  /\ \A i \in DOMAIN entities' : i \in 1..lastId' /\
       (i <= lastId => i \in DOMAIN entities /\ entities'[i] = entities[i])

\* New entities have no name or a new one.
EntitiesGrow ==
  /\ EntitiesStep
  /\ DOMAIN entities \subseteq DOMAIN entities'
  /\ \A i \in DOMAIN entities' \ DOMAIN entities :
       entities'[i] = Nothing \/ IdOf(entities'[i]) = {}

LEMMA StaysCalled ==
  ASSUME WellTyped, EntitiesStep, NEW i, NEW n, Called(i, n)
  PROVE  Called(i, n)'
  BY DEF WellTyped, EntitiesTyped, EntitiesStep, Called

LEMMA OthersSound ==
  ASSUME WellTyped, EntitiesStep, NEW p \in Plays, PlaySound(p), play'[p] = play[p],
         \A a \in aliases' : \/ a.id \notin play[p].todo
                             \/ \E b \in aliases : b.id = a.id /\ b.user = a.user
  PROVE  PlaySound(p)'
<1>1. Wanted(p)' = Wanted(p) /\ (MoreGroups(p)' <=> MoreGroups(p)) /\ Mapped(p)' = Mapped(p)
      /\ Decl(p)' = Decl(p)
  BY DEF Wanted, GroupOf, MoreGroups, Mapped, Decl
<1>2. (play[p].pc = "unlist" =>
         \A a \in aliases : a.id \in play[p].todo => a.user \notin Mapped(p))'
  BY <1>1 DEF PlaySound
<1>3. (play[p].pc = "write" => Called(play[p].entity, Decl(p).alias[play[p].user]))'
  BY <1>1, StaysCalled DEF PlaySound
<1>4. MembersFound(p) => MembersFound(p)'
  BY <1>1, StaysCalled DEF MembersFound
<1>5. (\A a \in play[p].listed : a.entity \in 1..lastId)'
  BY DEF PlaySound, WellTyped, EntitiesTyped, EntitiesStep
<1> QED BY <1>1, <1>2, <1>3, <1>4, <1>5 DEF PlaySound

LEMMA AliasesStay ==
  ASSUME WellTyped, EntitiesGrow, NEW r \in Plays, AliasesSure(r), play'[r] = play[r],
         \A a \in play[r].listed : a.entity \in 1..lastId,
         \A a \in aliases' : \/ entities'[a.entity] = Nothing
                             \/ a.user \in Mapped(r)
                             \/ a \in aliases,
         \A u \in Mapped(r) : HasAlias(Decl(r), u) => HasAlias(Decl(r), u)'
  PROVE  AliasesSure(r)'
<1>1. Mapped(r)' = Mapped(r) /\ Decl(r)' = Decl(r) /\ Unmapped(r)' = Unmapped(r)
  BY DEF Mapped, Decl, Unmapped
<1>2. \A a \in aliases : entities'[a.entity] = entities[a.entity]
  BY DEF WellTyped, AliasesTyped, EntitiesTyped, EntitiesGrow, EntitiesStep
<1>3. ASSUME NEW a \in play[r].listed, a.entity \in DOMAIN entities'
      PROVE  a.entity \in DOMAIN entities /\ entities'[a.entity] = entities[a.entity]
  BY <1>3 DEF WellTyped, EntitiesTyped, EntitiesGrow, EntitiesStep
<1>4. (play[r].pc = "unlist" =>
         \A a \in aliases : a.user \notin Mapped(r) =>
           a.id \in play[r].todo \/ entities[a.entity] = Nothing)'
  BY <1>1, <1>2 DEF AliasesSure
<1>5. (play[r].pc \in Later =>
         \A a \in aliases : a.user \notin Mapped(r) => entities[a.entity] = Nothing)'
  BY <1>1, <1>2 DEF AliasesSure
<1>6. (\A a \in play[r].listed :
         /\ a.user \in Mapped(r) /\ a.entity \in DOMAIN entities
         /\ entities[a.entity] = Decl(r).alias[a.user]
         => HasAlias(Decl(r), a.user))'
  BY <1>1, <1>3 DEF AliasesSure
<1>7. (play[r].pc \in Later => \A u \in Mapped(r) \ Unmapped(r) : HasAlias(Decl(r), u))'
  BY <1>1 DEF AliasesSure
<1> QED BY <1>4, <1>5, <1>6, <1>7 DEF AliasesSure

\* Groups change to what is declared, or lose groups that are to be deleted.
GroupStep(d, g) ==
  \/ groups'[g] = groups[g]
  \/ SetUp(d, g)'
  \/ /\ groups[g] # Nothing /\ groups'[g] # Nothing
     /\ groups'[g].policies = groups[g].policies /\ groups'[g].members = groups[g].members
     /\ groups'[g].subgroups \cap Kept(d) = groups[g].subgroups \cap Kept(d)

LEMMA StaysDeclared ==
  ASSUME WellTyped, EntitiesGrow, NEW r \in Plays, NEW g \in Groups, SetUp(Decl(r), g),
         GroupStep(Decl(r), g)
  PROVE  SetUp(Decl(r), g)'
<1> DEFINE d == Decl(r)
<1>0. d' = d /\ Kept(d)' = Kept(d)
  BY DEF Decl, Kept
<1> SUFFICES ASSUME ~SetUp(d, g)' PROVE FALSE
  OBVIOUS
<1>1. CASE d.group[g] = Nothing
  BY <1>0, <1>1 DEF SetUp, GroupStep
<1>2. CASE d.group[g] # Nothing
  <2>1. groups[g] # Nothing /\ groups'[g] # Nothing
        /\ groups'[g].policies = groups[g].policies /\ groups'[g].members = groups[g].members
        /\ groups'[g].subgroups \cap Kept(d) = groups[g].subgroups \cap Kept(d)
    BY <1>2 DEF SetUp, GroupStep
  <2>2. \A n \in d.group[g].members : IdOf(n) # {} /\ IdOf(n)' # {}
    BY <1>2 DEF SetUp, IdOf, EntitiesGrow, EntitiesStep, WellTyped, EntitiesTyped
  <2>3. \A i \in DOMAIN entities : i \in DOMAIN entities' /\ entities'[i] = entities[i]
    BY DEF EntitiesGrow, EntitiesStep, WellTyped, EntitiesTyped
  <2>4. d.group[g].members \subseteq Names
    BY <1>2, DeclTyped DEF GroupType
  <2>5. ASSUME NEW i \in DOMAIN entities' \ DOMAIN entities
        PROVE  i \notin groups[g].members /\ entities'[i] \notin d.group[g].members
    BY <2>1, <2>2, <2>4, NothingAssumption DEF EntitiesGrow, WellTyped, GroupsTyped
  <2>6. \A i \in DOMAIN entities' :
          i \in groups'[g].members <=> entities'[i] \in d.group[g].members
    BY <1>2, <2>1, <2>3, <2>5 DEF SetUp
  <2>7. SetUp(d, g)'
    BY <1>0, <1>2, <2>1, <2>2, <2>6 DEF SetUp
  <2> QED BY <2>7
<1> QED BY <1>1, <1>2

LEMMA GroupsStay ==
  ASSUME WellTyped, EntitiesGrow, NEW r \in Plays, PlaySound(r), GroupsSure(r), play'[r] = play[r],
         \A g \in Groups : GroupStep(Decl(r), g)
  PROVE  GroupsSure(r)'
<1>1. Decl(r)' = Decl(r) /\ GroupOf(r)' = GroupOf(r) /\ Kept(Decl(r))' = Kept(Decl(r))
  BY DEF Decl, GroupOf, Kept
<1>2. \A k \in 1..Len(Decl(r).order) : Decl(r).order[k] \in Groups
  BY DeclTyped
<1>3. (\A k \in 1..Len(Decl(r).order) :
         k < play[r].step \/ play[r].pc = "done" => SetUp(Decl(r), Decl(r).order[k]))'
  BY <1>1, <1>2, StaysDeclared DEF GroupsSure
<1>4. ASSUME play[r].pc \in {"members", "member"}, play[r].existing # Nothing
      PROVE  (SetUp(Decl(r), GroupOf(r)) \/ AsRead(Decl(r), GroupOf(r), play[r].existing))'
  <2>1. GroupOf(r) \in Groups
    BY <1>4, WantedTyped DEF PlaySound
  <2>2. CASE SetUp(Decl(r), GroupOf(r))
    BY <1>1, <2>1, <2>2, StaysDeclared
  <2>3. CASE AsRead(Decl(r), GroupOf(r), play[r].existing)
    BY <1>1, <2>1, <2>3 DEF AsRead, GroupStep
  <2> QED BY <1>4, <2>2, <2>3 DEF GroupsSure
<1> QED BY <1>3, <1>4 DEF GroupsSure

\* A step of a play that changes what is declared of users and groups for the better at
\* most: all that is certain of other plays stays so.
LEMMA Onward ==
  ASSUME GInv, NEW p \in Plays, ~Idle(p), undisturbed' = undisturbed, EntitiesGrow,
         \A q \in Plays \ {p} : play'[q] = play[q],
         \A q \in Plays \ {p}, a \in aliases' :
           a.id \notin play[q].todo \/ \E b \in aliases : b.id = a.id /\ b.user = a.user,
         \A a \in aliases' :
           entities'[a.entity] = Nothing \/ a.user \in Mapped(p) \/ a \in aliases,
         \A u \in Mapped(p) : HasAlias(Decl(p), u) => HasAlias(Decl(p), u)',
         \A g \in Groups : GroupStep(Decl(p), g),
         WellTyped', PlaySound(p)', p \in undisturbed => AliasesSure(p)' /\ GroupsSure(p)'
  PROVE  GInv'
<1>1. ASSUME NEW q \in Plays PROVE PlaySound(q)'
  <2>1. CASE q # p
    <3>1. PlaySound(q) /\ play'[q] = play[q] /\ EntitiesStep /\ WellTyped
      BY <2>1 DEF GInv, EntitiesGrow
    <3> QED BY <2>1, <3>1, OthersSound
  <2> QED BY <2>1
<1>2. ASSUME NEW r \in undisturbed PROVE Certain(r)'
  <2>1. r \in Plays /\ Decl(p) = Decl(r) /\ Mapped(p) = Mapped(r) /\ Decl(r)' = Decl(r)
        /\ Decl(p)' = Decl(p)
    BY DEF GInv, WellTyped, PlaysTyped, Certain, Decl, Mapped
  <2>2. \A q \in Plays : ~Idle(q)' => Decl(q)' = Decl(r)'
    BY <2>1 DEF GInv, Certain, Decl, Idle
  <2>3. CASE r = p
    BY <2>2, <2>3 DEF Certain
  <2>4. CASE r # p
    <3>1. PlaySound(r) /\ AliasesSure(r) /\ GroupsSure(r) /\ play'[r] = play[r]
      BY <2>1, <2>4 DEF GInv, Certain
    <3>2. AliasesSure(r)'
      BY <2>1, <3>1, AliasesStay DEF GInv, PlaySound
    <3>3. GroupsSure(r)'
      BY <2>1, <3>1, GroupsStay DEF GInv
    <3> QED BY <2>2, <3>2, <3>3 DEF Certain
  <2> QED BY <2>3, <2>4
<1> QED BY <1>1, <1>2 DEF GInv

\* A step that changes nothing in Vault.
LEMMA OwnFacts ==
  ASSUME GInv, NEW p \in Plays, ~Idle(p), NEW own \in PlayType,
         UNCHANGED <<entities, aliases, groups, lastId, undisturbed>>,
         play' = [play EXCEPT ![p] = own],
         PlaySound(p)', p \in undisturbed => AliasesSure(p)' /\ GroupsSure(p)'
  PROVE  GInv'
<1>1. WellTyped'
  BY DEF GInv, WellTyped, EntitiesTyped, AliasesTyped, GroupsTyped, PlaysTyped
<1>2. EntitiesGrow
  BY DEF GInv, WellTyped, EntitiesTyped, EntitiesGrow, EntitiesStep
<1>3. \A u : HasAlias(Decl(p), u) => HasAlias(Decl(p), u)'
  BY DEF HasAlias, Decl
<1>4. \A g \in Groups : GroupStep(Decl(p), g)
  BY DEF GroupStep
<1>5. \A q \in Plays \ {p} : play'[q] = play[q]
  BY DEF GInv, WellTyped, PlaysTyped
<1> QED BY <1>1, <1>2, <1>3, <1>4, <1>5, Onward

(***************************************************************************)
(* The steps of a play.                                                    *)
(***************************************************************************)
LEMMA OwnType ==
  ASSUME WellTyped, NEW p \in Plays
  PROVE  /\ play[p] \in PlayType
         /\ play[p] = [pc |-> play[p].pc, listed |-> play[p].listed, todo |-> play[p].todo,
                       user |-> play[p].user, entity |-> play[p].entity, step |-> play[p].step,
                       existing |-> play[p].existing, ids |-> play[p].ids]
  BY DEF WellTyped, PlaysTyped, PlayType

LEMMA ListAliasesStep ==
  ASSUME GInv, NEW p \in Plays, ListAliases(p)
  PROVE  GInv'
<1> DEFINE own == [play[p] EXCEPT !.pc = "unlist", !.listed = aliases,
                                  !.todo = {a.id : a \in Superfluous(p)}]
<1>1. play[p].pc = "list" /\ play' = [play EXCEPT ![p] = own]
  BY DEF ListAliases, GInv, WellTyped, PlaysTyped
<1>2. own \in PlayType /\ play'[p] = own
  <2>1. aliases \subseteq AliasType /\ play[p] \in PlayType /\ play \in [Plays -> PlayType]
    BY DEF GInv, WellTyped, PlaysTyped, AliasesTyped
  <2>2. {a.id : a \in Superfluous(p)} \subseteq Nat
    BY <2>1 DEF Superfluous, AliasType
  <2> HIDE DEF own
  <2>3. own \in PlayType
    BY <2>1, <2>2 DEF own, PlayType, PlayStages
  <2> QED BY <1>1, <2>1, <2>3
<1>3. UNCHANGED <<entities, aliases, groups, lastId, undisturbed>> /\ ~Idle(p)
  BY DEF ListAliases, bounds, Idle
<1>4. Decl(p)' = Decl(p) /\ Mapped(p)' = Mapped(p) /\ own.pc = "unlist" /\ own.listed = aliases
      /\ own.todo = {a.id : a \in Superfluous(p)} /\ own.step = play[p].step /\ own.ids = play[p].ids
  BY <1>2, OwnType DEF Decl, Mapped, GInv, PlayType
<1>5. PlaySound(p)'
  <2>1. \A a \in aliases : a.id \in own.todo => a.user \notin Mapped(p)
    BY <1>4 DEF GInv, WellTyped, AliasesTyped, Superfluous
  <2>2. \A a \in own.listed : a.entity \in 1..lastId
    BY <1>4 DEF GInv, WellTyped, AliasesTyped, EntitiesTyped
  <2>3. own.ids = {}
    BY <1>1, <1>4 DEF GInv, PlaySound
  <2> QED BY <1>2, <1>3, <1>4, <2>1, <2>2, <2>3 DEF PlaySound
<1>6. AliasesSure(p)'
  BY <1>2, <1>3, <1>4 DEF AliasesSure, Superfluous, HasAlias, Later, Mapping
<1>7. p \in undisturbed => GroupsSure(p)'
  BY <1>1, <1>2, <1>3, <1>4 DEF GroupsSure, GInv, Certain, SetUp, Kept, IdOf
<1> QED BY <1>1, <1>2, <1>3, <1>5, <1>6, <1>7, OwnFacts

LEMMA DeleteUnlistedStep ==
  ASSUME GInv, NEW p \in Plays, DeleteUnlisted(p)
  PROVE  GInv'
<1>1. PICK i \in play[p].todo : /\ aliases' = {a \in aliases : a.id # i}
                                /\ play' = [play EXCEPT ![p].todo = @ \ {i}]
  BY DEF DeleteUnlisted
<1> DEFINE own == [play[p] EXCEPT !.todo = @ \ {i}]
<1>2. play[p].pc = "unlist" /\ UNCHANGED <<entities, groups, lastId, undisturbed>> /\ ~Idle(p)
  BY DEF DeleteUnlisted, bounds, Idle
<1>3. own \in PlayType /\ play' = [play EXCEPT ![p] = own] /\ play'[p] = own
  BY <1>1, OwnType DEF GInv, WellTyped, PlaysTyped, PlayType
<1>4. /\ Decl(p)' = Decl(p) /\ Mapped(p)' = Mapped(p) /\ own.pc = "unlist"
      /\ own.listed = play[p].listed /\ own.todo = play[p].todo \ {i}
      /\ own.step = play[p].step /\ own.ids = play[p].ids
  BY <1>2, <1>3, OwnType DEF Decl, Mapped, GInv, PlayType
<1>5. WellTyped'
  BY <1>1, <1>2, <1>3 DEF GInv, WellTyped, EntitiesTyped, AliasesTyped, GroupsTyped, PlaysTyped
<1>6. EntitiesGrow
  BY <1>2 DEF GInv, WellTyped, EntitiesTyped, EntitiesGrow, EntitiesStep
<1>7. ASSUME NEW u \in Mapped(p), HasAlias(Decl(p), u) PROVE HasAlias(Decl(p), u)'
  <2>1. PICK a \in aliases : a.user = u /\ entities[a.entity] = Decl(p).alias[u]
    BY <1>7 DEF HasAlias
  <2>2. a \in aliases'
    BY <1>1, <1>2, <2>1 DEF GInv, PlaySound
  <2> QED BY <1>2, <1>4, <2>1, <2>2 DEF HasAlias
<1>8. \A g \in Groups : GroupStep(Decl(p), g)
  BY <1>2 DEF GroupStep
<1>9. PlaySound(p)'
  <2>1. PlaySound(p)
    BY DEF GInv
  <2> QED BY <1>1, <1>2, <1>3, <1>4, <2>1 DEF PlaySound
<1>10. p \in undisturbed => AliasesSure(p)'
  <2> SUFFICES ASSUME AliasesSure(p) PROVE AliasesSure(p)'
    BY DEF GInv, Certain
  <2>1. \A a \in own.listed : a.user \in Mapped(p) /\ HasAlias(Decl(p), a.user)
                                => HasAlias(Decl(p), a.user)'
    BY <1>7
  <2> QED BY <1>1, <1>2, <1>3, <1>4, <2>1 DEF AliasesSure, Later, Mapping
<1>11. p \in undisturbed => GroupsSure(p)'
  BY <1>2, <1>3, <1>4 DEF GroupsSure, GInv, Certain, SetUp, Kept, IdOf
<1>12. \A q \in Plays \ {p} : play'[q] = play[q]
  BY <1>3 DEF GInv, WellTyped, PlaysTyped
<1> QED BY <1>1, <1>2, <1>5, <1>6, <1>7, <1>8, <1>9, <1>10, <1>11, <1>12, Onward

LEMMA AbortStep ==
  ASSUME GInv, NEW p \in Plays, ~Idle(p), Abort(p),
         UNCHANGED <<entities, aliases, groups, lastId, undisturbed>>
  PROVE  GInv'
<1> DEFINE own == [AtRest EXCEPT !.pc = "failed"]
<1>1. /\ own \in PlayType /\ own.pc = "failed" /\ own.listed = {} /\ own.step = 1
      /\ own.ids = {} /\ own.existing = Nothing
  BY DEF AtRest, PlayType, PlayStages
<1>2. play' = [play EXCEPT ![p] = own] /\ play'[p] = own
  BY DEF Abort, GInv, WellTyped, PlaysTyped
<1>3. PlaySound(p)'
  BY <1>1, <1>2 DEF PlaySound
<1>4. AliasesSure(p)'
  BY <1>1, <1>2 DEF AliasesSure, Later, Mapping
<1>5. GroupsSure(p)'
  <2>1. \A k \in 1..Len(Decl(p).order) : ~(k < 1)
    BY DeclTyped
  <2> QED BY <1>1, <1>2, <2>1 DEF GroupsSure, Decl
<1> QED BY <1>1, <1>2, <1>3, <1>4, <1>5, OwnFacts

LEMMA BeginMappingStep ==
  ASSUME GInv, NEW p \in Plays, BeginMapping(p)
  PROVE  GInv'
<1> DEFINE own == [play[p] EXCEPT !.pc = "alias", !.todo = Mapped(p)]
<1>1. /\ play[p].pc = "unlist" /\ play[p].todo = {} /\ ~Idle(p)
      /\ UNCHANGED <<entities, aliases, groups, lastId, undisturbed>>
  BY DEF BeginMapping, Unlisted, bounds, Idle
<1>2. own \in PlayType /\ play' = [play EXCEPT ![p] = own] /\ play'[p] = own
  BY OwnType DEF BeginMapping, GInv, WellTyped, PlaysTyped, PlayType, PlayStages, Mapped
<1>3. Decl(p)' = Decl(p) /\ Mapped(p)' = Mapped(p) /\ own.pc = "alias" /\ own.todo = Mapped(p)
      /\ own.listed = play[p].listed /\ own.step = play[p].step /\ own.ids = play[p].ids
  BY <1>2, OwnType DEF Decl, Mapped, GInv, PlayType
<1>4. PlaySound(p)'
  BY <1>1, <1>2, <1>3 DEF PlaySound, GInv
<1>5. p \in undisturbed => AliasesSure(p)'
  BY <1>1, <1>2, <1>3 DEF AliasesSure, Unmapped, HasAlias, Later, Mapping, GInv, Certain
<1>6. p \in undisturbed => GroupsSure(p)'
  BY <1>1, <1>2, <1>3 DEF GroupsSure, GInv, Certain, SetUp, Kept, IdOf
<1> QED BY <1>1, <1>2, <1>4, <1>5, <1>6, OwnFacts

LEMMA LookedUp ==
  ASSUME WellTyped, NEW n \in Names
  PROVE  /\ Lookup(n) \in Nat /\ (Lookup(n) = 0 <=> IdOf(n) = {})
         /\ Lookup(n) # 0 => Lookup(n) \in DOMAIN entities /\ entities[Lookup(n)] = n
         /\ Lookup(n) # 0 => Called(Lookup(n), n)
<1>1. IdOf(n) \subseteq 1..lastId /\ lastId \in Nat
  BY DEF IdOf, WellTyped, EntitiesTyped
<1>2. IdOf(n) # {} => Lookup(n) \in IdOf(n)
  BY DEF Lookup
<1>3. IdOf(n) = {} => Lookup(n) = 0
  BY DEF Lookup
<1> QED BY <1>1, <1>2, <1>3 DEF IdOf, Called

LEMMA LookupEntityStep ==
  ASSUME GInv, NEW p \in Plays, LookupEntity(p)
  PROVE  GInv'
<1>1. /\ play[p].pc = "alias" /\ ~Idle(p)
      /\ UNCHANGED <<entities, aliases, groups, lastId, undisturbed>>
  BY DEF LookupEntity, bounds, Idle
<1>2. play[p].todo \subseteq Mapped(p) /\ PlaySound(p) /\ WellTyped
  BY <1>1 DEF GInv, PlaySound
<1>3. PICK u \in play[p].todo :
        LET i == Lookup(Decl(p).alias[u]) IN
        play' = IF Matches(p, u, i)
                  THEN [play EXCEPT ![p].todo = @ \ {u}]
                  ELSE [play EXCEPT ![p].todo = @ \ {u}, ![p].user = u, ![p].entity = i,
                                    ![p].pc = IF i = 0 THEN "create" ELSE "write"]
  BY DEF LookupEntity
<1> DEFINE n == Decl(p).alias[u]
<1>4. u \in Mapped(p) /\ u \in Users /\ n \in Names
  BY <1>2, <1>3, DeclTyped DEF Mapped
<1>0. PICK i : i = Lookup(n)
  OBVIOUS
<1>5. i \in Nat /\ (i # 0 => i \in DOMAIN entities /\ entities[i] = n /\ Called(i, n))
  BY <1>2, <1>4, <1>0, LookedUp
<1>6. p \in undisturbed => AliasesSure(p) /\ GroupsSure(p)
  BY DEF GInv, Certain
<1>7. Decl(p)' = Decl(p) /\ Mapped(p)' = Mapped(p)
  BY DEF Decl, Mapped
<1>8. CASE Matches(p, u, i)
  <2> DEFINE own == [play[p] EXCEPT !.todo = @ \ {u}]
  <2>1. play' = [play EXCEPT ![p] = own] /\ own \in PlayType /\ play'[p] = own
    BY <1>2, <1>3, <1>0, <1>8, OwnType DEF WellTyped, PlaysTyped, PlayType
  <2>2. /\ own.pc = "alias" /\ own.todo = play[p].todo \ {u} /\ own.listed = play[p].listed
        /\ own.step = play[p].step /\ own.ids = play[p].ids
    BY <1>1, <1>2, OwnType DEF PlayType
  <2>3. PlaySound(p)'
    BY <1>1, <1>2, <1>7, <2>1, <2>2 DEF PlaySound
  <2>4. ASSUME p \in undisturbed PROVE HasAlias(Decl(p), u)
    <3>1. PICK a \in play[p].listed : a.user = u /\ a.entity = i
      BY <1>8 DEF Matches, Matching
    <3>2. i # 0
      BY <1>2, <3>1 DEF PlaySound, WellTyped, EntitiesTyped
    <3> QED BY <1>4, <1>5, <1>6, <2>4, <3>1, <3>2 DEF AliasesSure
  <2>5. p \in undisturbed => AliasesSure(p)'
    BY <1>1, <1>6, <1>7, <2>1, <2>2, <2>4 DEF AliasesSure, Unmapped, HasAlias, Later, Mapping
  <2>6. p \in undisturbed => GroupsSure(p)'
    BY <1>1, <1>6, <1>7, <2>1, <2>2 DEF GroupsSure, SetUp, Kept, IdOf
  <2> QED BY <1>1, <2>1, <2>3, <2>5, <2>6, OwnFacts
<1>9. CASE ~Matches(p, u, i)
  <2> DEFINE stage == IF i = 0 THEN "create" ELSE "write"
             own == [play[p] EXCEPT !.todo = @ \ {u}, !.user = u, !.entity = i, !.pc = stage]
  <2>1. play' = [play EXCEPT ![p] = own] /\ own \in PlayType /\ play'[p] = own
    <3>1. play' = [play EXCEPT ![p] = own]
      BY <1>2, <1>3, <1>0, <1>9 DEF WellTyped, PlaysTyped
    <3>2. own \in PlayType
      BY <1>2, <1>4, <1>5, OwnType DEF PlayType, PlayStages
    <3> QED BY <1>2, <3>1, <3>2 DEF WellTyped, PlaysTyped
  <2>2. /\ own.pc = stage /\ own.todo = play[p].todo \ {u} /\ own.listed = play[p].listed
        /\ own.step = play[p].step /\ own.ids = play[p].ids /\ own.user = u /\ own.entity = i
    BY <1>1, <1>2, OwnType DEF PlayType
  <2>3. stage \in {"create", "write"} /\ (stage = "write" => Called(i, n))
    BY <1>5
  <2> HIDE DEF own, stage, n
  <2>4. Called(i, n) => Called(i, n)'
    BY <1>1 DEF Called
  <2>5. PlaySound(p)'
    BY <1>1, <1>2, <1>4, <1>7, <2>1, <2>2, <2>3, <2>4 DEF PlaySound, n, Called
  <2>6. p \in undisturbed => AliasesSure(p)'
    BY <1>1, <1>6, <1>7, <2>1, <2>2, <2>3 DEF AliasesSure, Unmapped, HasAlias, Later, Mapping
  <2>7. p \in undisturbed => GroupsSure(p)'
    BY <1>1, <1>6, <1>7, <2>1, <2>2, <2>3 DEF GroupsSure, SetUp, Kept, IdOf
  <2> QED BY <1>1, <2>1, <2>5, <2>6, <2>7, OwnFacts
<1> QED BY <1>8, <1>9

LEMMA GrowStep ==
  ASSUME WellTyped, NEW n \in Names \cup {Nothing}, n # Nothing => IdOf(n) = {},
         lastId' = lastId + 1, entities' = Grow(lastId + 1, n)
  PROVE  /\ EntitiesTyped' /\ EntitiesGrow
         /\ DOMAIN entities' = DOMAIN entities \cup {lastId'} /\ lastId' \notin DOMAIN entities
         /\ entities'[lastId'] = n /\ lastId' \in 1..lastId'
         /\ \A i \in DOMAIN entities : entities'[i] = entities[i]
<1>1. /\ lastId \in Nat /\ DOMAIN entities \subseteq 1..lastId
      /\ \A i \in DOMAIN entities : entities[i] \in Names \cup {Nothing}
      /\ \A i, j \in DOMAIN entities : entities[i] = entities[j] /\ entities[i] # Nothing => i = j
  BY DEF WellTyped, EntitiesTyped
<1>2. DOMAIN entities' = DOMAIN entities \cup {lastId'} /\ lastId' \notin DOMAIN entities
  BY <1>1 DEF Grow
<1>3. entities'[lastId'] = n /\ \A i \in DOMAIN entities : entities'[i] = entities[i]
  BY <1>1, <1>2 DEF Grow
<1>4. EntitiesTyped'
  <2>1. ASSUME NEW i \in DOMAIN entities', NEW j \in DOMAIN entities',
               entities'[i] = entities'[j], entities'[i] # Nothing
        PROVE  i = j
    BY <1>1, <1>2, <1>3, <2>1 DEF IdOf
  <2>2. lastId' \in Nat /\ DOMAIN entities' \subseteq 1..lastId'
    BY <1>1, <1>2
  <2>3. \A i \in DOMAIN entities' : entities'[i] \in Names \cup {Nothing}
    BY <1>1, <1>2, <1>3
  <2> QED BY <2>1, <2>2, <2>3 DEF EntitiesTyped
<1>5. EntitiesGrow
  BY <1>1, <1>2, <1>3 DEF EntitiesGrow, EntitiesStep
<1>6. lastId' \in 1..lastId'
  BY <1>1
<1> QED BY <1>1, <1>2, <1>3, <1>4, <1>5, <1>6

\* Nothing but new entities, and the play that asked for them.
LEMMA GrowOnward ==
  ASSUME GInv, NEW p \in Plays, ~Idle(p), NEW own \in PlayType, play' = [play EXCEPT ![p] = own],
         NEW n \in Names, IdOf(n) = {},
         lastId' = lastId + 1, entities' = Grow(lastId + 1, n),
         UNCHANGED <<aliases, groups, undisturbed>>,
         PlaySound(p)', p \in undisturbed => AliasesSure(p)' /\ GroupsSure(p)'
  PROVE  GInv'
<1>1. /\ EntitiesTyped' /\ EntitiesGrow /\ DOMAIN entities \subseteq DOMAIN entities'
      /\ \A i \in DOMAIN entities : entities'[i] = entities[i]
  BY GrowStep DEF GInv
<1>2. WellTyped'
  BY <1>1 DEF GInv, WellTyped, AliasesTyped, GroupsTyped, PlaysTyped
<1>3. ASSUME NEW u, HasAlias(Decl(p), u) PROVE HasAlias(Decl(p), u)'
  BY <1>1, <1>3 DEF HasAlias, Decl, GInv, WellTyped, AliasesTyped
<1>4. \A g \in Groups : GroupStep(Decl(p), g)
  BY DEF GroupStep
<1>5. \A q \in Plays \ {p} : play'[q] = play[q]
  BY DEF GInv, WellTyped, PlaysTyped
<1> QED BY <1>1, <1>2, <1>3, <1>4, <1>5, Onward

\* What is certain of groups as long as a play does not get on with them.
LEMMA GroupsKept ==
  ASSUME WellTyped, EntitiesGrow, NEW p \in Plays, GroupsSure(p),
         \A g \in Groups : GroupStep(Decl(p), g), play'[p].step = play[p].step,
         play'[p].pc \notin {"done", "members", "member"}
  PROVE  GroupsSure(p)'
<1>1. Decl(p)' = Decl(p)
  BY DEF Decl
<1>2. \A k \in 1..Len(Decl(p).order) : Decl(p).order[k] \in Groups
  BY DeclTyped
<1> QED BY <1>1, <1>2, StaysDeclared DEF GroupsSure

\* What is certain of aliases when there are new entities.
LEMMA AliasesGrown ==
  ASSUME WellTyped, EntitiesGrow, NEW p \in Plays, PlaySound(p), AliasesSure(p), aliases' = aliases,
         play[p].pc \in Later, play'[p].pc \in Later, Unmapped(p)' = Unmapped(p),
         play'[p].listed = play[p].listed
  PROVE  AliasesSure(p)'
<1>1. Decl(p)' = Decl(p) /\ Mapped(p)' = Mapped(p)
  BY DEF Decl, Mapped
<1>2. \A a \in aliases : entities'[a.entity] = entities[a.entity]
  BY DEF WellTyped, AliasesTyped, EntitiesTyped, EntitiesGrow, EntitiesStep
<1>3. \A u : HasAlias(Decl(p), u) => HasAlias(Decl(p), u)'
  BY <1>1, <1>2 DEF HasAlias
<1>4. \A a \in play[p].listed : a.entity \in DOMAIN entities' =>
        a.entity \in DOMAIN entities /\ entities'[a.entity] = entities[a.entity]
  BY DEF PlaySound, WellTyped, EntitiesTyped, EntitiesGrow, EntitiesStep
<1>5. (\A a \in play[p].listed :
         /\ a.user \in Mapped(p) /\ a.entity \in DOMAIN entities
         /\ entities[a.entity] = Decl(p).alias[a.user]
         => HasAlias(Decl(p), a.user))'
  BY <1>1, <1>3, <1>4 DEF AliasesSure
<1>6. play'[p].pc # "unlist"
  BY DEF Later, Mapping
<1> QED BY <1>1, <1>2, <1>3, <1>5, <1>6 DEF AliasesSure

LEMMA CreateEntityStep ==
  ASSUME GInv, NEW p \in Plays, CreateEntity(p)
  PROVE  GInv'
<1>1. /\ play[p].pc = "create" /\ UNCHANGED <<aliases, groups, undisturbed>> /\ ~Idle(p)
      /\ PlaySound(p) /\ WellTyped
  BY DEF CreateEntity, bounds, Idle, GInv
<1> DEFINE n == Decl(p).alias[play[p].user]
           own == [play[p] EXCEPT !.entity = lastId + 1, !.pc = "write"]
<1>2. play[p].user \in Mapped(p) /\ play[p].todo \subseteq Mapped(p) /\ n \in Names
  BY <1>1, DeclTyped DEF PlaySound, Mapped
<1>3. CASE IdOf(n) = {}
  <2>1. /\ lastId' = lastId + 1 /\ entities' = Grow(lastId + 1, n)
        /\ play' = [play EXCEPT ![p].entity = lastId + 1, ![p].pc = "write"]
    BY <1>3 DEF CreateEntity, Created
  <2>2. play' = [play EXCEPT ![p] = own] /\ own \in PlayType /\ play'[p] = own
    BY <1>1, <2>1, OwnType DEF WellTyped, EntitiesTyped, PlaysTyped, PlayType, PlayStages
  <2>3. /\ own.pc = "write" /\ own.todo = play[p].todo /\ own.listed = play[p].listed
        /\ own.step = play[p].step /\ own.ids = play[p].ids /\ own.user = play[p].user
        /\ own.entity = lastId'
    BY <1>1, <2>1, OwnType DEF PlayType
  <2>4. /\ EntitiesGrow /\ lastId' \in 1..lastId' /\ entities'[lastId'] = n
        /\ DOMAIN entities' = DOMAIN entities \cup {lastId'} /\ lastId' \notin DOMAIN entities
        /\ \A i \in DOMAIN entities : entities'[i] = entities[i]
    <3> HIDE DEF n
    <3> QED BY <1>1, <1>2, <1>3, <2>1, GrowStep, NothingAssumption DEF WellTyped, EntitiesTyped
  <2> HIDE DEF own
  <2>5. Decl(p)' = Decl(p) /\ Mapped(p)' = Mapped(p)
    BY DEF Decl, Mapped
  <2>6. Called(play[p].entity, Decl(p).alias[play[p].user])'
    BY <2>2, <2>3, <2>4, <2>5 DEF Called
  <2>7. PlaySound(p)'
    <3>1. \A a \in own.listed : a.entity \in 1..lastId'
      BY <1>1, <2>1, <2>3 DEF PlaySound, WellTyped, EntitiesTyped
    <3> QED BY <1>1, <1>2, <2>2, <2>3, <2>5, <2>6, <3>1 DEF PlaySound
  <2>8. p \in undisturbed => AliasesSure(p)'
    <3>1. Unmapped(p)' = Unmapped(p) /\ play[p].pc \in Later /\ play'[p].pc \in Later
      BY <1>1, <2>2, <2>3 DEF Unmapped, Mapping, Later
    <3>2. p \in undisturbed => AliasesSure(p)
      BY DEF GInv, Certain
    <3> QED BY <1>1, <2>2, <2>3, <2>4, <3>1, <3>2, AliasesGrown
  <2>9. p \in undisturbed => GroupsSure(p)'
    <3>1. \A g \in Groups : GroupStep(Decl(p), g)
      BY <1>1 DEF GroupStep
    <3>2. play'[p].step = play[p].step /\ play'[p].pc \notin {"done", "members", "member"}
      BY <2>2, <2>3
    <3>3. p \in undisturbed => GroupsSure(p)
      BY DEF GInv, Certain
    <3> QED BY <1>1, <2>4, <3>1, <3>2, <3>3, GroupsKept
  <2> HIDE DEF n
  <2> QED BY <1>1, <1>2, <1>3, <2>1, <2>2, <2>7, <2>8, <2>9, GrowOnward
<1>4. CASE IdOf(n) # {}
  <2>1. Abort(p) /\ UNCHANGED <<entities, lastId>>
    BY <1>4 DEF CreateEntity, Created
  <2> QED BY <1>1, <2>1, AbortStep
<1> QED BY <1>3, <1>4

LEMMA NewId ==
  ASSUME Room, NEW u, NEW i
  PROVE  /\ NewAlias(u, i).id \in Nat /\ NewAlias(u, i).user = u /\ NewAlias(u, i).entity = i
         /\ NewAlias(u, i) = [user |-> u, entity |-> i, id |-> NewAlias(u, i).id]
         /\ \A a \in aliases : a.id # NewAlias(u, i).id
         /\ \A p \in Plays : NewAlias(u, i).id \notin play[p].todo
<1> DEFINE Free(n) == n \notin {a.id : a \in aliases} \cup UNION {play[r].todo : r \in Plays}
           new == CHOOSE n \in Ids : Free(n)
<1>1. new \in Ids /\ Free(new)
  BY DEF Room
<1>2. NewAlias(u, i) = [user |-> u, entity |-> i, id |-> new]
  BY DEF NewAlias
<1>3. Ids \subseteq Nat
  BY DEF Ids
<1> HIDE DEF new
<1> QED BY <1>1, <1>2, <1>3

LEMMA PointStep ==
  ASSUME WellTyped, Room, NEW u \in Users, NEW i \in DOMAIN entities, Point(u, i),
         UNCHANGED <<entities, lastId>>
  PROVE  /\ AliasesTyped'
         /\ \E a \in aliases' : a.user = u /\ a.entity = i
         /\ \A a \in aliases' : a.user # u => a \in aliases
         /\ \A a \in aliases : a.user # u => a \in aliases'
         /\ \A a \in aliases', p \in Plays :
              a.id \notin play[p].todo \/ \E b \in aliases : b.id = a.id /\ b.user = a.user
<1>1. /\ aliases \subseteq AliasType /\ DOMAIN entities \subseteq Nat
      /\ \A a, b \in aliases : a.id = b.id \/ a.user = b.user => a = b
      /\ \A a \in aliases : a.entity \in DOMAIN entities
  BY DEF WellTyped, AliasesTyped, EntitiesTyped
<1>2. CASE \E a \in aliases : a.user = u
  <2>1. PICK c \in aliases : c.user = u
    BY <1>2
  <2>2. aliases' = {IF a.user = u THEN [a EXCEPT !.entity = i] ELSE a : a \in aliases}
    BY <1>2 DEF Point
  <2> DEFINE d == [c EXCEPT !.entity = i]
  <2>3. d \in AliasType /\ d.user = u /\ d.entity = i /\ d.id = c.id
    BY <1>1, <2>1 DEF AliasType
  <2>4. aliases' = {a \in aliases : a.user # u} \cup {d}
    BY <1>1, <2>1, <2>2
  <2> HIDE DEF d
  <2>5. AliasesTyped'
    BY <1>1, <2>1, <2>3, <2>4 DEF AliasesTyped
  <2> QED BY <1>1, <2>1, <2>3, <2>4, <2>5
<1>3. CASE ~\E a \in aliases : a.user = u
  <2> DEFINE d == NewAlias(u, i)
  <2>1. aliases' = aliases \cup {d}
    BY <1>3 DEF Point
  <2>2. /\ d.user = u /\ d.entity = i /\ d.id \in Nat /\ d = [user |-> u, entity |-> i, id |-> d.id]
        /\ \A a \in aliases : a.id # d.id /\ \A p \in Plays : d.id \notin play[p].todo
    BY NewId
  <2>3. \A p \in Plays : d.id \notin play[p].todo
    BY NewId
  <2> HIDE DEF d
  <2>4. d \in AliasType
    BY <1>1, <2>2 DEF AliasType
  <2>5. AliasesTyped'
    BY <1>1, <1>3, <2>1, <2>2, <2>4 DEF AliasesTyped
  <2> QED BY <1>1, <1>3, <2>1, <2>2, <2>3, <2>5
<1> QED BY <1>2, <1>3

LEMMA WriteAliasStep ==
  ASSUME GInv, Room, NEW p \in Plays, WriteAlias(p)
  PROVE  GInv'
<1> DEFINE u == play[p].user
           i == play[p].entity
           own == [play[p] EXCEPT !.pc = "alias", !.user = Nothing, !.entity = 0]
<1>1. /\ play[p].pc = "write" /\ ~Idle(p) /\ UNCHANGED <<entities, groups, lastId, undisturbed>>
      /\ PlaySound(p) /\ WellTyped
  BY DEF WriteAlias, bounds, Idle, GInv
<1>2. u \in Mapped(p) /\ u \in Users /\ play[p].todo \subseteq Mapped(p)
      /\ Called(i, Decl(p).alias[u])
  BY <1>1 DEF PlaySound, Mapped
<1>3. CASE i \in DOMAIN entities
  <2>1. Point(u, i) /\ play' = [play EXCEPT ![p].pc = "alias", ![p].user = Nothing, ![p].entity = 0]
    BY <1>3 DEF WriteAlias
  <2>2. play' = [play EXCEPT ![p] = own] /\ own \in PlayType /\ play'[p] = own
    BY <1>1, <2>1, OwnType DEF WellTyped, PlaysTyped, PlayType, PlayStages
  <2>3. /\ own.pc = "alias" /\ own.todo = play[p].todo /\ own.listed = play[p].listed
        /\ own.step = play[p].step /\ own.ids = play[p].ids
    BY <1>1, <2>1, OwnType DEF PlayType
  <2>4. /\ AliasesTyped'
        /\ \E a \in aliases' : a.user = u /\ a.entity = i
        /\ \A a \in aliases' : a.user # u => a \in aliases
        /\ \A a \in aliases : a.user # u => a \in aliases'
        /\ \A a \in aliases', q \in Plays :
             a.id \notin play[q].todo \/ \E b \in aliases : b.id = a.id /\ b.user = a.user
    BY <1>1, <1>2, <1>3, <2>1, PointStep
  <2>5. Decl(p)' = Decl(p) /\ Mapped(p)' = Mapped(p)
    BY DEF Decl, Mapped
  <2> HIDE DEF own
  <2>6. \A v : v = u \/ HasAlias(Decl(p), v) => HasAlias(Decl(p), v)'
    <3>1. entities[i] = Decl(p).alias[u]
      BY <1>2, <1>3 DEF Called
    <3> QED BY <1>1, <2>4, <2>5, <3>1 DEF HasAlias
  <2>8. WellTyped'
    BY <1>1, <2>2, <2>4 DEF WellTyped, EntitiesTyped, GroupsTyped, PlaysTyped
  <2>9. PlaySound(p)'
    BY <1>1, <1>2, <2>2, <2>3, <2>5 DEF PlaySound
  <2>10. p \in undisturbed => AliasesSure(p)'
    <3> SUFFICES ASSUME AliasesSure(p) PROVE AliasesSure(p)'
      BY DEF GInv, Certain
    <3>1. \A a \in aliases' : a.user \notin Mapped(p) => entities[a.entity] = Nothing
      BY <1>1, <1>2, <2>4 DEF AliasesSure, Later, Mapping
    <3>2. Unmapped(p)' \cup {u} = Unmapped(p)
      BY <1>1, <2>2, <2>3 DEF Unmapped, Mapping
    <3>3. \A v \in Mapped(p) \ Unmapped(p)' : HasAlias(Decl(p), v)'
      BY <1>1, <2>6, <3>2 DEF AliasesSure, Later, Mapping
    <3>4. \A a \in play[p].listed :
            /\ a.user \in Mapped(p) /\ a.entity \in DOMAIN entities
            /\ entities[a.entity] = Decl(p).alias[a.user]
            => HasAlias(Decl(p), a.user)'
      BY <2>6 DEF AliasesSure
    <3> QED BY <1>1, <2>2, <2>3, <2>5, <3>1, <3>3, <3>4 DEF AliasesSure, Later, Mapping
  <2>11. EntitiesGrow /\ \A g \in Groups : GroupStep(Decl(p), g)
    BY <1>1 DEF WellTyped, EntitiesTyped, EntitiesGrow, EntitiesStep, GroupStep
  <2>12. p \in undisturbed => GroupsSure(p)'
    BY <1>1, <2>2, <2>3, <2>11, GroupsKept DEF GInv, Certain
  <2>13. \A a \in aliases' : a.user \in Mapped(p) \/ a \in aliases
    BY <1>2, <2>4
  <2>14. \A q \in Plays \ {p} : play'[q] = play[q]
    BY <1>1, <2>2 DEF WellTyped, PlaysTyped
  <2> QED BY <1>1, <2>4, <2>6, <2>8, <2>9, <2>10, <2>11, <2>12, <2>13, <2>14, Onward
<1>4. CASE i \notin DOMAIN entities
  BY <1>1, <1>4, AbortStep DEF WriteAlias
<1> QED BY <1>3, <1>4

(***************************************************************************)
(* Getting on with the groups.                                             *)
(***************************************************************************)
\* On to the next group: certain, if this one is as declared.
LEMMA Advance ==
  ASSUME GInv, NEW p \in Plays, ~Idle(p), play[p].pc \in Later, Unmapped(p) = {}, MoreGroups(p),
         play' = NextGroup(p), UNCHANGED <<entities, aliases, lastId, undisturbed>>,
         GroupsTyped', \A g \in Groups : GroupStep(Decl(p), g),
         p \in undisturbed =>
           \A g \in Groups : g = GroupOf(p) => SetUp(Decl(p), g)'
  PROVE  GInv'
<1> DEFINE own == [play[p] EXCEPT !.pc = "group", !.step = @ + 1, !.existing = Nothing, !.ids = {},
                                  !.listed = {}]
<1>1. WellTyped /\ play[p].pc # "done"
  BY DEF GInv, Idle
<1>2. play' = [play EXCEPT ![p] = own] /\ own \in PlayType /\ play'[p] = own
  BY <1>1, OwnType DEF NextGroup, WellTyped, PlaysTyped, PlayType, PlayStages
<1>3. own.pc = "group" /\ own.step = play[p].step + 1 /\ own.ids = {} /\ own.listed = {}
  BY <1>1, OwnType DEF PlayType
<1> HIDE DEF own
<1>4. Decl(p)' = Decl(p) /\ Mapped(p)' = Mapped(p)
  BY DEF Decl, Mapped
<1>5. WellTyped' /\ EntitiesGrow
  BY <1>1, <1>2 DEF WellTyped, EntitiesTyped, AliasesTyped, PlaysTyped, EntitiesGrow, EntitiesStep
<1>6. PlaySound(p)'
  BY <1>2, <1>3 DEF PlaySound
<1>7. \A u : HasAlias(Decl(p), u) => HasAlias(Decl(p), u)'
  BY <1>4 DEF HasAlias
<1>8. p \in undisturbed => AliasesSure(p)'
  <2> SUFFICES ASSUME AliasesSure(p) PROVE AliasesSure(p)'
    BY DEF GInv, Certain
  <2> QED BY <1>2, <1>3, <1>4, <1>7 DEF AliasesSure, Later
<1>9. p \in undisturbed => GroupsSure(p)'
  <2> SUFFICES ASSUME p \in undisturbed, GroupsSure(p) PROVE GroupsSure(p)'
    BY DEF GInv, Certain
  <2>1. ASSUME NEW k \in 1..Len(Decl(p).order), k < play[p].step + 1
        PROVE  SetUp(Decl(p), Decl(p).order[k])'
    <3>1. Decl(p).order[k] \in Groups /\ Decl(p).order[k]' = Decl(p).order[k]
      BY DeclTyped DEF Decl
    <3>2. CASE k = play[p].step
      BY <3>1, <3>2 DEF GroupOf
    <3>3. CASE k # play[p].step
      <4>1. k < play[p].step
        <5>1. play[p] \in PlayType
          BY <1>1, OwnType
        <5>2. play[p].step \in Nat
          BY <5>1 DEF PlayType
        <5>3. k \in Nat
          OBVIOUS
        <5> QED BY <2>1, <3>3, <5>2, <5>3
      <4> QED BY <1>1, <1>5, <3>1, <4>1, StaysDeclared DEF GroupsSure
    <3> QED BY <3>2, <3>3
  <2> QED BY <1>2, <1>3, <1>4, <2>1 DEF GroupsSure
<1>10. \A q \in Plays \ {p} : play'[q] = play[q]
  BY <1>1, <1>2 DEF WellTyped, PlaysTyped
<1> QED BY <1>5, <1>6, <1>7, <1>8, <1>9, <1>10, Onward

LEMMA ReadGroupStep ==
  ASSUME GInv, NEW p \in Plays, ReadGroup(p)
  PROVE  GInv'
<1>1. /\ ~Idle(p) /\ UNCHANGED <<entities, aliases, groups, lastId, undisturbed>> /\ MoreGroups(p)
      /\ play[p].pc \in Later \ {"done"} /\ Unmapped(p) = {} /\ WellTyped /\ PlaySound(p)
      /\ play[p].ids = {}
  <2>1. /\ play[p].pc = "group" \/ (play[p].pc = "alias" /\ play[p].todo = {})
        /\ UNCHANGED <<entities, aliases, groups, lastId, undisturbed>> /\ MoreGroups(p)
    BY DEF ReadGroup, bounds
  <2>2. WellTyped /\ PlaySound(p)
    BY DEF GInv
  <2>3. play[p].ids = {}
    BY <2>1, <2>2 DEF PlaySound
  <2> QED BY <2>1, <2>2, <2>3 DEF Idle, Unmapped, Mapping, Later
<1>2. GroupOf(p) \in Groups /\ Wanted(p) = Decl(p).group[GroupOf(p)]
      /\ Wanted(p) \in GroupType \cup {Nothing}
  BY <1>1, WantedTyped
<1>3. Decl(p)' = Decl(p) /\ Mapped(p)' = Mapped(p)
  BY DEF Decl, Mapped
<1>4. \A u : HasAlias(Decl(p), u) => HasAlias(Decl(p), u)'
  BY <1>1 DEF HasAlias, Decl
<1>5. ASSUME NEW own \in PlayType, own.pc \in {"members", "remove"}, own.listed = {},
             own.step = play[p].step, play' = [play EXCEPT ![p] = own], PlaySound(p)',
             own.pc = "members" => own.existing = groups[GroupOf(p)]
      PROVE  GInv'
  <2>1. play'[p] = own
    BY <1>1, <1>5 DEF WellTyped, PlaysTyped
  <2>2. p \in undisturbed => AliasesSure(p)'
    <3> SUFFICES ASSUME AliasesSure(p) PROVE AliasesSure(p)'
      BY DEF GInv, Certain
    <3> QED BY <1>1, <1>3, <1>4, <1>5, <2>1 DEF AliasesSure, Later
  <2>3. p \in undisturbed => GroupsSure(p)'
    <3> SUFFICES ASSUME GroupsSure(p) PROVE GroupsSure(p)'
      BY DEF GInv, Certain
    <3>1. GroupOf(p)' = GroupOf(p)
      BY <1>3, <1>5, <2>1 DEF GroupOf
    <3>2. own.pc = "members" /\ own.existing # Nothing =>
            AsRead(Decl(p), GroupOf(p), own.existing)
      BY <1>5 DEF AsRead
    <3> QED BY <1>1, <1>3, <1>5, <2>1, <3>1, <3>2 DEF GroupsSure, AsRead, SetUp, Kept, IdOf
  <2> QED BY <1>1, <1>5, <2>2, <2>3, OwnFacts
<1>6. CASE Wanted(p) # Nothing
  <2> DEFINE own == [play[p] EXCEPT !.pc = "members", !.existing = groups[GroupOf(p)],
                                    !.todo = Wanted(p).members, !.listed = {}]
  <2>1. play' = [play EXCEPT ![p] = own]
    BY <1>1, <1>6 DEF ReadGroup, WellTyped, PlaysTyped
  <2>2. own \in PlayType
    <3>1. Wanted(p).members \subseteq Names /\ groups[GroupOf(p)] \in StoredType \cup {Nothing}
      BY <1>1, <1>2, <1>6 DEF GroupType, WellTyped, GroupsTyped
    <3> QED BY <1>1, <3>1, OwnType DEF PlayType, PlayStages
  <2>3. /\ own.pc = "members" /\ own.listed = {} /\ own.step = play[p].step
        /\ own.existing = groups[GroupOf(p)] /\ own.todo = Wanted(p).members /\ own.ids = {}
    BY <1>1, OwnType DEF PlayType
  <2> HIDE DEF own
  <2>4. play'[p] = own /\ Wanted(p)' = Wanted(p) /\ (MoreGroups(p)' <=> MoreGroups(p))
    BY <1>1, <1>3, <2>1, <2>3 DEF WellTyped, PlaysTyped, Wanted, GroupOf, MoreGroups
  <2>5. PlaySound(p)'
    BY <1>1, <1>6, <2>3, <2>4 DEF PlaySound, MembersFound
  <2> QED BY <1>5, <2>1, <2>2, <2>3, <2>5
<1>7. CASE Wanted(p) = Nothing /\ groups[GroupOf(p)] # Nothing
  <2> DEFINE own == [play[p] EXCEPT !.pc = "remove", !.listed = {}]
  <2>1. play' = [play EXCEPT ![p] = own]
    BY <1>1, <1>7 DEF ReadGroup, WellTyped, PlaysTyped
  <2>2. own \in PlayType
    BY <1>1, OwnType DEF PlayType, PlayStages
  <2>3. own.pc = "remove" /\ own.listed = {} /\ own.step = play[p].step /\ own.ids = {}
    BY <1>1, OwnType DEF PlayType
  <2> HIDE DEF own
  <2>4. play'[p] = own /\ Wanted(p)' = Wanted(p) /\ (MoreGroups(p)' <=> MoreGroups(p))
    BY <1>1, <1>3, <2>1, <2>3 DEF WellTyped, PlaysTyped, Wanted, GroupOf, MoreGroups
  <2>5. PlaySound(p)'
    BY <1>1, <1>7, <2>3, <2>4 DEF PlaySound
  <2> QED BY <1>5, <2>1, <2>2, <2>3, <2>5
<1>8. CASE Wanted(p) = Nothing /\ groups[GroupOf(p)] = Nothing
  <2>1. play' = NextGroup(p)
    BY <1>8 DEF ReadGroup
  <2>2. GroupsTyped' /\ \A g \in Groups : GroupStep(Decl(p), g)
    BY <1>1 DEF WellTyped, GroupsTyped, GroupStep
  <2>3. \A g \in Groups : g = GroupOf(p) => SetUp(Decl(p), g)'
    BY <1>1, <1>2, <1>3, <1>8 DEF SetUp
  <2> QED BY <1>1, <2>1, <2>2, <2>3, Advance
<1> QED BY <1>6, <1>7, <1>8

LEMMA RemoveGroupStep ==
  ASSUME GInv, NEW p \in Plays, RemoveGroup(p)
  PROVE  GInv'
<1>1. /\ ~Idle(p) /\ UNCHANGED <<entities, aliases, lastId, undisturbed>> /\ play[p].pc = "remove"
      /\ MoreGroups(p) /\ Wanted(p) = Nothing /\ WellTyped /\ play[p].pc \in Later
      /\ Unmapped(p) = {}
      /\ groups' = WithoutGroup(GroupOf(p)) /\ play' = NextGroup(p)
  BY DEF RemoveGroup, bounds, Idle, Unmapped, Mapping, Later, GInv, PlaySound
<1>2. GroupOf(p) \in Groups /\ Decl(p).group[GroupOf(p)] = Nothing
  BY <1>1, WantedTyped
<1>3. PICK gone \in Groups : gone = GroupOf(p)
  BY <1>2
<1>4. ASSUME NEW g \in Groups
      PROVE  /\ g = gone \/ groups[g] = Nothing => groups'[g] = Nothing
             /\ g # gone /\ groups[g] # Nothing =>
                  /\ groups'[g] = [groups[g] EXCEPT !.subgroups = @ \ {gone}]
                  /\ groups'[g] \in StoredType /\ groups'[g].members = groups[g].members
                  /\ groups'[g].policies = groups[g].policies
                  /\ groups'[g].subgroups = groups[g].subgroups \ {gone}
  <2>1. groups[g] \in StoredType \cup {Nothing}
    BY <1>1 DEF WellTyped, GroupsTyped
  <2>2. g # gone /\ groups[g] # Nothing => groups'[g] = [groups[g] EXCEPT !.subgroups = @ \ {gone}]
    BY <1>1, <1>3 DEF WithoutGroup
  <2>3. g = gone \/ groups[g] = Nothing => groups'[g] = Nothing
    BY <1>1, <1>3 DEF WithoutGroup
  <2> QED BY <2>1, <2>2, <2>3 DEF StoredType
<1>5. GroupsTyped'
  <2>1. groups' \in [Groups -> StoredType \cup {Nothing}]
    <3>1. DOMAIN groups' = Groups /\ groups' = [g \in Groups |-> groups'[g]]
      BY <1>1 DEF WithoutGroup
    <3> QED BY <1>4, <3>1
  <2> QED BY <1>1, <1>4, <2>1 DEF WellTyped, GroupsTyped
<1>6. gone \notin Kept(Decl(p))
  BY <1>2, <1>3 DEF Kept
<1>7. ASSUME NEW g \in Groups PROVE GroupStep(Decl(p), g)
  <2>1. CASE g = gone
    <3>1. SetUp(Decl(p), g)'
      BY <1>2, <1>3, <1>4, <2>1 DEF SetUp, Decl
    <3> QED BY <3>1 DEF GroupStep
  <2>2. CASE g # gone /\ groups[g] = Nothing
    BY <1>4, <2>2 DEF GroupStep
  <2>3. CASE g # gone /\ groups[g] # Nothing
    <3>1. groups'[g] # Nothing
      BY <1>4, <2>3, NothingAssumption
    <3> QED BY <1>4, <1>6, <2>3, <3>1 DEF GroupStep
  <2> QED BY <2>1, <2>2, <2>3
<1>8. \A g \in Groups : g = GroupOf(p) => SetUp(Decl(p), g)'
  BY <1>2, <1>3, <1>4 DEF SetUp, Decl
<1> QED BY <1>1, <1>5, <1>7, <1>8, Advance

\* A member has been found or made: i is its id.
LEMMA AddMember ==
  ASSUME GInv, NEW p \in Plays, play[p].pc \in {"members", "member"}, PlaySound(p),
         EntitiesStep, NEW n \in play[p].todo, NEW i, Called(i, n)',
         play'[p].todo = play[p].todo \ {n}, play'[p].ids = play[p].ids \cup {i},
         play'[p].step = play[p].step
  PROVE  MembersFound(p)'
<1>1. Wanted(p)' = Wanted(p)
  BY DEF Wanted, GroupOf, Decl
<1>2. MembersFound(p) /\ WellTyped
  BY DEF PlaySound, GInv
<1>3. \A j \in play'[p].ids : \E m \in Wanted(p).members : Called(j, m)'
  BY <1>2, StaysCalled DEF MembersFound
<1>4. ASSUME NEW m \in Wanted(p).members \ play'[p].todo
      PROVE  \E j \in play'[p].ids : Called(j, m)'
  <2>1. CASE m = n
    BY <2>1
  <2>2. CASE m # n
    <3>1. PICK j \in play[p].ids : Called(j, m)
      BY <1>2, <1>4, <2>2 DEF MembersFound
    <3> QED BY <1>2, <3>1, StaysCalled
  <2> QED BY <2>1, <2>2
<1> QED BY <1>1, <1>2, <1>3, <1>4 DEF MembersFound

LEMMA FindMemberStep ==
  ASSUME GInv, NEW p \in Plays, FindMember(p)
  PROVE  GInv'
<1>1. /\ ~Idle(p) /\ UNCHANGED <<entities, aliases, groups, lastId, undisturbed>> /\ WellTyped
      /\ play[p].pc = "members" /\ Unmapped(p) = {} /\ PlaySound(p)
      /\ MoreGroups(p) /\ Wanted(p) # Nothing /\ MembersFound(p)
  BY DEF FindMember, bounds, Idle, Unmapped, Mapping, GInv, PlaySound
<1>2. PICK n \in play[p].todo :
        LET i == Lookup(n) IN
        play' = IF i # 0
                  THEN [play EXCEPT ![p].todo = @ \ {n}, ![p].ids = @ \cup {i}]
                  ELSE [play EXCEPT ![p].pc = "member", ![p].user = n]
  BY DEF FindMember
<1>3. n \in Names
  BY <1>1, WantedTyped DEF MembersFound, GroupType
<1>4. PICK i : i = Lookup(n)
  OBVIOUS
<1>5. i \in Nat /\ (i # 0 => Called(i, n))
  BY <1>1, <1>3, <1>4, LookedUp
<1>6. EntitiesStep
  BY <1>1 DEF WellTyped, EntitiesTyped, EntitiesStep
<1>7. ASSUME NEW own \in PlayType, own.pc \in {"members", "member"}, own.listed = play[p].listed,
             own.step = play[p].step, own.existing = play[p].existing,
             own.pc = "member" => own.user \in own.todo,
             play' = [play EXCEPT ![p] = own], MembersFound(p)'
      PROVE  GInv'
  <2>1. play'[p] = own /\ Decl(p)' = Decl(p) /\ Mapped(p)' = Mapped(p) /\ GroupOf(p)' = GroupOf(p)
        /\ Wanted(p)' = Wanted(p) /\ (MoreGroups(p)' <=> MoreGroups(p))
    BY <1>1, <1>7 DEF WellTyped, PlaysTyped, Decl, Mapped, GroupOf, Wanted, MoreGroups
  <2>2. PlaySound(p)'
    BY <1>1, <1>7, <2>1 DEF PlaySound
  <2>3. \A u : HasAlias(Decl(p), u) => HasAlias(Decl(p), u)'
    BY <1>1 DEF HasAlias, Decl
  <2>4. p \in undisturbed => AliasesSure(p)'
    <3> SUFFICES ASSUME AliasesSure(p) PROVE AliasesSure(p)'
      BY DEF GInv, Certain
    <3> QED BY <1>1, <1>7, <2>1, <2>3 DEF AliasesSure, Later
  <2>5. p \in undisturbed => GroupsSure(p)'
    <3> SUFFICES ASSUME GroupsSure(p) PROVE GroupsSure(p)'
      BY DEF GInv, Certain
    <3> QED BY <1>1, <1>7, <2>1 DEF GroupsSure, AsRead, SetUp, Kept, IdOf
  <2> QED BY <1>1, <1>7, <2>2, <2>4, <2>5, OwnFacts
<1>8. CASE i # 0
  <2> DEFINE own == [play[p] EXCEPT !.todo = @ \ {n}, !.ids = @ \cup {i}]
  <2>1. play' = [play EXCEPT ![p] = own] /\ own \in PlayType
    BY <1>1, <1>2, <1>4, <1>5, <1>8, OwnType DEF WellTyped, PlaysTyped, PlayType
  <2>2. /\ own.pc = "members" /\ own.listed = play[p].listed /\ own.step = play[p].step
        /\ own.existing = play[p].existing /\ own.todo = play[p].todo \ {n}
        /\ own.ids = play[p].ids \cup {i}
    BY <1>1, OwnType DEF PlayType
  <2> HIDE DEF own
  <2>3. play'[p] = own /\ Called(i, n)'
    BY <1>1, <1>5, <1>8, <2>1 DEF WellTyped, PlaysTyped, Called
  <2>4. MembersFound(p)'
    BY <1>1, <1>6, <2>2, <2>3, AddMember
  <2> QED BY <1>7, <2>1, <2>2, <2>4
<1>9. CASE i = 0
  <2> DEFINE own == [play[p] EXCEPT !.pc = "member", !.user = n]
  <2>1. play' = [play EXCEPT ![p] = own] /\ own \in PlayType
    BY <1>1, <1>2, <1>3, <1>4, <1>9, OwnType DEF WellTyped, PlaysTyped, PlayType, PlayStages
  <2>2. /\ own.pc = "member" /\ own.listed = play[p].listed /\ own.step = play[p].step
        /\ own.existing = play[p].existing /\ own.todo = play[p].todo /\ own.ids = play[p].ids
        /\ own.user = n
    BY <1>1, OwnType DEF PlayType
  <2> HIDE DEF own
  <2>3. play'[p] = own
    BY <1>1, <2>1 DEF WellTyped, PlaysTyped
  <2>4. MembersFound(p)'
    BY <1>1, <2>2, <2>3 DEF MembersFound, Wanted, GroupOf, Decl, Called
  <2> QED BY <1>7, <2>1, <2>2, <2>4
<1> QED BY <1>8, <1>9

LEMMA CreateMemberStep ==
  ASSUME GInv, NEW p \in Plays, CreateMember(p)
  PROVE  GInv'
<1> DEFINE n == play[p].user
           own == [play[p] EXCEPT !.todo = @ \ {n}, !.ids = @ \cup {lastId + 1},
                                  !.user = Nothing, !.pc = "members"]
<1>1. /\ ~Idle(p) /\ UNCHANGED <<aliases, groups, undisturbed>> /\ WellTyped
      /\ play[p].pc = "member" /\ PlaySound(p) /\ n \in play[p].todo
      /\ MoreGroups(p) /\ Wanted(p) # Nothing /\ MembersFound(p)
  BY DEF CreateMember, bounds, Idle, GInv, PlaySound
<1>2. n \in Names
  BY <1>1, WantedTyped DEF MembersFound, GroupType
<1>3. CASE IdOf(n) = {}
  <2>1. /\ lastId' = lastId + 1 /\ entities' = Grow(lastId + 1, n)
        /\ play' = [play EXCEPT ![p].todo = @ \ {n}, ![p].ids = @ \cup {lastId + 1},
                                ![p].user = Nothing, ![p].pc = "members"]
    BY <1>3 DEF CreateMember, Created
  <2>2. play' = [play EXCEPT ![p] = own] /\ own \in PlayType /\ play'[p] = own
    BY <1>1, <2>1, OwnType DEF WellTyped, EntitiesTyped, PlaysTyped, PlayType, PlayStages
  <2>3. /\ own.pc = "members" /\ own.listed = play[p].listed /\ own.step = play[p].step
        /\ own.existing = play[p].existing /\ own.todo = play[p].todo \ {n}
        /\ own.ids = play[p].ids \cup {lastId + 1}
    BY <1>1, <2>1, OwnType DEF PlayType
  <2>4. /\ EntitiesGrow /\ EntitiesStep /\ lastId' \in 1..lastId' /\ entities'[lastId'] = n
    <3> HIDE DEF n
    <3> QED BY <1>1, <1>2, <1>3, <2>1, GrowStep, NothingAssumption DEF EntitiesGrow
  <2> HIDE DEF own
  <2>5. Decl(p)' = Decl(p) /\ GroupOf(p)' = GroupOf(p) /\ Wanted(p)' = Wanted(p)
        /\ (MoreGroups(p)' <=> MoreGroups(p)) /\ Kept(Decl(p))' = Kept(Decl(p))
    BY <2>2, <2>3 DEF Decl, GroupOf, Wanted, MoreGroups, Kept
  <2>6. PICK i, m : i = lastId + 1 /\ m = n
    OBVIOUS
  <2>7. MembersFound(p)'
    <3>1. Called(i, m)'
      BY <2>1, <2>4, <2>6 DEF Called
    <3> QED BY <1>1, <2>2, <2>3, <2>4, <2>6, <3>1, AddMember
  <2>8. PlaySound(p)'
    <3>1. \A a \in own.listed : a.entity \in 1..lastId'
      BY <1>1, <2>1, <2>3 DEF PlaySound, WellTyped, EntitiesTyped
    <3> QED BY <1>1, <2>2, <2>3, <2>5, <2>7, <3>1 DEF PlaySound
  <2>9. p \in undisturbed => AliasesSure(p)'
    <3>1. Unmapped(p)' = Unmapped(p) /\ play[p].pc \in Later /\ play'[p].pc \in Later
      BY <1>1, <2>2, <2>3 DEF Unmapped, Mapping, Later
    <3>2. play'[p].listed = play[p].listed /\ aliases' = aliases /\ PlaySound(p)
      BY <1>1, <2>2, <2>3
    <3>3. p \in undisturbed => AliasesSure(p)
      BY DEF GInv, Certain
    <3> QED BY <1>1, <2>4, <3>1, <3>2, <3>3, AliasesGrown
  <2>10. p \in undisturbed => GroupsSure(p)'
    <3> SUFFICES ASSUME GroupsSure(p) PROVE GroupsSure(p)'
      BY DEF GInv, Certain
    <3>1. \A g \in Groups : SetUp(Decl(p), g) => SetUp(Decl(p), g)'
      BY <1>1, <2>4, StaysDeclared DEF GroupStep
    <3>2. \A k \in 1..Len(Decl(p).order) : Decl(p).order[k] \in Groups
      BY DeclTyped
    <3>3. GroupOf(p) \in Groups
      BY <1>1, WantedTyped
    <3>4. play[p].existing # Nothing =>
            (SetUp(Decl(p), GroupOf(p)) \/ AsRead(Decl(p), GroupOf(p), play[p].existing))'
      BY <1>1, <2>2, <2>3, <2>5, <3>1, <3>3 DEF GroupsSure, AsRead
    <3>5. (\A k \in 1..Len(Decl(p).order) :
             k < play[p].step \/ play[p].pc = "done" => SetUp(Decl(p), Decl(p).order[k]))'
      BY <1>1, <2>2, <2>3, <2>5, <3>1, <3>2 DEF GroupsSure
    <3> QED BY <2>2, <2>3, <3>4, <3>5 DEF GroupsSure
  <2> HIDE DEF n
  <2> QED BY <1>1, <1>2, <1>3, <2>1, <2>2, <2>8, <2>9, <2>10, GrowOnward
<1>4. CASE IdOf(n) # {}
  <2>1. Abort(p) /\ UNCHANGED <<entities, lastId>>
    BY <1>4 DEF CreateMember, Created
  <2> QED BY <1>1, <2>1, AbortStep
<1> QED BY <1>3, <1>4

\* If none of the entities found has gone, they are the members.
LEMMA FoundAll ==
  ASSUME WellTyped, NEW p \in Plays, MembersFound(p), play[p].todo = {},
         play[p].ids \subseteq DOMAIN entities, Wanted(p).members \subseteq Names
  PROVE  /\ \A i \in DOMAIN entities : i \in play[p].ids <=> entities[i] \in Wanted(p).members
         /\ \A n \in Wanted(p).members : IdOf(n) # {}
<1>1. ASSUME NEW n \in Wanted(p).members
      PROVE  \E i \in play[p].ids : i \in DOMAIN entities /\ entities[i] = n
  BY DEF MembersFound, Called
<1>2. \A n \in Wanted(p).members : IdOf(n) # {}
  BY <1>1 DEF IdOf
<1>3. ASSUME NEW i \in play[p].ids PROVE entities[i] \in Wanted(p).members
  BY DEF MembersFound, Called
<1>4. ASSUME NEW i \in DOMAIN entities, entities[i] \in Wanted(p).members
      PROVE  i \in play[p].ids
  <2>1. PICK j \in play[p].ids : j \in DOMAIN entities /\ entities[j] = entities[i]
    BY <1>1, <1>4
  <2>2. entities[i] # Nothing
    BY <1>4, NothingAssumption
  <2> QED BY <2>1, <2>2 DEF WellTyped, EntitiesTyped
<1> QED BY <1>2, <1>3, <1>4

LEMMA CompareGroupStep ==
  ASSUME GInv, NEW p \in Plays, CompareGroup(p)
  PROVE  GInv'
<1> DEFINE wanted == [Wanted(p) EXCEPT !.members = play[p].ids]
<1>1. /\ ~Idle(p) /\ UNCHANGED <<entities, aliases, groups, lastId, undisturbed>> /\ WellTyped
      /\ play[p].pc = "members" /\ play[p].todo = {} /\ Unmapped(p) = {} /\ PlaySound(p)
      /\ MoreGroups(p) /\ Wanted(p) # Nothing /\ MembersFound(p)
  BY DEF CompareGroup, bounds, Idle, Unmapped, Mapping, GInv, PlaySound
<1>2. /\ GroupOf(p) \in Groups /\ Wanted(p) = Decl(p).group[GroupOf(p)] /\ Wanted(p) \in GroupType
      /\ Wanted(p).members \subseteq Names
  BY <1>1, WantedTyped DEF GroupType
<1>3. /\ wanted.members = play[p].ids /\ wanted.policies = Wanted(p).policies
      /\ wanted.subgroups = Wanted(p).subgroups
  BY <1>2 DEF GroupType
<1>4. CASE \E g \in wanted.subgroups : groups[g] = Nothing
  BY <1>1, <1>4, AbortStep DEF CompareGroup, Abort
<1>5. CASE ~(\E g \in wanted.subgroups : groups[g] = Nothing) /\ Differs(play[p].existing, wanted)
  <2> DEFINE own == [play[p] EXCEPT !.pc = "store", !.existing = Nothing]
  <2>1. play' = [play EXCEPT ![p] = own] /\ own \in PlayType /\ play'[p] = own
    BY <1>1, <1>5, OwnType DEF CompareGroup, WellTyped, PlaysTyped, PlayType, PlayStages
  <2>2. /\ own.pc = "store" /\ own.listed = play[p].listed /\ own.step = play[p].step
        /\ own.todo = play[p].todo /\ own.ids = play[p].ids
    BY <1>1, OwnType DEF PlayType
  <2> HIDE DEF own
  <2>3. /\ Decl(p)' = Decl(p) /\ Mapped(p)' = Mapped(p) /\ GroupOf(p)' = GroupOf(p)
        /\ Wanted(p)' = Wanted(p) /\ (MoreGroups(p)' <=> MoreGroups(p))
    BY <2>1, <2>2 DEF Decl, Mapped, GroupOf, Wanted, MoreGroups
  <2>4. MembersFound(p)'
    BY <1>1, <2>1, <2>2, <2>3 DEF MembersFound, Called
  <2>5. PlaySound(p)'
    BY <1>1, <2>1, <2>2, <2>3, <2>4 DEF PlaySound
  <2>6. EntitiesGrow /\ \A g \in Groups : GroupStep(Decl(p), g)
    BY <1>1 DEF WellTyped, EntitiesTyped, EntitiesGrow, EntitiesStep, GroupStep
  <2>7. p \in undisturbed => AliasesSure(p)'
    <3>1. Unmapped(p)' = Unmapped(p) /\ play[p].pc \in Later /\ play'[p].pc \in Later
      BY <1>1, <2>1, <2>2 DEF Unmapped, Mapping, Later
    <3>2. p \in undisturbed => AliasesSure(p)
      BY DEF GInv, Certain
    <3> QED BY <1>1, <2>1, <2>2, <2>6, <3>1, <3>2, AliasesGrown
  <2>8. p \in undisturbed => GroupsSure(p)'
    BY <1>1, <2>1, <2>2, <2>6, GroupsKept DEF GInv, Certain
  <2> QED BY <1>1, <2>1, <2>5, <2>7, <2>8, OwnFacts
<1>6. CASE ~(\E g \in wanted.subgroups : groups[g] = Nothing) /\ ~Differs(play[p].existing, wanted)
  <2>1. play' = NextGroup(p) /\ play[p].existing = wanted /\ play[p].existing # Nothing
    BY <1>6 DEF CompareGroup, Differs
  <2>2. GroupsTyped' /\ \A g \in Groups : GroupStep(Decl(p), g)
    BY <1>1 DEF WellTyped, GroupsTyped, GroupStep
  <2>3. ASSUME p \in undisturbed PROVE SetUp(Decl(p), GroupOf(p))
    <3>1. CASE SetUp(Decl(p), GroupOf(p))
      BY <3>1
    <3>2. CASE AsRead(Decl(p), GroupOf(p), play[p].existing)
      <4>1. groups[GroupOf(p)] # Nothing /\ groups[GroupOf(p)].members = play[p].ids
            /\ groups[GroupOf(p)].policies = Wanted(p).policies
            /\ groups[GroupOf(p)].subgroups \cap Kept(Decl(p))
                 = Wanted(p).subgroups \cap Kept(Decl(p))
        BY <1>3, <2>1, <3>2 DEF AsRead
      <4>2. play[p].ids \subseteq DOMAIN entities
        BY <1>1, <1>2, <4>1 DEF WellTyped, GroupsTyped
      <4> QED BY <1>1, <1>2, <4>1, <4>2, FoundAll DEF SetUp
    <3> QED BY <1>1, <2>1, <2>3, <3>1, <3>2 DEF GInv, Certain, GroupsSure
  <2>4. p \in undisturbed => \A g \in Groups : g = GroupOf(p) => SetUp(Decl(p), g)'
    BY <1>1, <2>3 DEF SetUp, Kept, IdOf, Decl
  <2>5. play[p].pc \in Later
    BY <1>1 DEF Later
  <2> QED BY <1>1, <2>1, <2>2, <2>4, <2>5, Advance
<1> QED BY <1>4, <1>5, <1>6

LEMMA StoreGroupStep ==
  ASSUME GInv, NEW p \in Plays, StoreGroup(p)
  PROVE  GInv'
<1> DEFINE wanted == [Wanted(p) EXCEPT !.members = play[p].ids]
<1>1. /\ play[p].pc = "store" /\ UNCHANGED <<entities, aliases, lastId, undisturbed>>
      /\ WellTyped /\ PlaySound(p)
  BY DEF StoreGroup, bounds, GInv
<1>2. /\ ~Idle(p) /\ play[p].pc \in Later /\ Unmapped(p) = {}
      /\ MoreGroups(p) /\ Wanted(p) # Nothing /\ MembersFound(p) /\ play[p].todo = {}
  BY <1>1 DEF Idle, Unmapped, Mapping, Later, PlaySound
<1>3. /\ GroupOf(p) \in Groups /\ Wanted(p) = Decl(p).group[GroupOf(p)] /\ Wanted(p) \in GroupType
      /\ Wanted(p).members \subseteq Names
  BY <1>1, <1>2, WantedTyped DEF GroupType
<1>4. CASE play[p].ids \subseteq DOMAIN entities
  <2>1. groups' = [groups EXCEPT ![GroupOf(p)] = wanted] /\ play' = NextGroup(p)
    BY <1>4 DEF StoreGroup
  <2>2. /\ wanted \in StoredType /\ wanted # Nothing /\ wanted.members = play[p].ids
        /\ wanted.policies = Wanted(p).policies /\ wanted.subgroups = Wanted(p).subgroups
    <3>1. play[p].ids \subseteq Nat
      BY <1>1, OwnType DEF PlayType
    <3>2. wanted \in StoredType
      BY <1>3, <3>1 DEF GroupType, StoredType
    <3> QED BY <1>3, <3>2, NothingAssumption DEF GroupType
  <2> HIDE DEF wanted
  <2>3. /\ groups'[GroupOf(p)] = wanted
        /\ \A g \in Groups : g # GroupOf(p) => groups'[g] = groups[g]
    BY <1>1, <1>3, <2>1 DEF WellTyped, GroupsTyped
  <2>4. /\ \A i \in DOMAIN entities : i \in play[p].ids <=> entities[i] \in Wanted(p).members
        /\ \A n \in Wanted(p).members : IdOf(n) # {}
    BY <1>1, <1>2, <1>3, <1>4, FoundAll
  <2>5. GroupsTyped'
    <3>1. groups' \in [Groups -> StoredType \cup {Nothing}]
      BY <1>1, <2>1, <2>2 DEF WellTyped, GroupsTyped
    <3>2. \A i \in wanted.members : i \in DOMAIN entities /\ entities[i] \in Names
      BY <1>3, <1>4, <2>2, <2>4
    <3> QED BY <1>1, <2>3, <3>1, <3>2 DEF WellTyped, GroupsTyped
  <2>6. ASSUME NEW g \in Groups, g = GroupOf(p) PROVE SetUp(Decl(p), g)'
    <3>1. /\ Decl(p).group[g] = Wanted(p) /\ groups'[g] = wanted /\ wanted # Nothing
          /\ wanted.policies = Wanted(p).policies /\ wanted.subgroups = Wanted(p).subgroups
          /\ wanted.members = play[p].ids
      BY <1>3, <2>2, <2>3, <2>6
    <3>2. \A n \in Wanted(p).members : IdOf(n)' # {}
      BY <1>1, <2>4 DEF IdOf
    <3>3. Decl(p)' = Decl(p)
      BY DEF Decl
    <3> HIDE DEF SetUp
    <3>4. \A i \in DOMAIN entities' :
            i \in groups'[g].members <=> entities'[i] \in Decl(p).group[g].members
      BY <1>1, <2>4, <3>1
    <3> QED BY <1>2, <3>1, <3>2, <3>3, <3>4 DEF SetUp, Kept
  <2>7. \A g \in Groups : GroupStep(Decl(p), g)
    BY <2>3, <2>6 DEF GroupStep
  <2> QED BY <1>1, <1>2, <2>1, <2>5, <2>6, <2>7, Advance
<1>5. CASE ~(play[p].ids \subseteq DOMAIN entities)
  BY <1>1, <1>2, <1>5, AbortStep DEF StoreGroup
<1> QED BY <1>4, <1>5

LEMMA EndPlayStep ==
  ASSUME GInv, NEW p \in Plays, EndPlay(p)
  PROVE  GInv'
<1> DEFINE own == [AtRest EXCEPT !.pc = "done"]
<1>1. /\ play[p].pc = "group" \/ (play[p].pc = "alias" /\ play[p].todo = {})
      /\ UNCHANGED <<entities, aliases, groups, lastId, undisturbed>> /\ ~MoreGroups(p)
      /\ play' = [play EXCEPT ![p] = own]
  BY DEF EndPlay, bounds
<1>2. /\ own \in PlayType /\ own.pc = "done" /\ own.listed = {} /\ own.step = 1 /\ own.ids = {}
      /\ own.existing = Nothing
  BY DEF AtRest, PlayType, PlayStages
<1> HIDE DEF own
<1>3. /\ ~Idle(p) /\ WellTyped /\ play'[p] = own /\ play[p].pc \in Later /\ play[p].pc # "done"
      /\ Unmapped(p) = {}
  BY <1>1 DEF Idle, GInv, WellTyped, PlaysTyped, Later, Mapping, Unmapped
<1>4. Decl(p)' = Decl(p) /\ Mapped(p)' = Mapped(p)
  BY DEF Decl, Mapped
<1>5. PlaySound(p)'
  BY <1>2, <1>3 DEF PlaySound
<1>6. \A u : HasAlias(Decl(p), u) => HasAlias(Decl(p), u)'
  BY <1>1 DEF HasAlias, Decl
<1>7. p \in undisturbed => AliasesSure(p)'
  <2> SUFFICES ASSUME AliasesSure(p) PROVE AliasesSure(p)'
    BY DEF GInv, Certain
  <2> QED BY <1>1, <1>2, <1>3, <1>4, <1>6 DEF AliasesSure, Later
<1>8. p \in undisturbed => GroupsSure(p)'
  <2> SUFFICES ASSUME GroupsSure(p) PROVE GroupsSure(p)'
    BY DEF GInv, Certain
  <2>1. play[p] \in PlayType
    BY <1>3, OwnType
  <2>2. play[p].step \in Nat /\ Len(Decl(p).order) \in Nat
    BY <2>1, DeclTyped DEF PlayType
  <2>3. \A k \in 1..Len(Decl(p).order) : k < play[p].step
    BY <1>1, <2>2 DEF MoreGroups
  <2> QED BY <1>1, <1>2, <1>3, <1>4, <2>3 DEF GroupsSure, SetUp, Kept, IdOf
<1> QED BY <1>1, <1>2, <1>3, <1>5, <1>7, <1>8, OwnFacts

(***************************************************************************)
(* Beginnings, ends, users and operators.                                  *)
(***************************************************************************)
\* A step beside all plays, by which users at most gain aliases to nameless entities.
LEMMA Beside ==
  ASSUME GInv, UNCHANGED <<play, groups, undisturbed>>, EntitiesGrow, WellTyped',
         aliases \subseteq aliases',
         \A a \in aliases' \ aliases :
           entities'[a.entity] = Nothing /\ \A p \in Plays : a.id \notin play[p].todo
  PROVE  GInv'
<1>1. WellTyped /\ EntitiesStep
  BY DEF GInv, EntitiesGrow
<1>2. \A a \in aliases : entities'[a.entity] = entities[a.entity]
  BY <1>1 DEF WellTyped, AliasesTyped, EntitiesTyped, EntitiesStep, EntitiesGrow
<1>3. ASSUME NEW p \in Plays PROVE PlaySound(p)'
  <2>1. PlaySound(p) /\ play'[p] = play[p]
    BY DEF GInv
  <2> QED BY <1>1, <2>1, OthersSound
<1>4. ASSUME NEW r \in undisturbed PROVE Certain(r)'
  <2>1. r \in Plays /\ Certain(r) /\ play'[r] = play[r] /\ PlaySound(r)
    BY <1>1 DEF GInv, WellTyped, PlaysTyped
  <2>2. \A u : HasAlias(Decl(r), u) => HasAlias(Decl(r), u)'
    BY <1>2 DEF HasAlias, Decl
  <2>3. \A a \in aliases' : entities'[a.entity] = Nothing \/ a.user \in Mapped(r) \/ a \in aliases
    OBVIOUS
  <2>4. \A a \in play[r].listed : a.entity \in 1..lastId
    BY <2>1 DEF PlaySound
  <2>5. AliasesSure(r)'
    BY <1>1, <2>1, <2>2, <2>3, <2>4, AliasesStay DEF Certain
  <2>6. GroupsSure(r)'
    BY <1>1, <2>1, GroupsStay DEF Certain, GroupStep
  <2>7. (\A q \in Plays : ~Idle(q) => Decl(q) = Decl(r))'
    BY <2>1 DEF Certain, Idle, Decl
  <2> QED BY <2>5, <2>6, <2>7 DEF Certain
<1> QED BY <1>3, <1>4 DEF GInv

LEMMA NothingRelevant ==
  ASSUME GInv, UNCHANGED <<entities, aliases, groups, lastId, play, undisturbed>>
  PROVE  GInv'
<1>1. WellTyped' /\ EntitiesGrow
  BY DEF GInv, WellTyped, EntitiesTyped, AliasesTyped, GroupsTyped, PlaysTyped, EntitiesGrow,
         EntitiesStep
<1> QED BY <1>1, Beside

LEMMA LoginStep ==
  ASSUME GInv, Room, NEW u \in Users, Login(u)
  PROVE  GInv'
<1>1. CASE UNCHANGED <<entities, aliases, groups, lastId, play, undisturbed>>
  BY <1>1, NothingRelevant
<1>2. CASE /\ LoginEntity(u) = {} /\ lastId' = lastId + 1
           /\ entities' = Grow(lastId + 1, Nothing)
           /\ aliases' = aliases \cup {NewAlias(u, lastId + 1)}
           /\ UNCHANGED <<groups, play, undisturbed>>
  <2> DEFINE a == NewAlias(u, lastId + 1)
  <2>1. WellTyped /\ lastId \in Nat
    BY DEF GInv, WellTyped, EntitiesTyped
  <2>2. /\ EntitiesTyped' /\ EntitiesGrow /\ entities'[lastId'] = Nothing
        /\ DOMAIN entities' = DOMAIN entities \cup {lastId'}
        /\ \A i \in DOMAIN entities : entities'[i] = entities[i]
    BY <1>2, <2>1, GrowStep
  <2>3. /\ a.id \in Nat /\ a.user = u /\ a.entity = lastId + 1
        /\ a = [user |-> u, entity |-> lastId + 1, id |-> a.id]
        /\ \A b \in aliases : b.id # a.id
    BY NewId
  <2>4. \A p \in Plays : a.id \notin play[p].todo
    BY NewId
  <2>5. \A b \in aliases : b.user # u
    BY <1>2 DEF LoginEntity
  <2>6. aliases' = aliases \cup {a}
    BY <1>2
  <2> HIDE DEF a
  <2>7. a \in AliasType
    BY <2>1, <2>3 DEF AliasType
  <2>8. AliasesTyped'
    BY <1>2, <2>1, <2>2, <2>3, <2>5, <2>6, <2>7 DEF WellTyped, AliasesTyped
  <2>9. WellTyped'
    BY <1>2, <2>1, <2>2, <2>8 DEF WellTyped, GroupsTyped, PlaysTyped
  <2> QED BY <1>2, <2>2, <2>3, <2>4, <2>6, <2>9, Beside
<1> QED BY <1>1, <1>2 DEF Login, bounds

LEMMA DeleteEntityStep ==
  ASSUME GInv, NEW n \in Names, DeleteEntity(n)
  PROVE  GInv'
<1>1. PICK i : i = Lookup(n)
  OBVIOUS
<1>2. /\ entities' = [j \in DOMAIN entities \ {i} |-> entities[j]]
      /\ aliases' = {a \in aliases : a.entity # i}
      /\ groups' = [g \in Groups |-> IF groups[g] = Nothing THEN Nothing
                                     ELSE [groups[g] EXCEPT !.members = @ \ {i}]]
      /\ undisturbed' = {} /\ lastId' = lastId /\ play' = play
  BY <1>1 DEF DeleteEntity
<1>3. WellTyped /\ lastId \in Nat
  BY DEF GInv, WellTyped, EntitiesTyped
<1>4. EntitiesTyped' /\ EntitiesStep
  BY <1>2, <1>3 DEF WellTyped, EntitiesTyped, EntitiesStep
<1>5. AliasesTyped'
  BY <1>2, <1>3 DEF WellTyped, AliasesTyped
<1>6. GroupsTyped'
  <2>1. ASSUME NEW g \in Groups
        PROVE  /\ groups[g] = Nothing => groups'[g] = Nothing
               /\ groups[g] # Nothing => /\ groups'[g] \in StoredType
                                         /\ groups'[g].members = groups[g].members \ {i}
    <3>1. groups[g] \in StoredType \cup {Nothing}
      BY <1>3 DEF WellTyped, GroupsTyped
    <3> QED BY <1>2, <3>1 DEF StoredType
  <2>2. groups' \in [Groups -> StoredType \cup {Nothing}]
    <3>1. groups' = [g \in Groups |-> groups'[g]]
      BY <1>2
    <3> QED BY <2>1, <3>1
  <2> QED BY <1>2, <1>3, <2>1, <2>2 DEF WellTyped, GroupsTyped
<1>7. ASSUME NEW p \in Plays PROVE PlaySound(p)'
  <2>1. PlaySound(p) /\ play'[p] = play[p]
    BY <1>2 DEF GInv
  <2>2. \A a \in aliases' : \E b \in aliases : b.id = a.id /\ b.user = a.user
    BY <1>2
  <2> QED BY <1>3, <1>4, <2>1, <2>2, OthersSound
<1> QED BY <1>2, <1>3, <1>4, <1>5, <1>6, <1>7 DEF GInv, WellTyped, PlaysTyped

LEMMA StartPlayStep ==
  ASSUME GInv, NEW p \in Plays, StartPlay(p)
  PROVE  GInv'
<1> DEFINE own == [AtRest EXCEPT !.pc = "list"]
<1>1. /\ Idle(p) /\ UNCHANGED <<entities, aliases, groups, lastId>>
      /\ play' = [play EXCEPT ![p] = own]
  BY DEF StartPlay
<1>2. \A r \in undisturbed' :
        IF r = p THEN \A q \in Plays : Idle(q) \/ Decl(q) = Decl(p)
                 ELSE r \in undisturbed /\ Decl(r) = Decl(p)
  BY DEF StartPlay, Decl
<1>3. /\ own \in PlayType /\ own.pc = "list" /\ own.listed = {} /\ own.step = 1 /\ own.ids = {}
      /\ own.existing = Nothing
  BY DEF AtRest, PlayType, PlayStages
<1> HIDE DEF own
<1>4. WellTyped /\ play'[p] = own /\ \A q \in Plays \ {p} : play'[q] = play[q]
  BY <1>1 DEF GInv, WellTyped, PlaysTyped
<1>5. WellTyped'
  <2>1. undisturbed' \subseteq Plays
    BY <1>2, <1>4 DEF WellTyped, PlaysTyped
  <2> QED BY <1>1, <1>3, <1>4, <2>1
          DEF WellTyped, EntitiesTyped, AliasesTyped, GroupsTyped, PlaysTyped
<1>6. EntitiesGrow /\ EntitiesStep
  BY <1>1, <1>4 DEF WellTyped, EntitiesTyped, EntitiesGrow, EntitiesStep
<1>7. ASSUME NEW q \in Plays PROVE PlaySound(q)'
  <2>1. CASE q = p
    BY <1>3, <1>4, <2>1 DEF PlaySound
  <2>2. CASE q # p
    BY <1>1, <1>4, <1>6, <2>2, OthersSound DEF GInv
  <2> QED BY <2>1, <2>2
<1>8. ASSUME NEW r \in undisturbed' PROVE Certain(r)'
  <2>1. r \in Plays
    BY <1>5 DEF WellTyped, PlaysTyped
  <2>2. (\A q \in Plays : ~Idle(q) => Decl(q) = Decl(r))'
    <3> SUFFICES ASSUME NEW q \in Plays, ~Idle(q)' PROVE Decl(q) = Decl(r)
      BY DEF Decl
    <3>1. CASE q = p
      BY <1>2, <3>1
    <3>2. CASE q # p
      BY <1>2, <1>4, <3>2 DEF Idle, GInv, Certain
    <3> QED BY <3>1, <3>2
  <2>3. CASE r = p
    <3>1. AliasesSure(r)'
      BY <1>3, <1>4, <2>3 DEF AliasesSure, Later, Mapping
    <3>2. \A k \in 1..Len(Decl(p).order) : ~(k < 1)
      BY DeclTyped
    <3>3. GroupsSure(r)'
      BY <1>3, <1>4, <2>3, <3>2 DEF GroupsSure, Decl
    <3> QED BY <2>2, <3>1, <3>3 DEF Certain
  <2>4. CASE r # p
    <3>1. Certain(r) /\ PlaySound(r) /\ play'[r] = play[r]
      BY <1>2, <1>4, <2>1, <2>4 DEF GInv
    <3>2. \A u : HasAlias(Decl(r), u) => HasAlias(Decl(r), u)'
      BY <1>1 DEF HasAlias, Decl
    <3>3. AliasesSure(r)'
      BY <1>1, <1>4, <1>6, <2>1, <3>1, <3>2, AliasesStay DEF Certain, PlaySound
    <3>4. GroupsSure(r)'
      BY <1>1, <1>4, <1>6, <2>1, <3>1, GroupsStay DEF Certain, GroupStep
    <3> QED BY <2>2, <3>3, <3>4 DEF Certain
  <2> QED BY <2>3, <2>4
<1> QED BY <1>5, <1>7, <1>8 DEF GInv

LEMMA GInit == IdentityInit => GInv
<1> SUFFICES ASSUME IdentityInit PROVE GInv
  OBVIOUS
<1>1. AtRest \in PlayType /\ AtRest.pc = "idle" /\ AtRest.ids = {} /\ AtRest.listed = {}
  BY DEF AtRest, PlayType, PlayStages
<1>2. play \in [Plays -> PlayType] /\ \A p \in Plays : play[p] = AtRest
  BY <1>1 DEF IdentityInit
<1>3. DOMAIN entities = {}
  BY DEF IdentityInit
<1>4. WellTyped
  BY <1>2, <1>3
     DEF IdentityInit, WellTyped, EntitiesTyped, AliasesTyped, GroupsTyped, PlaysTyped
<1>5. \A p \in Plays : PlaySound(p)
  BY <1>1, <1>2 DEF PlaySound
<1> QED BY <1>4, <1>5 DEF GInv, IdentityInit

LEMMA PlayStep ==
  ASSUME GInv, Room, NEW p \in Plays, Playing(p)
  PROVE  GInv'
  BY ListAliasesStep, DeleteUnlistedStep, BeginMappingStep, LookupEntityStep, CreateEntityStep,
     WriteAliasStep, ReadGroupStep, FindMemberStep, CreateMemberStep, CompareGroupStep,
     StoreGroupStep, RemoveGroupStep, EndPlayStep DEF Playing

LEMMA GStep ==
  ASSUME GInv, Room, [IdentityNext]_identityVars
  PROVE  GInv'
<1>1. CASE \E r \in Plays : StartPlay(r)
  BY <1>1, StartPlayStep
<1>2. CASE \E r \in Plays : Playing(r)
  BY <1>2, PlayStep
<1>3. CASE \E r \in Plays : PlayFails(r)
  BY <1>3, AbortStep DEF PlayFails
<1>4. CASE \E u \in Users : Login(u)
  BY <1>4, LoginStep
<1>5. CASE Expire
  BY <1>5, NothingRelevant DEF Expire, bounds
<1>6. CASE \E n \in Names : DeleteEntity(n)
  BY <1>6, DeleteEntityStep
<1>7. CASE UNCHANGED identityVars
  BY <1>7, NothingRelevant DEF identityVars
<1> QED BY <1>1, <1>2, <1>3, <1>4, <1>5, <1>6, <1>7 DEF IdentityNext

THEOREM GInvHolds == IdentitySpec /\ []Room => []GInv
<1>1. GInv /\ Room /\ [IdentityNext]_identityVars => GInv'
  BY GStep
<1> QED BY <1>1, GInit, PTL DEF IdentitySpec

(***************************************************************************)
(* What users may do.                                                      *)
(***************************************************************************)
\* Every group is declared, be it absent.
EveryGroup == \A r \in Plays : ToSet(Decl(r).order) = Groups

LEMMA DealtWith ==
  ASSUME GInv, EveryGroup, NEW r \in Plays, InForce(r)
  PROVE  \A g \in Groups : SetUp(Decl(r), g)
<1>1. GroupsSure(r) /\ play[r].pc = "done"
  BY DEF InForce, GInv, Certain
<1>2. ASSUME NEW g \in Groups PROVE \E k \in 1..Len(Decl(r).order) : Decl(r).order[k] = g
  <2>1. g \in ToSet(Decl(r).order)
    BY DEF EveryGroup
  <2> QED BY <2>1, DeclTyped DEF ToSet
<1> QED BY <1>1, <1>2 DEF GroupsSure

\* Where groups are as declared, so is what an entity may do.
LEMMA GrantsAsDeclared ==
  ASSUME WellTyped, EveryGroup, NEW r \in Plays, \A g \in Groups : SetUp(Decl(r), g),
         NEW i \in DOMAIN entities
  PROVE  Granted(i) = IF entities[i] = Nothing THEN {} ELSE DeclaredGrant(r, entities[i])
<1> DEFINE d == Decl(r)
<1>1. Present(r) = Kept(d) /\ Kept(d) \subseteq Groups
  BY DEF EveryGroup, Present, Kept
<1>2. \A g \in Groups : groups[g] # Nothing <=> g \in Kept(d)
  BY DEF SetUp, Kept
<1>3. ASSUME NEW g \in Kept(d)
      PROVE  /\ groups[g].policies = d.group[g].policies
             /\ groups[g].subgroups \cap Kept(d) = d.group[g].subgroups \cap Kept(d)
             /\ i \in groups[g].members <=> entities[i] \in d.group[g].members
             /\ d.group[g].members \subseteq Names
  <2>1. g \in Groups /\ d.group[g] # Nothing
    BY DEF Kept
  <2>2. d.group[g].members \subseteq Names
    BY <2>1, DeclTyped DEF GroupType
  <2> QED BY <2>1, <2>2 DEF SetUp
<1>4. DirectGroups(i) = {g \in Kept(d) : entities[i] \in d.group[g].members}
  BY <1>1, <1>2, <1>3 DEF DirectGroups
<1>5. ASSUME NEW gs \in SUBSET Kept(d)
      PROVE  Above(gs) = DeclaredAbove(r, gs) /\ Above(gs) \in SUBSET Kept(d)
  <2>1. \A h \in Kept(d) : groups[h].subgroups \cap gs = d.group[h].subgroups \cap gs
    BY <1>3
  <2>2. Above(gs) = gs \cup {h \in Kept(d) : d.group[h].subgroups \cap gs # {}}
    BY <1>1, <1>2, <2>1 DEF Above
  <2> QED BY <1>1, <2>2 DEF DeclaredAbove
<1>6. CASE entities[i] = Nothing
  <2>1. DirectGroups(i) = {}
    BY <1>3, <1>4, <1>6, NothingAssumption
  <2>2. Above({}) = {}
    BY DEF Above
  <2>3. Granted(i) = UNION {groups[g].policies : g \in {}}
    BY <2>1, <2>2 DEF Granted
  <2> QED BY <1>6, <2>3
<1>7. CASE entities[i] # Nothing
  <2>1. DirectGroups(i) = DeclaredGroups(r, entities[i]) /\ DirectGroups(i) \in SUBSET Kept(d)
    BY <1>1, <1>4 DEF DeclaredGroups
  <2> DEFINE gs == DeclaredAbove(r, DeclaredAbove(r, DeclaredGroups(r, entities[i])))
  <2>2. Above(Above(DirectGroups(i))) = gs /\ gs \in SUBSET Kept(d)
    BY <1>5, <2>1
  <2>3. Granted(i) = UNION {groups[g].policies : g \in gs}
    BY <2>2 DEF Granted
  <2>4. DeclaredGrant(r, entities[i]) = UNION {d.group[g].policies : g \in gs}
    BY DEF DeclaredGrant
  <2> HIDE DEF gs
  <2>5. {groups[g].policies : g \in gs} = {d.group[g].policies : g \in gs}
    BY <1>3, <2>2
  <2> QED BY <1>7, <2>3, <2>4, <2>5
<1> QED BY <1>6, <1>7

\* For any users, names, groups, declarations and plays at once, if a declaration says of
\* every group what it is or that it is absent, and ids do not run out: after a play that
\* ended well everybody may do what is declared (vault_auth_method_entity_aliases.py and
\* vault_group.py, run_module).
THEOREM EverybodyAsDeclared ==
  ASSUME EveryGroup
  PROVE  IdentitySpec /\ []Room => []AccessAsDeclared
<1>1. GInv => AccessAsDeclared
  <2> SUFFICES ASSUME GInv, NEW r \in Plays, InForce(r)
               PROVE  /\ \A u \in Users : Access(u) = DeclaredAccess(r, u)
                      /\ \A t \in tokens : t[2] \in DOMAIN entities =>
                           Granted(t[2]) = IF entities[t[2]] = Nothing THEN {}
                                           ELSE DeclaredGrant(r, entities[t[2]])
    BY DEF AccessAsDeclared
  <2>1. WellTyped /\ AliasesSure(r) /\ play[r].pc \in Later /\ Unmapped(r) = {}
    BY DEF GInv, InForce, Certain, Later, Unmapped, Mapping
  <2>2. ASSUME NEW i \in DOMAIN entities
        PROVE  Granted(i) = IF entities[i] = Nothing THEN {} ELSE DeclaredGrant(r, entities[i])
    BY <2>1, DealtWith, GrantsAsDeclared
  <2>3. ASSUME NEW u \in Users PROVE Access(u) = DeclaredAccess(r, u)
    <3>1. CASE u \in Mapped(r)
      <4>1. PICK a \in aliases : a.user = u /\ entities[a.entity] = Decl(r).alias[u]
        BY <2>1, <3>1 DEF AliasesSure, HasAlias
      <4>2. LoginEntity(u) = {a.entity} /\ a.entity \in DOMAIN entities
        BY <2>1, <4>1 DEF LoginEntity, WellTyped, AliasesTyped
      <4>3. Access(u) = Granted(a.entity)
        BY <4>2 DEF Access
      <4>4. Decl(r).alias[u] # Nothing
        BY <3>1 DEF Mapped
      <4> QED BY <2>2, <3>1, <4>1, <4>2, <4>3, <4>4 DEF DeclaredAccess
    <3>2. CASE u \notin Mapped(r)
      <4>1. \A i \in LoginEntity(u) : i \in DOMAIN entities /\ entities[i] = Nothing
        BY <2>1, <3>2 DEF LoginEntity, WellTyped, AliasesTyped, AliasesSure
      <4>2. \A i \in LoginEntity(u) : Granted(i) = {}
        BY <2>2, <4>1
      <4>3. Access(u) = {}
        BY <4>2 DEF Access
      <4> QED BY <3>2, <4>3 DEF DeclaredAccess
    <3> QED BY <3>1, <3>2
  <2> QED BY <2>2, <2>3
<1> QED BY <1>1, GInvHolds, PTL

\* An alias that a play writes for a user is to the entity that the play declares.
LEMMA WrittenAsDeclared ==
  ASSUME GInv, NEW p \in Plays, WriteAlias(p), NEW i \in DOMAIN entities,
         play[p].entity \in DOMAIN entities, entities[i] # Nothing,
         Decl(p).alias[play[p].user] = entities[i]
  PROVE  play[p].entity = i
  BY DEF WriteAlias, GInv, PlaySound, Called, WellTyped, EntitiesTyped

\* Aliases and groups that all plays at work declare are left alone by every step.
LEMMA AliasKept ==
  ASSUME GInv, Room, [IdentityNext]_identityVars, DOMAIN entities \subseteq DOMAIN entities',
         NEW u \in Users, NEW i \in DOMAIN entities, i \in LoginEntity(u), entities[i] # Nothing,
         \A r \in Working : Decl(r).alias[u] = entities[i]
  PROVE  i \in LoginEntity(u)'
<1>1. PICK a \in aliases : a.user = u /\ a.entity = i
  BY DEF LoginEntity
<1> SUFFICES \E b \in aliases' : b.user = u /\ b.entity = i
  BY DEF LoginEntity
<1>2. CASE aliases \subseteq aliases'
  BY <1>1, <1>2
<1>3. CASE \E p \in Plays : DeleteUnlisted(p)
  <2>1. PICK p \in Plays : DeleteUnlisted(p)
    BY <1>3
  <2>2. PICK j \in play[p].todo : aliases' = {b \in aliases : b.id # j}
    BY <2>1 DEF DeleteUnlisted
  <2>3. play[p].pc = "unlist" /\ p \in Working
    BY <2>1 DEF DeleteUnlisted, Working, Idle
  <2>4. u \in Mapped(p)
    BY <2>3 DEF Mapped
  <2>5. a.id # j
    BY <1>1, <2>2, <2>3, <2>4 DEF GInv, PlaySound
  <2> QED BY <1>1, <2>2, <2>5
<1>4. CASE \E p \in Plays : WriteAlias(p)
  <2>1. PICK p \in Plays : WriteAlias(p)
    BY <1>4
  <2>2. CASE play[p].entity \notin DOMAIN entities
    BY <1>1, <2>1, <2>2 DEF WriteAlias
  <2>3. CASE play[p].entity \in DOMAIN entities
    <3>1. /\ Point(play[p].user, play[p].entity) /\ UNCHANGED <<entities, lastId>> /\ WellTyped
          /\ play[p].user \in Users /\ p \in Working
      BY <2>1, <2>3 DEF WriteAlias, GInv, PlaySound, Mapped, Working, Idle
    <3>2. /\ \E b \in aliases' : b.user = play[p].user /\ b.entity = play[p].entity
          /\ \A b \in aliases : b.user # play[p].user => b \in aliases'
      BY <2>3, <3>1, PointStep
    <3>3. CASE play[p].user = u
      BY <2>1, <2>3, <3>1, <3>2, <3>3, WrittenAsDeclared
    <3>4. CASE play[p].user # u
      BY <1>1, <3>2, <3>4
    <3> QED BY <3>3, <3>4
  <2> QED BY <2>2, <2>3
<1>5. CASE \E n \in Names : DeleteEntity(n)
  <2>1. PICK n \in Names : DeleteEntity(n)
    BY <1>5
  <2>2. Lookup(n) \in DOMAIN entities /\ DOMAIN entities' = DOMAIN entities \ {Lookup(n)}
    BY <2>1 DEF DeleteEntity, Lookup, IdOf
  <2> QED BY <2>2
<1>6. CASE \E v \in Users : Login(v)
  <2>1. aliases \subseteq aliases'
    BY <1>6 DEF Login
  <2> QED BY <1>2, <2>1
<1> QED BY <1>2, <1>3, <1>4, <1>5, <1>6
        DEF IdentityNext, identityVars, Playing, StartPlay, PlayFails, Expire, ListAliases,
            BeginMapping, LookupEntity, CreateEntity, ReadGroup, FindMember, CreateMember,
            CompareGroup, StoreGroup, RemoveGroup, EndPlay

LEMMA MemberKept ==
  ASSUME GInv, [IdentityNext]_identityVars, DOMAIN entities \subseteq DOMAIN entities',
         NEW i \in DOMAIN entities, entities[i] # Nothing, NEW g \in DirectGroups(i),
         \A r \in Working : g \in DeclaredGroups(r, entities[i])
  PROVE  i \in groups'[g].members
<1>1. g \in Groups /\ groups[g] # Nothing /\ i \in groups[g].members /\ WellTyped
  BY DEF DirectGroups, GInv
<1>2. CASE groups' = groups
  BY <1>1, <1>2
<1>3. CASE \E p \in Plays : StoreGroup(p) /\ play[p].ids \subseteq DOMAIN entities
  <2>1. PICK p \in Plays : StoreGroup(p) /\ play[p].ids \subseteq DOMAIN entities
    BY <1>3
  <2>2. /\ p \in Working /\ MembersFound(p) /\ play[p].todo = {} /\ MoreGroups(p)
        /\ Wanted(p) # Nothing
    BY <2>1 DEF StoreGroup, Working, Idle, GInv, PlaySound
  <2>3. groups' = [groups EXCEPT ![GroupOf(p)] = [Wanted(p) EXCEPT !.members = play[p].ids]]
    BY <2>1 DEF StoreGroup
  <2>4. GroupOf(p) \in Groups /\ Wanted(p) = Decl(p).group[GroupOf(p)] /\ Wanted(p) \in GroupType
        /\ Wanted(p).members \subseteq Names
    BY <1>1, <2>2, WantedTyped DEF GroupType
  <2>5. CASE g = GroupOf(p)
    <3>1. entities[i] \in Wanted(p).members
      BY <2>2, <2>4, <2>5 DEF DeclaredGroups
    <3>2. i \in play[p].ids
      BY <1>1, <2>1, <2>2, <2>4, <3>1, FoundAll
    <3>3. groups'[g] = [Wanted(p) EXCEPT !.members = play[p].ids]
      BY <1>1, <2>3, <2>5 DEF WellTyped, GroupsTyped
    <3> QED BY <2>4, <3>2, <3>3 DEF GroupType
  <2>6. CASE g # GroupOf(p)
    BY <1>1, <2>3, <2>6 DEF WellTyped, GroupsTyped
  <2> QED BY <2>5, <2>6
<1>4. CASE \E p \in Plays : RemoveGroup(p)
  <2>1. PICK p \in Plays : RemoveGroup(p)
    BY <1>4
  <2>2. p \in Working /\ MoreGroups(p) /\ Wanted(p) = Nothing
    BY <2>1 DEF RemoveGroup, Working, Idle, GInv, PlaySound
  <2>3. g # GroupOf(p)
    BY <2>2 DEF DeclaredGroups, Present, Wanted
  <2>4. groups'[g] = [groups[g] EXCEPT !.subgroups = @ \ {GroupOf(p)}]
    BY <1>1, <2>1, <2>3 DEF RemoveGroup, WithoutGroup
  <2> QED BY <1>1, <2>4 DEF WellTyped, GroupsTyped, StoredType
<1>5. CASE \E n \in Names : DeleteEntity(n)
  <2>1. PICK n \in Names : DeleteEntity(n)
    BY <1>5
  <2>2. Lookup(n) \in DOMAIN entities /\ DOMAIN entities' = DOMAIN entities \ {Lookup(n)}
    BY <2>1 DEF DeleteEntity, Lookup, IdOf
  <2> QED BY <2>2
<1>6. CASE \E v \in Users : Login(v)
  <2>1. groups' = groups
    BY <1>6 DEF Login
  <2> QED BY <1>2, <2>1
<1> QED BY <1>2, <1>3, <1>4, <1>5, <1>6
        DEF IdentityNext, identityVars, Playing, StartPlay, PlayFails, Expire, ListAliases,
            DeleteUnlisted, BeginMapping, LookupEntity, CreateEntity, WriteAlias, ReadGroup,
            FindMember, CreateMember, CompareGroup, StoreGroup, EndPlay

\* A user mapped as all plays at work declare stays so at every step, and in the groups that
\* all of them declare (vault_auth_method_entity_aliases.py and vault_group.py, run_module).
THEOREM MappedKeepAccess == IdentitySpec /\ []Room => KeepsAccess
<1>1. GInv /\ Room /\ [IdentityNext]_identityVars =>
        [DOMAIN entities \subseteq DOMAIN entities' =>
           \A u \in Users, i \in DOMAIN entities :
             (i \in LoginEntity(u) /\ entities[i] # Nothing
                /\ \A r \in Working : Decl(r).alias[u] = entities[i])
               => /\ i \in LoginEntity(u)'
                  /\ \A g \in DirectGroups(i) :
                       (\A r \in Working : g \in DeclaredGroups(r, entities[i]))
                         => i \in groups[g].members']_identityVars
  BY AliasKept, MemberKept
<1> QED BY <1>1, GInvHolds, PTL DEF IdentitySpec, KeepsAccess

(***************************************************************************)
(* What a group structure G grants.                                        *)
(***************************************************************************)
In(G, i) == {g \in Groups : G[g] # Nothing /\ i \in G[g].members}
AboveIn(G, gs) == gs \cup {h \in Groups : G[h] # Nothing /\ G[h].subgroups \cap gs # {}}
GrantedIn(G, i) == UNION {G[g].policies : g \in AboveIn(G, AboveIn(G, In(G, i)))}

LEMMA GrantedNow ==
  ASSUME NEW i
  PROVE  /\ i \in DOMAIN entities => Granted(i) = GrantedIn(groups, i)
         /\ Granted(i)' \subseteq GrantedIn(groups', i)
<1>1. i \in DOMAIN entities => Granted(i) = GrantedIn(groups, i)
  BY DEF Granted, DirectGroups, Above, GrantedIn, In, AboveIn
<1>2. CASE i \in DOMAIN entities'
  <2>1. Granted(i)' = GrantedIn(groups', i)
    BY <1>2 DEF Granted, DirectGroups, Above, GrantedIn, In, AboveIn
  <2> QED BY <1>1, <2>1
<1>3. CASE i \notin DOMAIN entities'
  <2>1. Granted(i)' = UNION {groups'[g].policies : g \in {}}
    BY <1>3 DEF Granted
  <2> QED BY <1>1, <2>1
<1> QED BY <1>2, <1>3

\* Without a group there is nothing.
LEMMA NoGroupNothing ==
  ASSUME NEW G, NEW i, In(G, i) = {}
  PROVE  GrantedIn(G, i) = {}
<1>1. AboveIn(G, {}) = {}
  BY DEF AboveIn
<1> QED BY <1>1 DEF GrantedIn

\* Less is granted where groups have fewer members and belong to fewer groups.
LEMMA GrantsShrink ==
  ASSUME NEW G, NEW H, NEW i,
         \A g \in Groups : H[g] # Nothing =>
           /\ G[g] # Nothing /\ H[g].policies = G[g].policies
           /\ H[g].subgroups \subseteq G[g].subgroups
           /\ i \in H[g].members => i \in G[g].members
  PROVE  GrantedIn(H, i) \subseteq GrantedIn(G, i)
<1>1. In(H, i) \subseteq In(G, i) /\ \A g \in In(H, i) : g \in Groups /\ H[g] # Nothing
  BY DEF In
<1>2. ASSUME NEW S, NEW T, S \subseteq T, \A g \in S : g \in Groups /\ H[g] # Nothing
      PROVE  /\ AboveIn(H, S) \subseteq AboveIn(G, T)
             /\ \A g \in AboveIn(H, S) : g \in Groups /\ H[g] # Nothing
  BY <1>2 DEF AboveIn
<1> DEFINE few == AboveIn(H, AboveIn(H, In(H, i)))
           many == AboveIn(G, AboveIn(G, In(G, i)))
<1>3. few \subseteq many /\ \A g \in few : g \in Groups /\ H[g] # Nothing
  BY <1>1, <1>2
<1>4. GrantedIn(H, i) = UNION {H[g].policies : g \in few}
  BY DEF GrantedIn
<1>5. GrantedIn(G, i) = UNION {G[g].policies : g \in many}
  BY DEF GrantedIn
<1> HIDE DEF few, many
<1>6. \A g \in few : g \in many /\ H[g].policies = G[g].policies
  BY <1>3
<1> QED BY <1>4, <1>5, <1>6

LEMMA NamelessGetNothing ==
  ASSUME WellTyped', NEW i \in DOMAIN entities', entities'[i] = Nothing
  PROVE  Granted(i)' = {}
<1>1. In(groups', i) = {}
  BY NothingAssumption DEF WellTyped, GroupsTyped, In
<1> QED BY <1>1, GrantedNow, NoGroupNothing

GroupsShrink ==
  \A g \in Groups : groups'[g] # Nothing =>
    /\ groups[g] # Nothing /\ groups'[g].policies = groups[g].policies
    /\ groups'[g].subgroups \subseteq groups[g].subgroups
    /\ groups'[g].members \subseteq groups[g].members

\* What a user loses, or gets of an entity without a name, adds nothing.
LEMMA GainsNothing ==
  ASSUME WellTyped, WellTyped', NEW u \in Users,
         \A a \in aliases' : a.user = u =>
           entities'[a.entity] = Nothing \/ (GroupsShrink /\ a \in aliases)
  PROVE  Access(u)' \subseteq Access(u)
<1>1. ASSUME NEW i \in LoginEntity(u)' PROVE Granted(i)' \subseteq Access(u)
  <2>1. PICK a \in aliases' : a.user = u /\ a.entity = i
    BY DEF LoginEntity
  <2>2. CASE entities'[i] = Nothing
    <3>1. i \in DOMAIN entities'
      BY <2>1 DEF WellTyped, AliasesTyped
    <3> QED BY <2>2, <3>1, NamelessGetNothing
  <2>3. CASE GroupsShrink /\ a \in aliases
    <3>1. i \in LoginEntity(u) /\ i \in DOMAIN entities
      BY <2>1, <2>3 DEF LoginEntity, WellTyped, AliasesTyped
    <3>2. GrantedIn(groups', i) \subseteq GrantedIn(groups, i)
      BY <2>3, GrantsShrink DEF GroupsShrink
    <3>3. Granted(i)' \subseteq Granted(i)
      BY <3>1, <3>2, GrantedNow
    <3> QED BY <3>1, <3>3 DEF Access
  <2> QED BY <2>1, <2>2, <2>3
<1> QED BY <1>1 DEF Access

LEMMA LeaverStep ==
  ASSUME GInv, GInv', Room, [IdentityNext]_identityVars, NEW u \in Users,
         \A r \in Working : u \notin Mapped(r) /\ r \in undisturbed
  PROVE  Access(u)' \subseteq Access(u)
<1>1. WellTyped /\ WellTyped'
  BY DEF GInv
<1>2. groups' = groups => GroupsShrink
  BY DEF GroupsShrink
<1>3. CASE groups' = groups /\ aliases' \subseteq aliases
  BY <1>1, <1>2, <1>3, GainsNothing
<1>4. CASE \E p \in Plays : WriteAlias(p) /\ play[p].entity \in DOMAIN entities
  <2>1. PICK p \in Plays : WriteAlias(p) /\ play[p].entity \in DOMAIN entities
    BY <1>4
  <2>2. /\ Point(play[p].user, play[p].entity) /\ UNCHANGED <<entities, groups, lastId>>
        /\ play[p].user \in Users /\ play[p].user \in Mapped(p) /\ p \in Working
    BY <2>1 DEF WriteAlias, GInv, PlaySound, Mapped, Working, Idle
  <2>3. \A a \in aliases' : a.user # play[p].user => a \in aliases
    BY <1>1, <2>1, <2>2, PointStep
  <2> QED BY <1>1, <1>2, <2>2, <2>3, GainsNothing
<1>5. CASE \E p \in Plays : StoreGroup(p)
  <2>1. PICK p \in Plays : StoreGroup(p)
    BY <1>5
  <2>2. play[p].pc = "store" /\ p \in Working /\ UNCHANGED <<entities, aliases>>
    BY <2>1 DEF StoreGroup, Working, Idle
  <2>3. \A a \in aliases : a.user = u => entities[a.entity] = Nothing
    BY <2>2 DEF GInv, Certain, AliasesSure, Later
  <2> QED BY <1>1, <2>2, <2>3, GainsNothing
<1>6. CASE \E p \in Plays : RemoveGroup(p)
  <2>1. PICK p \in Plays : RemoveGroup(p)
    BY <1>6
  <2>2. /\ UNCHANGED <<entities, aliases>>
        /\ \A g \in Groups : groups'[g] # Nothing =>
             groups[g] # Nothing /\ groups'[g] = [groups[g] EXCEPT !.subgroups = @ \ {GroupOf(p)}]
    BY <2>1 DEF RemoveGroup, WithoutGroup
  <2>3. GroupsShrink
    BY <1>1, <2>2 DEF GroupsShrink, WellTyped, GroupsTyped, StoredType
  <2> QED BY <1>1, <2>2, <2>3, GainsNothing
<1>7. CASE \E v \in Users : Login(v)
  <2>1. PICK v \in Users : Login(v)
    BY <1>7
  <2>2. CASE aliases' = aliases /\ groups' = groups
    BY <1>3, <2>2
  <2>3. CASE /\ aliases' = aliases \cup {NewAlias(v, lastId + 1)} /\ groups' = groups
             /\ entities' = Grow(lastId + 1, Nothing)
    <3>1. NewAlias(v, lastId + 1).entity = lastId + 1
      BY DEF NewAlias
    <3>2. entities'[lastId + 1] = Nothing
      BY <2>3 DEF Grow
    <3> QED BY <1>1, <1>2, <2>3, <3>1, <3>2, GainsNothing
  <2> QED BY <2>1, <2>2, <2>3 DEF Login
<1>8. CASE \E n \in Names : DeleteEntity(n)
  <2>1. PICK n \in Names : DeleteEntity(n)
    BY <1>8
  <2>2. /\ aliases' \subseteq aliases
        /\ \A g \in Groups : groups'[g] # Nothing =>
             groups[g] # Nothing /\ groups'[g] = [groups[g] EXCEPT !.members = @ \ {Lookup(n)}]
    BY <2>1 DEF DeleteEntity
  <2>3. GroupsShrink
    BY <1>1, <2>2 DEF GroupsShrink, WellTyped, GroupsTyped, StoredType
  <2> QED BY <1>1, <2>2, <2>3, GainsNothing
<1>9. CASE \E p \in Plays : DeleteUnlisted(p)
  BY <1>3, <1>9 DEF DeleteUnlisted
<1> QED BY <1>3, <1>4, <1>5, <1>6, <1>7, <1>8, <1>9
        DEF IdentityNext, identityVars, Playing, StartPlay, PlayFails, Expire, ListAliases,
            BeginMapping, LookupEntity, CreateEntity, WriteAlias, ReadGroup, FindMember,
            CreateMember, CompareGroup, EndPlay

\* Whoever no play at work declares gains nothing by any of their steps, nor by logging in
\* again (vault_auth_method_entity_aliases.py deletes aliases before vault_group.py runs).
THEOREM LeaversGainNothing == IdentitySpec /\ []Room => LeaverGainsNothing
<1>1. GInv /\ GInv' /\ Room /\ [IdentityNext]_identityVars =>
        [\A u \in Users : (\A r \in Working : u \notin Mapped(r) /\ r \in undisturbed)
                           => Access(u)' \subseteq Access(u)]_identityVars
  BY LeaverStep
<1> QED BY <1>1, GInvHolds, PTL DEF IdentitySpec, LeaverGainsNothing
=============================================================================
