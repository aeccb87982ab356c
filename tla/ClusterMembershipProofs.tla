------------------------ MODULE ClusterMembershipProofs ------------------------
(***************************************************************************)
(* Proofs about ClusterMembership, for any number of servers and whatever  *)
(* the report lags behind: unless it is told to, no play loses the quorum; *)
(* and about HelperPlaybook, for any number of helpers and main playbooks. *)
(***************************************************************************)
EXTENDS ClusterMembership, HelperPlaybook, FiniteSetTheorems, TLAPS

\* The asserts of remove_old_cluster_nodes and restart are not switched off.
Careful == AllowLossRemoving = FALSE /\ AllowLossRestart = FALSE

(***************************************************************************)
(* Majorities.                                                             *)
(***************************************************************************)
MostOf(good, voters) == Cardinality(good) >= Majority(voters)

LEMMA Counts ==
  ASSUME NEW S \in SUBSET Servers
  PROVE  IsFiniteSet(S) /\ Cardinality(S) \in Nat
BY ServersAssumption, FS_Subset, FS_CardinalityType

LEMMA CountsGrow ==
  ASSUME NEW S \in SUBSET Servers, NEW T \in SUBSET S
  PROVE  Cardinality(T) \in Nat /\ Cardinality(S) \in Nat /\ Cardinality(T) <= Cardinality(S)
BY Counts, FS_Subset

LEMMA CountsWithout ==
  ASSUME NEW S \in SUBSET Servers, NEW x
  PROVE  Cardinality(S \ {x}) \in Nat /\ Cardinality(S \ {x}) >= Cardinality(S) - 1
<1>1. IsFiniteSet(S) /\ Cardinality(S) \in Nat
  BY Counts
<1>2. Cardinality(S \ {x}) = IF x \in S THEN Cardinality(S) - 1 ELSE Cardinality(S)
  BY <1>1, FS_RemoveElement
<1>3. Cardinality(S \ {x}) \in Nat
  BY Counts
<1> QED BY <1>1, <1>2, <1>3

\* Being a majority is outnumbering the rest.
LEMMA Outnumbers ==
  ASSUME NEW voters \in SUBSET Servers, NEW good \in SUBSET voters
  PROVE  MostOf(good, voters) <=> Cardinality(good) > Cardinality(voters \ good)
<1>1. /\ IsFiniteSet(good) /\ IsFiniteSet(voters \ good)
      /\ Cardinality(good) \in Nat /\ Cardinality(voters \ good) \in Nat
  BY Counts
<1>2. good \cup (voters \ good) = voters /\ good \cap (voters \ good) = {}
  OBVIOUS
<1>3. Cardinality(voters) = Cardinality(good) + Cardinality(voters \ good)
  BY <1>1, <1>2, FS_Union, FS_EmptySet
<1> QED BY <1>1, <1>3 DEF MostOf, Majority

\* A majority stays one when it grows and the rest does not.
LEMMA MajorityStays ==
  ASSUME NEW voters \in SUBSET Servers, NEW good \in SUBSET voters, MostOf(good, voters),
         NEW voters2 \in SUBSET Servers, NEW good2 \in SUBSET voters2,
         good \subseteq good2, voters2 \ good2 \subseteq voters \ good
  PROVE  MostOf(good2, voters2)
<1>1. Cardinality(good) > Cardinality(voters \ good)
  BY Outnumbers
<1>2. Cardinality(good2) >= Cardinality(good)
  BY CountsGrow
<1>3. Cardinality(voters \ good) >= Cardinality(voters2 \ good2)
  BY CountsGrow
<1>4. /\ Cardinality(good) \in Nat /\ Cardinality(voters \ good) \in Nat
      /\ Cardinality(good2) \in Nat /\ Cardinality(voters2 \ good2) \in Nat
  BY Counts
<1> QED BY <1>1, <1>2, <1>3, <1>4, Outnumbers

LEMMA QuorateIsMostOf == Quorate <=> MostOf(peers \cap Healthy, peers)
BY DEF Quorate, MostOf

(***************************************************************************)
(* Types.                                                                  *)
(***************************************************************************)
LEMMA TypeInit == Init => TypeOK
BY ServersAssumption DEF Init, TypeOK, Healthy

LEMMA TypeNext == TypeOK /\ [Next]_vars => TypeOK'
<1> SUFFICES ASSUME TypeOK, [Next]_vars PROVE TypeOK'
  OBVIOUS
<1> USE ServersAssumption DEF TypeOK, cluster
<1>1. CASE StartPlay
  BY <1>1 DEF StartPlay, GroupHosts
<1>2. CASE InitialisedUnsealed \/ Joined \/ AssertQuorum \/ Removed
  BY <1>2 DEF InitialisedUnsealed, Joined, AssertQuorum, Removed
<1>3. ASSUME NEW s \in Servers, UnsealInitialised(s) \/ Join(s) PROVE TypeOK'
  BY <1>3 DEF UnsealInitialised, Join, Unseal
<1>4. CASE ReadReport
  BY <1>4 DEF ReadReport
<1>5. ASSUME NEW s \in Servers, RemovePeer(s) \/ CheckTarget(s) PROVE TypeOK'
  BY <1>5 DEF RemovePeer, CheckTarget
<1>6. CASE Enumerate \/ RestartTarget \/ UnsealTarget \/ Restarted
  BY <1>6 DEF Enumerate, RestartRequired, RestartTarget, UnsealTarget, Restarted
<1>7. CASE GiveUp \/ Interrupt
  BY <1>7 DEF GiveUp, Interrupt, Abort, Disturb
<1>8. CASE AutopilotReports
  BY <1>8 DEF AutopilotReports, Healthy
<1>9. ASSUME NEW s \in Servers, Fails(s) \/ ComesBack(s) PROVE TypeOK'
  BY <1>9 DEF Fails, ComesBack, Disturb
<1>10. CASE UNCHANGED vars
  BY <1>10 DEF vars
<1> QED
  BY <1>1, <1>2, <1>3, <1>4, <1>5, <1>6, <1>7, <1>8, <1>9, <1>10 DEF Next, PlayStep

\* The types of the variables.
THEOREM TypeCorrect == Spec => []TypeOK
BY TypeInit, TypeNext, PTL DEF Spec

(***************************************************************************)
(* As long as nothing fails.                                               *)
(***************************************************************************)
InRestart == {"enumerate", "check", "restart", "unseal_one"}

\* The hosts of the play answer, and what is reported is so but for the server
\* being restarted.
HostsAnswer == (playHosts \cup target) \cap down = {}
CheckedAnswer == pc \in InRestart \ {"enumerate"} => todo \cap down = {}
ReportedHealthy == reported \cap peers \subseteq Healthy \cup (IF pc = "unseal_one" THEN target ELSE {})

\* What was registered is still so while peers are removed: it was asserted that
\* most of those to be kept are healthy, and what is left to do is all the others.
RegisteredHolds ==
  pc \in {"assert", "remove"} =>
    /\ known.healthy \subseteq known.peers
    /\ known.peers \cap Inventory = peers \cap Inventory
    /\ known.healthy \cap peers \subseteq reported
    /\ todo = peers \ Inventory
Asserted == pc = "remove" => RemainQuorate

\* From then on most peers are reported; without the server to be restarted most
\* are healthy.
MostReported == pc \in InRestart => MostOf(reported \cap peers, peers)
OneToSpare == pc = "restart" => MostOf((peers \cap Healthy) \ target, peers)

MInv ==
  /\ HostsAnswer /\ CheckedAnswer /\ ReportedHealthy
  /\ RegisteredHolds /\ Asserted /\ MostReported /\ OneToSpare

LEMMA MInvInit == Init => MInv
BY DEF Init, MInv, HostsAnswer, CheckedAnswer, ReportedHealthy, RegisteredHolds, Asserted,
   MostReported, OneToSpare, InRestart, Healthy

LEMMA MInvUnsealing ==
  ASSUME TypeOK, MInv,
         StartPlay \/ InitialisedUnsealed \/ (\E s \in Servers : UnsealInitialised(s) \/ Join(s))
  PROVE  MInv'
<1> USE DEF TypeOK, MInv, HostsAnswer, CheckedAnswer, ReportedHealthy, RegisteredHolds, Asserted,
            MostReported, OneToSpare, InRestart, Healthy, cluster
<1>1. CASE StartPlay
  BY <1>1 DEF StartPlay, GroupHosts
<1>2. CASE InitialisedUnsealed
  BY <1>2 DEF InitialisedUnsealed
<1>3. ASSUME NEW s \in Servers, UnsealInitialised(s) \/ Join(s) PROVE MInv'
  BY <1>3 DEF UnsealInitialised, Join, Unseal
<1> QED BY <1>1, <1>2, <1>3

LEMMA MInvReporting ==
  ASSUME Careful, TypeOK, MInv, Joined \/ ReadReport \/ AssertQuorum
  PROVE  MInv'
<1> USE DEF TypeOK, MInv, HostsAnswer, CheckedAnswer, ReportedHealthy, RegisteredHolds, Asserted,
            MostReported, OneToSpare, InRestart, Healthy, cluster
<1>1. CASE Joined
  BY <1>1 DEF Joined
<1>2. CASE ReadReport
  BY <1>2 DEF ReadReport
<1>3. CASE AssertQuorum
  BY <1>3 DEF AssertQuorum, RemainQuorate, HealthyToKeep, UnhealthyToKeep, Careful
<1> QED BY <1>1, <1>2, <1>3

LEMMA MInvRemoving ==
  ASSUME TypeOK, MInv, Removed \/ (\E s \in Servers : RemovePeer(s))
  PROVE  MInv'
<1> USE DEF TypeOK, MInv, HostsAnswer, CheckedAnswer, ReportedHealthy, RegisteredHolds, Asserted,
            InRestart, Healthy, cluster
<1>1. ASSUME NEW s \in Servers, RemovePeer(s) PROVE MInv'
  <2>0. s \in todo
    BY <1>1 DEF RemovePeer, FirstToRemove
  <2>1. pc = "remove" /\ peers' = peers \ {s} /\ todo' = todo \ {s}
        /\ UNCHANGED <<down, sealed, reported, pc, playHosts, known, target>>
    BY <1>1 DEF RemovePeer
  <2>2. s \notin Inventory
    BY <2>0, <2>1
  <2>3. RemainQuorate'
    BY <2>1 DEF RemainQuorate, HealthyToKeep, UnhealthyToKeep
  <2> QED BY <2>0, <2>1, <2>2, <2>3 DEF MostReported, OneToSpare
<1>2. CASE Removed
  <2>1. pc = "remove" /\ peers \subseteq Inventory
    BY <1>2 DEF Removed
  <2>2. /\ HealthyToKeep \subseteq reported \cap peers
        /\ peers \ (reported \cap peers) \subseteq UnhealthyToKeep
    BY <2>1 DEF HealthyToKeep, UnhealthyToKeep
  <2>3. HealthyToKeep \subseteq peers /\ UnhealthyToKeep = peers \ HealthyToKeep
    BY <2>1 DEF HealthyToKeep, UnhealthyToKeep
  <2>4. MostOf(HealthyToKeep, peers)
    BY <2>1, <2>3, Outnumbers DEF RemainQuorate
  <2>5. MostOf(reported \cap peers, peers)
    BY <2>2, <2>3, <2>4, MajorityStays
  <2>6. pc' = "enumerate" /\ UNCHANGED <<peers, down, sealed, reported, playHosts, target>>
    BY <1>2 DEF Removed
  <2> QED BY <2>1, <2>5, <2>6 DEF MostReported, OneToSpare
<1> QED BY <1>1, <1>2

LEMMA MInvRestarting ==
  ASSUME Careful, TypeOK, MInv,
         Enumerate \/ RestartTarget \/ UnsealTarget \/ Restarted \/ (\E s \in Servers : CheckTarget(s))
  PROVE  MInv'
<1> USE DEF TypeOK, MInv, HostsAnswer, CheckedAnswer, ReportedHealthy, RegisteredHolds, Asserted,
            MostReported, OneToSpare, InRestart, Healthy, cluster
<1>1. CASE Enumerate \/ Restarted
  BY <1>1 DEF Enumerate, RestartRequired, Restarted
<1>2. CASE RestartTarget \/ UnsealTarget
  BY <1>2 DEF RestartTarget, UnsealTarget
<1>3. ASSUME NEW s \in Servers, CheckTarget(s) PROVE MInv'
  <2> DEFINE good == reported \cap peers
  <2>1. /\ pc = "check" /\ pc' = "restart" /\ target' = {s} /\ s \in todo /\ todo' = todo \ {s}
        /\ UNCHANGED <<peers, down, sealed, reported, playHosts, known>>
        /\ MayRestart(s)
    BY <1>3 DEF CheckTarget, Careful
  <2>2. MostOf(good, peers) /\ good \subseteq Healthy
    BY <2>1
  <2>3. MostOf(good \ {s}, peers)
    <3>1. CASE s \notin reported
      BY <3>1, <2>2, good \ {s} = good
    <3>2. CASE FailureTolerance >= 1
      <4>1. IsFiniteSet(good) /\ Cardinality(good) \in Nat /\ Cardinality(peers) \in Nat
        BY Counts
      <4>2. Cardinality(good \ {s}) \in Nat /\ Cardinality(good \ {s}) >= Cardinality(good) - 1
        BY CountsWithout
      <4>3. Cardinality(good) >= Majority(peers) + 1 /\ Majority(peers) \in Int
        BY <3>2, <4>1 DEF FailureTolerance, Majority
      <4> HIDE DEF good
      <4> QED BY <4>1, <4>2, <4>3 DEF MostOf
    <3> QED BY <2>1, <3>1, <3>2 DEF MayRestart
  <2>4. good \ {s} \subseteq (peers \cap Healthy) \ {s}
    BY <2>2
  <2>5. MostOf((peers \cap Healthy) \ {s}, peers)
    <3>1. (peers \cap Healthy) \ {s} \in SUBSET peers /\ good \ {s} \in SUBSET peers
      OBVIOUS
    <3> QED BY <2>3, <2>4, <3>1, MajorityStays
  <2> QED BY <2>1, <2>2, <2>5
<1> QED BY <1>1, <1>2, <1>3

LEMMA MInvOutside ==
  ASSUME TypeOK, MInv,
         \/ AutopilotReports \/ (GiveUp /\ UNCHANGED failures)
         \/ \E s \in Servers : ComesBack(s)
  PROVE  MInv'
<1> USE DEF TypeOK, MInv, HostsAnswer, CheckedAnswer, ReportedHealthy, RegisteredHolds, Asserted,
            MostReported, OneToSpare, InRestart, Healthy, cluster
<1>1. CASE AutopilotReports
  <2>1. /\ Quorate /\ reported' = peers \cap Healthy
        /\ UNCHANGED <<peers, down, sealed, pc, playHosts, todo, known, target>>
    BY <1>1 DEF AutopilotReports
  <2>2. RemainQuorate' <=> RemainQuorate
    BY <2>1 DEF RemainQuorate, HealthyToKeep, UnhealthyToKeep
  <2>3. reported' \cap peers' = peers \cap Healthy
    BY <2>1
  <2>4. MostOf(reported' \cap peers', peers')
    BY <2>1, <2>3, QuorateIsMostOf
  <2>5. pc \in {"assert", "remove"} => known.healthy \cap peers \subseteq Healthy
    OBVIOUS
  <2> QED BY <2>1, <2>2, <2>4, <2>5
<1>2. CASE GiveUp /\ UNCHANGED failures
  <2>1. pc = "unseal_one" => target \cap down = {}
    OBVIOUS
  <2>2. pc # "unseal_one"
    BY <1>2, <2>1 DEF GiveUp
  <2> QED BY <1>2, <2>2 DEF GiveUp, Abort
<1>3. ASSUME NEW s \in Servers, ComesBack(s) PROVE MInv'
  <2>1. /\ s \in down /\ down' = down \ {s} /\ sealed' = sealed \cup {s}
        /\ UNCHANGED <<peers, reported, pc, playHosts, todo, known, target>>
    BY <1>3 DEF ComesBack
  <2>2. Healthy' = Healthy
    BY <2>1
  <2>3. RemainQuorate' <=> RemainQuorate
    BY <2>1 DEF RemainQuorate, HealthyToKeep, UnhealthyToKeep
  <2> QED BY <2>1, <2>2, <2>3
<1> QED BY <1>1, <1>2, <1>3

\* What fails is counted, and never forgotten.
LEMMA FailuresStay == TypeOK /\ [Next]_vars => (failures' = 0 => failures = 0)
<1> SUFFICES ASSUME TypeOK, [Next]_vars, failures' = 0 PROVE failures = 0
  OBVIOUS
<1>1. CASE PlayStep \/ AutopilotReports \/ UNCHANGED vars
  BY <1>1 DEF PlayStep, StartPlay, InitialisedUnsealed, Joined, UnsealInitialised, Join,
     ReadReport, AssertQuorum, Removed, RemovePeer, CheckTarget, Enumerate, RestartTarget,
     UnsealTarget, Restarted, GiveUp, AutopilotReports, vars
<1>2. CASE Interrupt \/ \E s \in Servers : Fails(s) \/ ComesBack(s)
  BY <1>2 DEF Interrupt, Fails, ComesBack, Disturb, TypeOK
<1> QED BY <1>1, <1>2 DEF Next

CInv == TypeOK /\ (failures = 0 => MInv)

LEMMA CInvNext == ASSUME Careful PROVE CInv /\ [Next]_vars => CInv'
<1> SUFFICES ASSUME CInv, [Next]_vars, failures' = 0 PROVE MInv'
  BY TypeNext DEF CInv
<1>1. TypeOK /\ MInv /\ failures = 0
  BY FailuresStay DEF CInv
<1>2. ~Interrupt /\ \A s \in Servers : ~Fails(s)
  BY <1>1 DEF Interrupt, Fails, Disturb
<1>3. CASE UNCHANGED vars
  BY <1>1, <1>3 DEF vars, cluster, MInv, HostsAnswer, CheckedAnswer, ReportedHealthy, RegisteredHolds,
     Asserted, MostReported, OneToSpare, InRestart, Healthy, RemainQuorate, HealthyToKeep,
     UnhealthyToKeep, MostOf, Majority
<1>4. CASE Next
  <2>1. GiveUp => UNCHANGED failures
    BY DEF GiveUp
  <2> QED
    BY <1>1, <1>2, <1>4, <2>1, MInvUnsealing, MInvReporting, MInvRemoving, MInvRestarting,
       MInvOutside DEF Next, PlayStep
<1> QED BY <1>3, <1>4

LEMMA CInductive == ASSUME Careful PROVE Spec => []CInv
<1>1. Init => CInv
  BY TypeInit, MInvInit DEF CInv
<1> QED BY <1>1, CInvNext, PTL DEF Spec

(***************************************************************************)
(* What follows from it.                                                   *)
(***************************************************************************)
\* The peers and the healthy servers change by little, and in the right direction.
LEMMA QuorumKept ==
  ASSUME Careful, TypeOK, TypeOK', MInv, Next, failures = 0, failures' = 0,
         Quorate, peers \ Inventory \subseteq Healthy
  PROVE  Quorate'
<1> USE DEF TypeOK, cluster
<1>0. /\ peers \in SUBSET Servers /\ peers' \in SUBSET Servers
      /\ peers \cap Healthy \in SUBSET peers
      /\ peers' \cap Healthy' \in SUBSET peers'
      /\ MostOf(peers \cap Healthy, peers)
  BY QuorateIsMostOf
<1>1. ASSUME peers \cap Healthy \subseteq peers' \cap Healthy',
             peers' \ Healthy' \subseteq peers \ Healthy
      PROVE  Quorate'
  <2>1. peers' \ (peers' \cap Healthy') \subseteq peers \ (peers \cap Healthy)
    BY <1>1
  <2>2. MostOf(peers' \cap Healthy', peers')
    BY <1>0, <1>1, <2>1, MajorityStays
  <2> QED BY <2>2 DEF Quorate, MostOf
<1>2. CASE \/ StartPlay \/ InitialisedUnsealed \/ Joined \/ ReadReport \/ AssertQuorum
           \/ Removed \/ Enumerate \/ Restarted \/ GiveUp \/ AutopilotReports
           \/ \E s \in Servers : CheckTarget(s)
  <2>1. UNCHANGED <<peers, down, sealed>>
    BY <1>2 DEF StartPlay, InitialisedUnsealed, Joined, ReadReport, AssertQuorum, Removed,
       Enumerate, Restarted, GiveUp, Abort, AutopilotReports, CheckTarget
  <2> QED BY <2>1, <1>1 DEF Healthy
<1>3. CASE UnsealTarget \/ \E s \in Servers : UnsealInitialised(s) \/ Join(s) \/ ComesBack(s)
  <2>1. /\ peers \subseteq peers' /\ Healthy \subseteq Healthy'
        /\ peers' \ peers \subseteq Healthy'
    BY <1>3 DEF UnsealTarget, UnsealInitialised, Join, Unseal, ComesBack, Healthy
  <2> QED BY <2>1, <1>1
<1>4. ASSUME NEW s \in Servers, RemovePeer(s) PROVE Quorate'
  <2>1. /\ pc = "remove" /\ s \in todo /\ peers' = peers \ {s}
        /\ UNCHANGED <<down, sealed>>
    BY <1>4 DEF RemovePeer, FirstToRemove
  <2>2. Healthy' = Healthy
    BY <2>1 DEF Healthy
  <2>3. s \notin Inventory /\ RemainQuorate
        /\ known.peers \cap Inventory = peers \cap Inventory
        /\ known.healthy \subseteq known.peers /\ known.healthy \cap peers \subseteq Healthy
    BY <2>1 DEF MInv, RegisteredHolds, Asserted, ReportedHealthy
  <2>4. /\ HealthyToKeep \subseteq peers' \cap Healthy'
        /\ peers' \ (peers' \cap Healthy') \subseteq UnhealthyToKeep
    BY <2>1, <2>2, <2>3 DEF HealthyToKeep, UnhealthyToKeep
  <2> DEFINE kept == peers \cap Inventory
  <2>5. HealthyToKeep \in SUBSET kept /\ kept \ HealthyToKeep = UnhealthyToKeep
        /\ kept \in SUBSET Servers
    BY <2>3 DEF HealthyToKeep, UnhealthyToKeep
  <2>6. MostOf(HealthyToKeep, kept)
    BY <2>3, <2>5, Outnumbers DEF RemainQuorate
  <2>7. MostOf(peers' \cap Healthy', peers')
    BY <1>0, <2>4, <2>5, <2>6, MajorityStays
  <2> QED BY <2>7 DEF Quorate, MostOf
<1>5. CASE RestartTarget
  <2>1. pc = "restart" /\ UNCHANGED <<peers, down>> /\ sealed' = sealed \cup target
    BY <1>5 DEF RestartTarget
  <2>2. peers' \cap Healthy' = (peers \cap Healthy) \ target
    BY <2>1 DEF Healthy
  <2>3. MostOf((peers \cap Healthy) \ target, peers)
    BY <2>1 DEF MInv, OneToSpare
  <2> QED BY <2>1, <2>2, <2>3 DEF Quorate, MostOf
<1>6. ~Interrupt /\ \A s \in Servers : ~Fails(s)
  BY DEF Interrupt, Fails, Disturb
<1> QED BY <1>2, <1>3, <1>4, <1>5, <1>6 DEF Next, PlayStep

\* docs/cluster_management.md's promise for clusters of any size, plays one after
\* another and reports however late: unless the asserts are switched off, unsealing,
\* joining, removing and restarting keep the quorum while nothing fails.
THEOREM QuorumIsKept == ASSUME Careful PROVE Spec => KeepsQuorumIfOldUp
<1>1. CInv /\ CInv' /\ [Next]_vars =>
        [failures' = 0 /\ Quorate /\ peers \ Inventory \subseteq Healthy => Quorate']_vars
  BY QuorumKept, FailuresStay DEF CInv, vars
<1> QED BY <1>1, CInductive, PTL DEF Spec, KeepsQuorumIfOldUp

(***************************************************************************)
(* The work a play has yet to do.                                          *)
(***************************************************************************)
OutsidersRest == Inventory \ peers \subseteq down \cup sealed
ToUnseal == pc \in {"unseal", "join"} => playHosts \subseteq (peers \cap Healthy) \cup todo
UnsealedAndIn ==
  pc \in {"report", "assert", "remove"} \cup InRestart =>
    /\ playHosts \subseteq peers
    /\ playHosts \subseteq Healthy \cup (IF pc = "unseal_one" THEN target ELSE {})
ToRemove == pc \in {"assert", "remove"} => todo = peers \ Inventory
OldOnesGone == pc \in InRestart => peers \subseteq Inventory
ToRestart ==
  /\ pc \in {"check", "restart", "unseal_one"} => todo \subseteq playHosts
  /\ pc \in {"restart", "unseal_one"} => target \subseteq playHosts
  /\ pc = "check" => playHosts \cap outdated \subseteq todo
  /\ pc = "restart" => playHosts \cap outdated \subseteq todo \cup target
  /\ pc = "unseal_one" => playHosts \cap outdated \subseteq todo

WInv ==
  /\ OutsidersRest /\ ToUnseal /\ UnsealedAndIn /\ ToRemove /\ OldOnesGone /\ ToRestart

LEMMA WInvInit == Init => WInv
BY DEF Init, WInv, OutsidersRest, ToUnseal, UnsealedAndIn, ToRemove, OldOnesGone, ToRestart,
   InRestart

LEMMA WInvStep ==
  ASSUME TypeOK, WInv, Next, failures' = 0 PROVE WInv'
<1> USE DEF TypeOK, WInv, OutsidersRest, ToUnseal, UnsealedAndIn, ToRemove, OldOnesGone,
            ToRestart, InRestart, Healthy, cluster
<1>1. CASE StartPlay
  BY <1>1, ServersAssumption DEF StartPlay, GroupHosts
<1>2. CASE InitialisedUnsealed \/ Joined \/ ReadReport \/ AssertQuorum
  BY <1>2 DEF InitialisedUnsealed, Joined, ReadReport, AssertQuorum
<1>3. ASSUME NEW s \in Servers, UnsealInitialised(s) \/ Join(s) PROVE WInv'
  BY <1>3 DEF UnsealInitialised, Join, Unseal
<1>4. ASSUME NEW s \in Servers, RemovePeer(s) PROVE WInv'
  <2>1. /\ pc = "remove" /\ s \in todo /\ peers' = peers \ {s} /\ todo' = todo \ {s}
        /\ UNCHANGED <<down, sealed, outdated, pc, playHosts, target>>
    BY <1>4 DEF RemovePeer, FirstToRemove
  <2> QED BY <2>1
<1>5. CASE Removed \/ Enumerate \/ Restarted
  BY <1>5 DEF Removed, Enumerate, RestartRequired, Restarted
<1>6. ASSUME NEW s \in Servers, CheckTarget(s) PROVE WInv'
  BY <1>6 DEF CheckTarget
<1>7. CASE RestartTarget \/ UnsealTarget
  BY <1>7 DEF RestartTarget, UnsealTarget
<1>8. CASE GiveUp
  BY <1>8 DEF GiveUp, Abort
<1>9. CASE AutopilotReports
  BY <1>9 DEF AutopilotReports
<1>10. ASSUME NEW s \in Servers, ComesBack(s) PROVE WInv'
  BY <1>10 DEF ComesBack
<1>11. ~Interrupt /\ \A s \in Servers : ~Fails(s)
  BY DEF Interrupt, Fails, Disturb
<1> QED
  BY <1>1, <1>2, <1>3, <1>4, <1>5, <1>6, <1>7, <1>8, <1>9, <1>10, <1>11 DEF Next, PlayStep

EInv == TypeOK /\ (failures = 0 => WInv)

LEMMA EInductive == Spec => []EInv
<1>1. Init => EInv
  BY TypeInit, WInvInit DEF EInv
<1>2. EInv /\ [Next]_vars => EInv'
  <2>1. UNCHANGED vars => (WInv <=> WInv')
    BY DEF vars, cluster, WInv, OutsidersRest, ToUnseal, UnsealedAndIn, ToRemove, OldOnesGone,
       ToRestart, InRestart, Healthy
  <2> QED BY <2>1, TypeNext, FailuresStay, WInvStep DEF EInv, vars
<1> QED BY <1>1, <1>2, PTL DEF Spec

\* What the plays of the three roles leave when nothing failed, with or without
\* their asserts: old servers gone, the others members, unsealed and up to date.
THEOREM EndsClean == Spec => PlayEndsClean
<1>1. EInv /\ [Next]_vars =>
        [failures' = 0 /\ pc # "done" /\ pc' = "done" =>
           /\ peers \subseteq Inventory /\ playHosts \subseteq peers \cap Healthy
           /\ playHosts \cap outdated = {}]_vars
  <2> SUFFICES ASSUME EInv, Next, failures' = 0, pc # "done", pc' = "done"
               PROVE  /\ peers \subseteq Inventory /\ playHosts \subseteq peers \cap Healthy
                      /\ playHosts \cap outdated = {}
    OBVIOUS
  <2>1. WInv
    BY FailuresStay DEF EInv
  <2>2. Restarted
    BY DEF Next, PlayStep, StartPlay, InitialisedUnsealed, Joined, UnsealInitialised, Join,
       ReadReport, AssertQuorum, Removed, RemovePeer, CheckTarget, Enumerate, RestartTarget,
       UnsealTarget, GiveUp, Interrupt, Abort, AutopilotReports, Fails, ComesBack
  <2> QED
    BY <2>1, <2>2 DEF Restarted, WInv, UnsealedAndIn, OldOnesGone, ToRestart, InRestart
<1> QED BY <1>1, EInductive, PTL DEF Spec, PlayEndsClean

(***************************************************************************)
(* HelperPlaybook: the same playbook as far as it needs helpers' keys, and *)
(* theirs, supply_additional_keys.yml.                                     *)
(***************************************************************************)

\* Of the nonces and keys: their types, that a nonce Main has shown has been given, and
\* that only a step with a request waits for a helper.
Given ==
  /\ last \in Nat /\ current \in [Kinds -> Nat] /\ \A k \in Kinds : current[k] <= last
  /\ live \in Nat /\ pending \in Nat
  /\ told \subseteq 1..last
  /\ at \in Stages /\ asking \in BOOLEAN
  /\ asking => at \in {"unseal", "root", "restart", "rekey", "verify"}
  /\ asking => current[KindOf(at)] # 0
  /\ at \in {"save", "verify"} => current["verify"] # 0
  /\ bad \subseteq supplied
  /\ runs \in Nat /\ cuts \in Nat

HelpersTyped ==
  /\ hpc \in [Helpers -> Kinds \cup {"out", "check", "candidate", "clear", "decrypt"}]
  /\ hstep \in [Helpers -> {"status", "answer", "submit"}]
  /\ verifying \in [Helpers -> BOOLEAN]
  /\ hnonce \in [Helpers -> Nat]
  /\ DOMAIN hkeys = Helpers
  /\ gave \in [Helpers -> SUBSET Nat]

\* One helper at a time; who has been offered an operation has its nonce.
InOrder ==
  /\ \A g, h \in Helpers : hpc[g] # "out" /\ hpc[h] # "out" => g = h
  /\ \A h \in Helpers :
       /\ hpc[h] \in Kinds /\ hstep[h] # "status" => hnonce[h] # 0
       /\ hpc[h] \in {"verify", "root", "rekey"} /\ hstep[h] = "submit" => hnonce[h] \in told
       /\ hpc[h] \notin Kinds => hstep[h] = "status"

BInv == Given /\ HelpersTyped /\ InOrder

\* A verification that Main has shown is one of the keys in the candidate file.
CandidateIsPending ==
  /\ at \in {"verify", "move"} => candidate = pending
  /\ current["verify"] \in told => candidate = pending

\* Main waits at a stage that only a helper gets it past.
Held ==
  \/ at \in {"ended", "unseal"}
  \/ at = "root" /\ (asking => "root" \notin supplied)
  \/ at \in {"restart", "rekey", "verify"} /\ asking /\ KindOf(at) \notin supplied

RightKeys(h) ==
  /\ hpc[h] \in {"check", "candidate", "verify"} => Held
  /\ hpc[h] \in {"check", "candidate", "decrypt"} => hkeys[h] = None
  /\ hpc[h] = "verify" /\ current["verify"] \in told => hkeys[h] = pending
  /\ hpc[h] \in {"unseal", "root", "rekey"} => hkeys[h] = live \/ h \in overtaken

KeysInv ==
  /\ CandidateIsPending
  /\ \A h \in Helpers : RightKeys(h)
  /\ WrongOnlyIfOutdated

Undisturbed == runs <= 1 /\ cuts = 0

\* The first run has an operation in progress at the stage it is at, or where it failed.
Forward ==
  /\ current["unseal"] # 0 => (at \in {"unseal", "restart"} /\ asking) \/ at = "ended"
  /\ current["root"] # 0 => ((at = "root" /\ asking) \/ at = "ended") /\ current["unseal"] = 0
  /\ current["rekey"] # 0 => /\ at \in {"rekey", "save", "verify", "ended"}
                             /\ current["unseal"] = 0 /\ current["root"] = 0
  /\ current["verify"] # 0 => current["rekey"] # 0
  /\ runs = 0 => /\ at = "ended" /\ ~asking
                 /\ \A h \in Helpers : hpc[h] = "out" /\ gave[h] = {}
                 /\ \A k \in Kinds : current[k] = 0

Ahead == at \in {"rekey", "save", "verify", "move", "ended"}
       /\ current["root"] = 0 /\ current["unseal"] = 0

\* A helper who has given keys to an operation gets to those that come before it.
Backward(h) ==
  /\ \A m, n \in gave[h] : m = n
  /\ hpc[h] \in {"candidate", "verify", "clear"} => verifying[h]
  /\ hpc[h] \in {"check", "candidate", "verify"} => gave[h] = {}
  /\ hpc[h] \in {"clear", "decrypt", "rekey"} /\ gave[h] # {} =>
       Ahead /\ verifying[h] /\ hstep[h] = "status"
  /\ hpc[h] = "root" /\ gave[h] # {} => Ahead
  /\ hpc[h] = "unseal" /\ gave[h] # {} =>
       /\ at # "unseal"
       /\ at # "restart" => current["unseal"] = 0
       /\ at = "restart" /\ asking => "unseal" \notin supplied

OInv == Undisturbed => Forward /\ \A h \in Helpers : Backward(h)
HInv == BInv /\ KeysInv /\ OInv

(***************************************************************************)
(* What the tasks do, in the terms of the invariant.                       *)
(***************************************************************************)
LEMMA FollowingIs ==
  /\ Following("verify") = "clear" /\ Following("rekey") = "root"
  /\ Following("root") = "unseal" /\ Following("unseal") = "out"
  /\ Sequence[1] = "rekey"
<1>1. ASSUME NEW k, NEW j \in 1..3, Sequence[j] = k, \A i \in 1..3 : Sequence[i] = k => i = j,
             k # "verify"
      PROVE  Following(k) = Sequence[1 + j]
  BY <1>1 DEF Following
<1>2. Following("rekey") = Sequence[2]
  BY <1>1 DEF Sequence
<1>3. Following("root") = Sequence[3]
  BY <1>1 DEF Sequence
<1>4. Following("unseal") = Sequence[4]
  BY <1>1 DEF Sequence
<1> QED BY <1>2, <1>3, <1>4 DEF Following, Sequence

\* Main's steps leave the helpers where they are.
LEMMA HelpersStay ==
  ASSUME Main \/ Cut
  PROVE  /\ UNCHANGED <<hpc, hstep, verifying, hkeys, hnonce>>
         /\ gave' = gave \/ MainStart
BY DEF Main, Cut, MainStart, MainBegin, MainVerify, MainSkip, MainGoesOn, RekeyDone, VerifyDone,
   SaveCandidate, MakeLive, MainFails, helpers

\* A helper's steps leave Main where it is, and other helpers out.
LEMMA MainStays ==
  ASSUME NEW h \in Helpers, Helper(h)
  PROVE  UNCHANGED <<current, last, live, pending, file, candidate, at, asking, told, runs, cuts,
                     completed>>
BY DEF Helper, HelperStart, CheckVerification, DecryptCandidate, ClearCandidate, Decrypt,
   Status, Answer, SubmitAccepted, SubmitRefused, vault, main

LEMMA OthersOut ==
  ASSUME InTurn, BInv, NEW h \in Helpers, Helper(h), NEW g \in Helpers \ {h}
  PROVE  hpc'[g] = "out" /\ hstep'[g] = "status" /\ gave'[g] = gave[g]
<1>1. hpc[g] = "out" /\ hstep[g] = "status"
  <2>1. hpc[g] = "out"
    <3>1. CASE HelperStart(h)
      BY <3>1 DEF HelperStart
    <3>2. CASE hpc[h] # "out"
      BY <3>2 DEF BInv, InOrder
    <3> QED BY <3>1, <3>2 DEF Helper, CheckVerification, DecryptCandidate, ClearCandidate,
               Decrypt, Status, Answer, SubmitAccepted, SubmitRefused, At, Kinds
  <2> QED BY <2>1 DEF BInv, InOrder, Kinds
<1>2. hpc'[g] = hpc[g] /\ hstep'[g] = hstep[g] /\ gave'[g] = gave[g]
  <2> USE DEF BInv, HelpersTyped, Goto, Step
  <2>1. CASE HelperStart(h) \/ CheckVerification(h) \/ DecryptCandidate(h) \/ ClearCandidate(h)
             \/ Decrypt(h)
    BY <2>1 DEF HelperStart, CheckVerification, DecryptCandidate, ClearCandidate, Decrypt
  <2>2. ASSUME NEW k \in Kinds, Status(h, k) \/ Answer(h, k) \/ SubmitRefused(h, k)
        PROVE  hpc'[g] = hpc[g] /\ hstep'[g] = hstep[g] /\ gave'[g] = gave[g]
    BY <2>2 DEF Status, Answer, SubmitRefused
  <2>3. ASSUME NEW k \in Kinds, SubmitAccepted(h, k)
        PROVE  hpc'[g] = hpc[g] /\ hstep'[g] = hstep[g] /\ gave'[g] = gave[g]
    BY <2>3 DEF SubmitAccepted
  <2> QED BY <2>1, <2>2, <2>3 DEF Helper
<1> QED BY <1>1, <1>2

(***************************************************************************)
(* Nonces and turns.                                                       *)
(***************************************************************************)
LEMMA GivenInit == PlaybookInit => Given
<1> SUFFICES ASSUME PlaybookInit PROVE Given
  OBVIOUS
<1>1. last \in Nat /\ current \in [Kinds -> Nat] /\ \A k \in Kinds : current[k] <= last
  BY DEF PlaybookInit
<1> QED BY <1>1 DEF PlaybookInit, Given, Stages

LEMMA GivenStep == Given /\ [PlaybookNext]_playbookVars => Given'
<1> SUFFICES ASSUME Given, [PlaybookNext]_playbookVars PROVE Given'
  OBVIOUS
<1> USE DEF Given, Kinds, Stages
<1>1. CASE MainStart
  BY <1>1 DEF MainStart, vault
<1>2. CASE MainBegin
  <2>1. /\ current' \in [Kinds -> Nat] /\ last' = last + 1
        /\ \A k \in Kinds : current'[k] <= last'
    BY <1>2 DEF MainBegin, KindOf
  <2>2. KindOf(at) \in Kinds \ {"verify"} /\ at' = at
    BY <1>2 DEF MainBegin, KindOf
  <2>3. current'[KindOf(at')] = last' /\ last' # 0
    BY <1>2, <2>1, <2>2 DEF MainBegin
  <2>4. at' = at /\ at \notin {"save", "verify"} /\ asking' = TRUE /\ told' \subseteq 1..last'
    BY <1>2, <2>1 DEF MainBegin
  <2> QED BY <1>2, <2>1, <2>3, <2>4 DEF MainBegin
<1>3. CASE MainVerify
  <2>1. current["verify"] \in 1..last
    BY <1>3 DEF MainVerify
  <2>2. KindOf(at') = "verify" /\ current' = current
    BY <1>3 DEF MainVerify, vault, KindOf
  <2>3. current'[KindOf(at')] # 0 /\ told' \subseteq 1..last'
    BY <1>3, <2>1, <2>2 DEF MainVerify, vault
  <2>4. at' = at /\ at = "verify" /\ asking' = TRUE
    BY <1>3 DEF MainVerify
  <2> QED BY <1>3, <2>1, <2>2, <2>3, <2>4 DEF MainVerify, vault
<1>4. CASE MainSkip
  BY <1>4 DEF MainSkip, vault, After
<1>5. CASE MainGoesOn
  <2>1. current' \in [Kinds -> Nat] /\ \A k \in Kinds : current'[k] <= last
    BY <1>5 DEF MainGoesOn, KindOf
  <2>2. at' \in {"root", "restart", "rekey"}
    BY <1>5 DEF MainGoesOn, After
  <2> QED BY <1>5, <2>1, <2>2 DEF MainGoesOn
<1>6. CASE RekeyDone
  <2>1. /\ current' \in [Kinds -> Nat] /\ last' = last + 1 /\ current'["verify"] = last'
        /\ \A k \in Kinds : current'[k] <= last'
    BY <1>6 DEF RekeyDone
  <2>2. pending' \in Nat /\ at' = "save" /\ told' \subseteq 1..last' /\ last' \in Nat \ {0}
    BY <1>6, <2>1 DEF RekeyDone, After
  <2>3. /\ live' = live /\ bad' \subseteq supplied' /\ asking' = FALSE
        /\ runs' = runs /\ cuts' = cuts
    BY <1>6 DEF RekeyDone
  <2> QED BY <2>1, <2>2, <2>3
<1>7. CASE VerifyDone
  <2>1. current' \in [Kinds -> Nat] /\ \A k \in Kinds : current'[k] <= last
    BY <1>7 DEF VerifyDone
  <2> QED BY <1>7, <2>1 DEF VerifyDone, After
<1>8. CASE SaveCandidate
  BY <1>8 DEF SaveCandidate, After, vault
<1>9. CASE MakeLive
  BY <1>9 DEF MakeLive, After, vault
<1>10. CASE MainFails
  BY <1>10 DEF MainFails
<1>11. CASE Cut
  <2>1. cuts' \in Nat
    BY <1>11 DEF Cut
  <2> QED BY <1>11, <2>1 DEF Cut, vault
<1>12. ASSUME NEW h \in Helpers, Helper(h) PROVE Given'
  <2>1. bad' \subseteq supplied'
    BY <1>12 DEF Helper, HelperStart, CheckVerification, DecryptCandidate, ClearCandidate,
       Decrypt, Status, Answer, SubmitAccepted, SubmitRefused, vault
  <2> QED BY <1>12, <2>1, MainStays
<1>13. CASE UNCHANGED playbookVars
  BY <1>13 DEF playbookVars, vault, main
<1> QED BY <1>1, <1>2, <1>3, <1>4, <1>5, <1>6, <1>7, <1>8, <1>9, <1>10, <1>11, <1>12, <1>13
        DEF PlaybookNext, Main

LEMMA TurnsInit == PlaybookInit => HelpersTyped /\ InOrder
BY DEF PlaybookInit, HelpersTyped, InOrder, Kinds

\* Who asks has the nonce that was in progress when they looked.
LEMMA TurnsStep == InTurn /\ BInv /\ [PlaybookNext]_playbookVars => HelpersTyped' /\ InOrder'
<1> SUFFICES ASSUME InTurn, BInv, [PlaybookNext]_playbookVars PROVE HelpersTyped' /\ InOrder'
  OBVIOUS
<1> USE DEF BInv
<1>0. ASSUME UNCHANGED <<hpc, hstep, verifying, hkeys, hnonce>>, told \subseteq told',
             gave' \in [Helpers -> SUBSET Nat]
      PROVE  HelpersTyped' /\ InOrder'
  BY <1>0 DEF HelpersTyped, InOrder
<1>1. CASE Main \/ Cut
  <2>1. told \subseteq told'
    BY <1>1 DEF Main, Cut, MainStart, MainBegin, MainVerify, MainSkip, MainGoesOn, RekeyDone,
       VerifyDone, SaveCandidate, MakeLive, MainFails
  <2>2. gave' \in [Helpers -> SUBSET Nat]
    BY <1>1, HelpersStay DEF MainStart, HelpersTyped
  <2> QED BY <1>0, <1>1, <2>1, <2>2, HelpersStay
<1>2. ASSUME NEW h \in Helpers, Helper(h) PROVE HelpersTyped' /\ InOrder'
  <2>0. told' = told /\ current' = current
    BY <1>2, MainStays
  <2>1. \A g \in Helpers \ {h} : hpc'[g] = "out" /\ hstep'[g] = "status"
    BY <1>2, OthersOut
  <2> DEFINE Own == /\ hpc'[h] \in Kinds /\ hstep'[h] # "status" => hnonce'[h] # 0
                    /\ hpc'[h] \in {"verify", "root", "rekey"} /\ hstep'[h] = "submit" =>
                         hnonce'[h] \in told
                    /\ hpc'[h] \notin Kinds => hstep'[h] = "status"
  <2>2. HelpersTyped' /\ Own
    <3> USE DEF Goto, Step
    <3>k. /\ hstep \in [Helpers -> {"status", "answer", "submit"}]
          /\ hpc \in [Helpers -> Kinds \cup {"out", "check", "candidate", "clear", "decrypt"}]
      BY DEF HelpersTyped
    <3>1. CASE \/ HelperStart(h) \/ CheckVerification(h) \/ DecryptCandidate(h)
               \/ ClearCandidate(h) \/ Decrypt(h)
      <4>1. hpc[h] \notin Kinds /\ hstep[h] = "status" /\ hstep' = hstep /\ hnonce' = hnonce
        BY <3>1 DEF HelperStart, CheckVerification, DecryptCandidate, ClearCandidate, Decrypt,
           InOrder, Kinds
      <4>2. HelpersTyped'
        BY <3>1, FollowingIs DEF HelperStart, CheckVerification, DecryptCandidate,
           ClearCandidate, Decrypt, HelpersTyped, Kinds, AfterCandidate
      <4> QED BY <4>1, <4>2
    <3>2. ASSUME NEW k \in Kinds, Status(h, k) PROVE HelpersTyped' /\ Own
      <4>1. CASE Offered(h, k) /\ k \notin supplied
        <5>1. /\ hpc' = hpc /\ hpc[h] = k /\ hstep' = [hstep EXCEPT ![h] = "answer"]
              /\ hnonce' = [hnonce EXCEPT ![h] = current[k]] /\ current[k] # 0
              /\ current[k] \in Nat /\ UNCHANGED <<verifying, hkeys, gave>>
          BY <3>2, <4>1 DEF Status, At, Offered, Given
        <5> QED BY <5>1 DEF HelpersTyped
      <4>2. CASE ~(Offered(h, k) /\ k \notin supplied)
        <5>1. /\ hpc' = [hpc EXCEPT ![h] = Following(k)] /\ hstep[h] = "status"
              /\ hstep' = hstep /\ hnonce' = hnonce /\ UNCHANGED <<verifying, hkeys, gave>>
          BY <3>2, <4>2 DEF Status, At
        <5>2. Following(k) \in {"clear", "root", "unseal", "out"}
          BY FollowingIs DEF Kinds
        <5> QED BY <5>1, <5>2 DEF HelpersTyped, Kinds
      <4> QED BY <4>1, <4>2
    <3>3. ASSUME NEW k \in Kinds, Answer(h, k) PROVE HelpersTyped' /\ Own
      <4>1. CASE Agrees(h)
        <5>1. /\ hpc' = hpc /\ hpc[h] = k /\ hstep' = [hstep EXCEPT ![h] = "submit"]
              /\ hnonce' = hnonce /\ UNCHANGED <<verifying, hkeys, gave>>
              /\ hstep[h] = "answer"
          BY <3>3, <4>1 DEF Answer, At
        <5>2. hnonce[h] # 0 /\ (k # "unseal" => hnonce[h] \in told)
          BY <4>1, <5>1 DEF Agrees, InOrder
        <5> QED BY <5>1, <5>2 DEF HelpersTyped
      <4>2. CASE ~Agrees(h)
        <5>1. /\ hpc' = [hpc EXCEPT ![h] = Following(k)]
              /\ hstep' = [hstep EXCEPT ![h] = "status"]
              /\ hnonce' = hnonce /\ UNCHANGED <<verifying, hkeys, gave>>
          BY <3>3, <4>2 DEF Answer, At
        <5>2. Following(k) \in {"clear", "root", "unseal", "out"}
          BY FollowingIs DEF Kinds
        <5> QED BY <5>1, <5>2 DEF HelpersTyped, Kinds
      <4> QED BY <4>1, <4>2
    <3>4. ASSUME NEW k \in Kinds, SubmitAccepted(h, k) \/ SubmitRefused(h, k)
          PROVE  HelpersTyped' /\ Own
      <4>1. PICK n \in {"clear", "root", "unseal", "out"} : hpc' = [hpc EXCEPT ![h] = n]
        BY <3>4, FollowingIs DEF SubmitAccepted, SubmitRefused, Kinds
      <4>2. hstep' = [hstep EXCEPT ![h] = "status"] /\ UNCHANGED <<verifying, hkeys, hnonce>>
        BY <3>4 DEF SubmitAccepted, SubmitRefused
      <4>3. gave' \in [Helpers -> SUBSET Nat]
        <5>1. current[k] \in Nat
          BY DEF Given
        <5> QED BY <3>4, <5>1 DEF SubmitAccepted, SubmitRefused, HelpersTyped
      <4> QED BY <4>1, <4>2, <4>3 DEF HelpersTyped, Kinds
    <3> QED BY <1>2, <3>1, <3>2, <3>3, <3>4 DEF Helper
  <2> QED BY <2>0, <2>1, <2>2 DEF InOrder, Kinds
<1>3. CASE UNCHANGED playbookVars
  BY <1>0, <1>3 DEF playbookVars, helpers, main, HelpersTyped
<1> QED BY <1>1, <1>2, <1>3 DEF PlaybookNext

(***************************************************************************)
(* Which keys are given.                                                   *)
(***************************************************************************)
LEMMA KeysInit == PlaybookInit => KeysInv
BY DEF PlaybookInit, KeysInv, CandidateIsPending, RightKeys, WrongOnlyIfOutdated, Given, Kinds

\* Main's part: what was shown is what the candidate file has.
LEMMA CandidateStep ==
  ASSUME BInv, CandidateIsPending, Main \/ Cut
  PROVE  CandidateIsPending'
<1> USE DEF CandidateIsPending
<1>0. /\ current["verify"] \in Nat /\ current["verify"] <= last /\ last \in Nat
      /\ told \subseteq 1..last
  BY DEF BInv, Given, Kinds
<1>1. CASE MainBegin
  <2>1. current'["verify"] \in {0, current["verify"]}
    BY <1>1 DEF MainBegin, BInv, Given, KindOf, Kinds
  <2>2. told' = told \cup {last + 1} /\ at' = at /\ candidate' = candidate /\ pending' = pending
    BY <1>1 DEF MainBegin
  <2>3. current'["verify"] \in told' => current["verify"] \in told
    BY <1>0, <2>1, <2>2
  <2>4. at' \in {"verify", "move"} => candidate' = pending'
    BY <2>2
  <2>5. current'["verify"] \in told' => candidate' = pending'
    BY <2>2, <2>3
  <2> QED BY <2>4, <2>5
<1>2. CASE RekeyDone
  <2>1. current'["verify"] = last + 1 /\ told' = told /\ at' = "save"
    BY <1>2 DEF RekeyDone, BInv, Given, Kinds, After
  <2>2. current'["verify"] \notin told'
    BY <1>0, <2>1
  <2> QED BY <2>1, <2>2
<1>3. CASE SaveCandidate
  BY <1>3 DEF SaveCandidate, vault
<1>4. CASE VerifyDone
  <2>1. current'["verify"] = 0 /\ told' = told /\ candidate' = candidate /\ pending' = pending
    BY <1>4 DEF VerifyDone, BInv, Given, Kinds
  <2>2. at = "verify"
    BY <1>4 DEF VerifyDone
  <2> QED BY <1>0, <2>1, <2>2
<1>5. CASE MainVerify
  BY <1>5 DEF MainVerify, vault
<1>6. CASE MainGoesOn
  <2>1. at' \in {"root", "restart", "rekey"} /\ current'["verify"] = current["verify"]
    BY <1>6 DEF MainGoesOn, After, BInv, Given, KindOf, Kinds
  <2> QED BY <1>6, <2>1 DEF MainGoesOn
<1>7. CASE MainStart \/ MainSkip \/ MakeLive \/ MainFails \/ Cut
  BY <1>7 DEF MainStart, MainSkip, MakeLive, MainFails, Cut, vault, After
<1> QED BY <1>1, <1>2, <1>3, <1>4, <1>5, <1>6, <1>7 DEF Main

\* Main does not get past a helper who has yet to give, or has given, candidate keys.
LEMMA HeldStays ==
  ASSUME BInv, Held, Main \/ Cut
  PROVE  Held' /\ ~RekeyDone /\ ~MainVerify /\ ~VerifyDone
<1> USE DEF BInv, Given, Stages
<1>0. bad \subseteq supplied
  OBVIOUS
<1>1. CASE MainStart
  BY <1>1 DEF MainStart, Held, RekeyDone, MainVerify, VerifyDone
<1>2. CASE MainBegin
  <2>1. at \in {"unseal", "root"} /\ at' = at
    BY <1>2 DEF MainBegin, Held
  <2>2. at = "root" => "root" \notin supplied'
    BY <1>2 DEF MainBegin, KindOf
  <2>3. ~RekeyDone /\ ~MainVerify /\ ~VerifyDone
    BY <2>1 DEF RekeyDone, MainVerify, VerifyDone
  <2> QED BY <2>1, <2>2, <2>3 DEF Held
<1>3. CASE MainVerify
  BY <1>3 DEF MainVerify, Held
<1>4. CASE MainSkip
  BY <1>4 DEF MainSkip, Held, After, RekeyDone, MainVerify, VerifyDone
<1>5. CASE MainGoesOn
  <2>1. at = "unseal"
    BY <1>5 DEF MainGoesOn, Held, Answered, KindOf
  <2> QED BY <1>5, <2>1 DEF MainGoesOn, Held, After, RekeyDone, MainVerify, VerifyDone
<1>6. CASE RekeyDone \/ VerifyDone
  BY <1>6 DEF RekeyDone, VerifyDone, Held, Answered, KindOf
<1>7. CASE SaveCandidate \/ MakeLive
  BY <1>7 DEF SaveCandidate, MakeLive, Held
<1>8. CASE MainFails \/ Cut
  <2>1. at' = "ended" /\ asking' = FALSE
    BY <1>8 DEF MainFails, Cut
  <2>2. ~RekeyDone /\ ~VerifyDone
    BY DEF RekeyDone, VerifyDone, Held, Answered, KindOf
  <2>3. ~MainVerify
    BY DEF MainVerify, Held
  <2> QED BY <2>1, <2>2, <2>3 DEF Held
<1> QED BY <1>1, <1>2, <1>3, <1>4, <1>5, <1>6, <1>7, <1>8 DEF Main

LEMMA KeysMain ==
  ASSUME BInv, KeysInv, Main \/ Cut
  PROVE  KeysInv'
<1>1. CandidateIsPending'
  BY CandidateStep DEF KeysInv
<1>2. spoilt' = spoilt /\ overtaken \subseteq overtaken'
  BY DEF Main, Cut, MainStart, MainBegin, MainVerify, MainSkip, MainGoesOn, RekeyDone,
     VerifyDone, SaveCandidate, MakeLive, MainFails, history
<1>3. ASSUME NEW h \in Helpers PROVE RightKeys(h)'
  <2>0. hpc' = hpc /\ hkeys' = hkeys /\ RightKeys(h) /\ overtaken \subseteq overtaken'
    BY <1>2, <1>3, HelpersStay DEF KeysInv
  <2>1. hpc'[h] \in {"check", "candidate", "verify"} => Held'
    BY <2>0, HeldStays DEF RightKeys
  <2>2. hpc'[h] = "verify" /\ current'["verify"] \in told' => hkeys'[h] = pending'
    <3> SUFFICES ASSUME hpc[h] = "verify", current'["verify"] \in told'
                 PROVE  hkeys[h] = pending'
      BY <2>0
    <3>1. ~RekeyDone /\ ~MainVerify /\ ~VerifyDone
      BY <2>0, HeldStays DEF RightKeys
    <3>2. current["verify"] \in told /\ pending' = pending
      <4>1. CASE MainBegin
        <5>1. current'["verify"] \in {0, current["verify"]}
          BY <4>1 DEF MainBegin, BInv, Given, KindOf, Kinds
        <5>2. told' = told \cup {last + 1} /\ pending' = pending
          BY <4>1 DEF MainBegin
        <5>3. /\ current["verify"] \in Nat /\ current["verify"] <= last /\ last \in Nat
              /\ told \subseteq 1..last
          BY DEF BInv, Given, Kinds
        <5> QED BY <5>1, <5>2, <5>3
      <4>2. CASE MainGoesOn
        <5>1. current'["verify"] = current["verify"]
          BY <4>2 DEF MainGoesOn, BInv, Given, KindOf, Kinds
        <5> QED BY <4>2, <5>1 DEF MainGoesOn
      <4>3. CASE \/ MainStart \/ MainSkip \/ SaveCandidate \/ MakeLive \/ MainFails \/ Cut
        BY <4>3 DEF MainStart, MainSkip, SaveCandidate, MakeLive, MainFails, Cut, vault
      <4> QED BY <3>1, <4>1, <4>2, <4>3 DEF Main
    <3> QED BY <2>0, <3>2 DEF RightKeys
  <2>3. hpc'[h] \in {"unseal", "root", "rekey"} => hkeys'[h] = live' \/ h \in overtaken'
    <3>1. CASE VerifyDone
      <4>1. live' = pending
        BY <3>1 DEF VerifyDone
      <4>2. overtaken' = overtaken \cup {g \in Helpers : hkeys[g] \notin {None, pending}}
        BY <3>1 DEF VerifyDone
      <4>3. hpc[h] \in {"unseal", "root", "rekey"} => hkeys[h] # None \/ h \in overtaken
        <5>1. live # None
          BY DEF BInv, Given, None
        <5> QED BY <2>0, <5>1 DEF RightKeys
      <4> QED BY <1>3, <2>0, <4>1, <4>2, <4>3
    <3>2. CASE ~VerifyDone
      <4>1. live' = live
        BY <3>2 DEF Main, Cut, MainStart, MainBegin, MainVerify, MainSkip, MainGoesOn,
           RekeyDone, SaveCandidate, MakeLive, MainFails, vault
      <4> QED BY <2>0, <4>1 DEF RightKeys
    <3> QED BY <3>1, <3>2
  <2> QED BY <2>0, <2>1, <2>2, <2>3 DEF RightKeys
<1> QED BY <1>1, <1>2, <1>3 DEF KeysInv, WrongOnlyIfOutdated

\* A helper's part.  Between asking and submitting nothing they rely on has changed.
LEMMA KeysHelper ==
  ASSUME InTurn, BInv, KeysInv, NEW h \in Helpers, Helper(h)
  PROVE  KeysInv'
<1>0. /\ UNCHANGED <<current, last, live, pending, file, candidate, at, asking, told>>
      /\ \A g \in Helpers \ {h} : hpc'[g] = "out"
      /\ RightKeys(h)
  BY MainStays, OthersOut DEF KeysInv
<1>1. CandidateIsPending'
  BY <1>0 DEF KeysInv, CandidateIsPending
<1>2. \A g \in Helpers \ {h} : RightKeys(g)'
  BY <1>0 DEF RightKeys
<1>3. supplied' = supplied => (Held => Held')
  BY <1>0 DEF Held, KindOf
<1>t. /\ hpc \in [Helpers -> Kinds \cup {"out", "check", "candidate", "clear", "decrypt"}]
      /\ DOMAIN hkeys = Helpers
  BY DEF BInv, HelpersTyped
<1> SUFFICES RightKeys(h)' /\ spoilt' = spoilt
  BY <1>1, <1>2 DEF KeysInv, WrongOnlyIfOutdated
<1>4. CASE HelperStart(h)
  <2>1. /\ asking /\ KindOf(at) \notin supplied /\ hpc' = [hpc EXCEPT ![h] = "check"]
        /\ supplied' = supplied
        /\ hkeys' = [hkeys EXCEPT ![h] = None] /\ spoilt' = spoilt
    BY <1>4 DEF HelperStart, Goto, vault
  <2>2. hpc'[h] = "check" /\ hkeys'[h] = None
    BY <1>t, <2>1
  <2>3. Held
    BY <2>1 DEF Held, BInv, Given, KindOf
  <2> QED BY <1>3, <2>1, <2>2, <2>3 DEF RightKeys
<1>5. CASE CheckVerification(h)
  <2>1. /\ hpc[h] = "check" /\ hkeys' = hkeys /\ supplied' = supplied /\ spoilt' = spoilt
        /\ \E n \in {"candidate", "decrypt"} : hpc' = [hpc EXCEPT ![h] = n]
    BY <1>5 DEF CheckVerification, Goto, vault, history
  <2>2. hpc'[h] \in {"candidate", "decrypt"}
    BY <1>t, <2>1
  <2> QED BY <1>0, <1>3, <2>1, <2>2 DEF RightKeys
<1>6. CASE DecryptCandidate(h)
  <2>1. /\ hpc[h] = "candidate" /\ supplied' = supplied /\ spoilt' = spoilt
        /\ hkeys' = [hkeys EXCEPT ![h] = candidate]
        /\ hpc' = [hpc EXCEPT ![h] = AfterCandidate]
    BY <1>6 DEF DecryptCandidate, Goto, vault, history
  <2>2. hpc'[h] = AfterCandidate /\ hkeys'[h] = candidate
    BY <1>t, <2>1
  <2>3. CASE candidate = None
    BY <2>1, <2>2, <2>3 DEF AfterCandidate, RightKeys
  <2>4. CASE candidate # None
    <3>1. hpc'[h] = "verify"
      BY <2>2, <2>4 DEF AfterCandidate
    <3>2. current["verify"] \in told => candidate = pending
      BY DEF KeysInv, CandidateIsPending
    <3> QED BY <1>0, <1>3, <2>1, <2>2, <3>1, <3>2 DEF RightKeys
  <2> QED BY <2>3, <2>4
<1>7. CASE ClearCandidate(h)
  <2>1. /\ hpc'[h] = "decrypt" /\ hkeys'[h] = None /\ spoilt' = spoilt
    BY <1>7, <1>t DEF ClearCandidate, Cleared, Goto, history
  <2> QED BY <2>1 DEF RightKeys
<1>8. CASE Decrypt(h)
  <2>1. hpc[h] = "decrypt" /\ hkeys[h] = None
    BY <1>0, <1>8 DEF Decrypt, RightKeys
  <2>2. hpc'[h] = "rekey" /\ hkeys'[h] = file /\ spoilt' = spoilt
    BY <1>8, <1>t, <2>1, FollowingIs DEF Decrypt, Goto
  <2>3. file = live \/ h \in overtaken'
    BY <1>8, <2>1 DEF Decrypt
  <2> QED BY <1>0, <2>2, <2>3 DEF RightKeys
<1>9. ASSUME NEW k \in Kinds, hpc[h] = k, hkeys' = hkeys,
             overtaken' = overtaken, spoilt' = spoilt,
             \/ hpc' = hpc /\ supplied' = supplied
             \/ hpc' = [hpc EXCEPT ![h] = Following(k)]
             \/ hpc' = [hpc EXCEPT ![h] = "out"]
      PROVE  RightKeys(h)' /\ spoilt' = spoilt
  <2>1. CASE hpc' = hpc /\ supplied' = supplied
    BY <1>0, <1>3, <1>9, <2>1 DEF RightKeys
  <2>2. CASE hpc' = [hpc EXCEPT ![h] = Following(k)]
    <3>1. \/ hpc'[h] \in {"clear", "out"}
          \/ hpc'[h] \in {"root", "unseal"} /\ hpc[h] \in {"rekey", "root"}
      BY <1>9, <1>t, <2>2, FollowingIs DEF Kinds
    <3> QED BY <1>0, <1>9, <3>1 DEF RightKeys
  <2>3. CASE hpc' = [hpc EXCEPT ![h] = "out"]
    <3>1. hpc'[h] = "out"
      BY <1>t, <2>3
    <3> QED BY <1>9, <3>1 DEF RightKeys
  <2> QED BY <1>9, <2>1, <2>2, <2>3
<1>10. ASSUME NEW k \in Kinds, Status(h, k) \/ Answer(h, k) \/ SubmitRefused(h, k)
       PROVE  RightKeys(h)' /\ spoilt' = spoilt
  <2>1. /\ hpc[h] = k /\ hkeys' = hkeys /\ overtaken' = overtaken /\ spoilt' = spoilt
        /\ supplied' = supplied
    BY <1>10 DEF Status, Answer, SubmitRefused, At, vault, history
  <2>2. \/ hpc' = hpc \/ hpc' = [hpc EXCEPT ![h] = Following(k)]
        \/ hpc' = [hpc EXCEPT ![h] = "out"]
    BY <1>10 DEF Status, Answer, SubmitRefused, Goto
  <2> QED BY <1>9, <2>1, <2>2
<1>11. ASSUME NEW k \in Kinds, SubmitAccepted(h, k) PROVE RightKeys(h)' /\ spoilt' = spoilt
  <2>1. /\ hpc[h] = k /\ hstep[h] = "submit" /\ Accepts(h, k)
        /\ hkeys' = hkeys /\ overtaken' = overtaken
        /\ hpc' = [hpc EXCEPT ![h] = Following(k)]
    BY <1>11 DEF SubmitAccepted, At, Goto
  <2>2. hkeys[h] = Right(k) \/ h \in overtaken
    <3>1. CASE k = "verify"
      <4>1. current["verify"] = hnonce[h] /\ hnonce[h] \in told
        BY <2>1, <3>1 DEF Accepts, BInv, InOrder
      <4>2. hkeys[h] = pending
        BY <1>0, <2>1, <3>1, <4>1 DEF RightKeys
      <4> QED BY <3>1, <4>2 DEF Right
    <3>2. CASE k # "verify"
      BY <1>0, <2>1, <3>2 DEF RightKeys, Right, Kinds
    <3> QED BY <3>1, <3>2
  <2>3. spoilt' = spoilt
    BY <1>11, <2>2 DEF SubmitAccepted
  <2> QED BY <1>9, <2>1, <2>3
<1> QED BY <1>4, <1>5, <1>6, <1>7, <1>8, <1>10, <1>11 DEF Helper

LEMMA KeysStep == InTurn /\ BInv /\ KeysInv /\ [PlaybookNext]_playbookVars => KeysInv'
<1> SUFFICES ASSUME InTurn, BInv, KeysInv, [PlaybookNext]_playbookVars PROVE KeysInv'
  OBVIOUS
<1>1. CASE UNCHANGED playbookVars
  BY <1>1 DEF playbookVars, vault, main, helpers, history, KeysInv, CandidateIsPending,
     RightKeys, Held, KindOf, WrongOnlyIfOutdated
<1> QED BY <1>1, KeysMain, KeysHelper DEF PlaybookNext

(***************************************************************************)
(* How many operations keys are given to.                                  *)
(***************************************************************************)
LEMMA OInvInit == PlaybookInit => OInv
BY DEF PlaybookInit, OInv, Forward, Backward, Kinds

\* The first run goes forward.
LEMMA ForwardStep ==
  ASSUME BInv, Undisturbed', Undisturbed, Forward, Main
  PROVE  Forward'
<1> USE DEF Forward
<1>0. /\ current \in [Kinds -> Nat] /\ last \in Nat /\ runs \in Nat /\ asking \in BOOLEAN
      /\ asking => current[KindOf(at)] # 0
  BY DEF BInv, Given
<1>1. CASE MainStart
  <2>1. runs' = runs + 1 /\ runs = 0
    BY <1>0, <1>1 DEF MainStart, Undisturbed
  <2> QED BY <1>1, <2>1 DEF MainStart, vault, Kinds
<1>2. CASE MainBegin
  <2>0. last' = last + 1 /\ last' # 0 /\ at' = at /\ asking' = TRUE /\ runs' = runs /\ runs # 0
    BY <1>0, <1>2 DEF MainBegin
  <2>1. CASE at \in {"unseal", "restart"}
    <3>1. /\ current'["unseal"] = last' /\ current'["root"] = current["root"]
          /\ current'["rekey"] = current["rekey"] /\ current'["verify"] = current["verify"]
      BY <1>0, <1>2, <2>1 DEF MainBegin, KindOf, Kinds
    <3> QED BY <2>0, <2>1, <3>1
  <2>2. CASE at = "root"
    <3>1. /\ current'["unseal"] = current["unseal"] /\ current'["root"] = last'
          /\ current'["rekey"] = current["rekey"] /\ current'["verify"] = current["verify"]
      BY <1>0, <1>2, <2>2 DEF MainBegin, KindOf, Kinds
    <3> QED BY <1>2, <2>0, <2>2, <3>1
  <2>3. CASE at = "rekey"
    <3>1. /\ current'["unseal"] = current["unseal"] /\ current'["root"] = current["root"]
          /\ current'["rekey"] = last' /\ current'["verify"] = 0
      BY <1>0, <1>2, <2>3 DEF MainBegin, KindOf, Kinds
    <3> QED BY <1>2, <2>0, <2>3, <3>1
  <2> QED BY <1>2, <2>1, <2>2, <2>3 DEF MainBegin
<1>3. CASE MainVerify
  BY <1>3 DEF MainVerify, vault
<1>4. CASE MainSkip
  BY <1>4 DEF MainSkip, vault, After
<1>5. CASE MainGoesOn
  <2>0. asking' = FALSE /\ runs' = runs /\ runs # 0 /\ asking
    BY <1>5 DEF MainGoesOn, Answered
  <2>1. CASE at \in {"unseal", "restart"}
    <3>1. /\ current'["unseal"] = 0 /\ current'["root"] = current["root"]
          /\ current'["rekey"] = current["rekey"] /\ current'["verify"] = current["verify"]
      BY <1>0, <1>5, <2>1 DEF MainGoesOn, KindOf, Kinds
    <3> QED BY <2>0, <2>1, <3>1
  <2>2. CASE at = "root"
    <3>1. /\ current'["unseal"] = current["unseal"] /\ current'["root"] = 0
          /\ current'["rekey"] = current["rekey"] /\ current'["verify"] = current["verify"]
      BY <1>0, <1>5, <2>2 DEF MainGoesOn, KindOf, Kinds
    <3> QED BY <2>0, <2>2, <3>1
  <2> QED BY <1>5, <2>1, <2>2 DEF MainGoesOn
<1>6. CASE RekeyDone
  <2>1. /\ current'["unseal"] = current["unseal"] /\ current'["root"] = current["root"]
        /\ current'["rekey"] = current["rekey"] /\ current["rekey"] # 0
        /\ at' = "save" /\ runs' = runs /\ runs # 0
    BY <1>0, <1>6 DEF RekeyDone, KindOf, Kinds, Answered, After
  <2> QED BY <2>1
<1>7. CASE VerifyDone
  <2>1. /\ current'["unseal"] = current["unseal"] /\ current'["root"] = current["root"]
        /\ current'["rekey"] = 0 /\ current'["verify"] = 0 /\ current["verify"] # 0
        /\ at' = "move" /\ runs' = runs /\ runs # 0
    BY <1>0, <1>7 DEF VerifyDone, KindOf, Kinds, Answered, After
  <2> QED BY <2>1
<1>8. CASE SaveCandidate \/ MakeLive
  BY <1>8 DEF SaveCandidate, MakeLive, vault, After
<1>9. CASE MainFails
  BY <1>9 DEF MainFails
<1> QED BY <1>1, <1>2, <1>3, <1>4, <1>5, <1>6, <1>7, <1>8, <1>9 DEF Main

\* Helpers who have given keys are behind it, and stay there.
LEMMA BackwardStays ==
  ASSUME BInv, Undisturbed', Undisturbed, Forward, Forward', Main,
         NEW h \in Helpers, Backward(h)
  PROVE  Backward(h)'
<1> USE DEF Backward, Ahead
<1>0. /\ current \in [Kinds -> Nat] /\ asking \in BOOLEAN /\ bad \subseteq supplied
      /\ runs \in Nat
  BY DEF BInv, Given
<1>h. UNCHANGED <<hpc, hstep, verifying>>
  BY HelpersStay
<1>1. CASE MainStart
  <2>1. runs = 0
    BY <1>0, <1>1 DEF MainStart, Undisturbed
  <2>2. hpc'[h] = "out" /\ gave'[h] = {}
    BY <1>1, <1>h, <2>1 DEF MainStart, Forward
  <2> QED BY <2>2
<1>g. CASE gave' = gave
  <2>2. CASE MainBegin
    <3>1. /\ at' = at
          /\ at = "restart" => "unseal" \notin supplied'
      BY <2>2 DEF MainBegin, KindOf
    <3>2. at \in {"root", "rekey"} => current'["unseal"] = current["unseal"]
      BY <1>0, <2>2 DEF MainBegin, KindOf, Kinds
    <3>3. at = "rekey" => current'["root"] = current["root"]
      BY <1>0, <2>2 DEF MainBegin, KindOf, Kinds
    <3>4. at \in {"unseal", "root", "restart", "rekey"}
      BY <2>2 DEF MainBegin
    <3> QED BY <1>g, <1>h, <3>1, <3>2, <3>3, <3>4
  <2>3. CASE MainVerify
    BY <1>g, <1>h, <2>3 DEF MainVerify, vault
  <2>4. CASE MainSkip
    <3>1. /\ at \in {"unseal", "restart", "rekey"} /\ ~asking
          /\ at' = IF at = "rekey" THEN "ended" ELSE After(at)
          /\ current' = current /\ supplied' = supplied /\ asking' = asking
      BY <2>4 DEF MainSkip, vault
    <3>2. at = "restart" => at' = "rekey" /\ current["unseal"] = 0
      BY <3>1 DEF After, Forward
    <3> QED BY <1>g, <1>h, <3>1, <3>2
  <2>5. CASE MainGoesOn
    <3>1. /\ at \in {"unseal", "restart", "root"} /\ asking' = FALSE
          /\ at' = After(at) /\ supplied' = supplied
      BY <2>5 DEF MainGoesOn
    <3>2. at = "restart" => at' = "rekey" /\ current'["unseal"] = 0
      BY <1>0, <2>5, <3>1 DEF After, MainGoesOn, KindOf, Kinds
    <3>3. at = "root" => at' = "restart"
      BY <3>1 DEF After
    <3> QED BY <1>g, <1>h, <3>1, <3>2, <3>3
  <2>6. CASE RekeyDone \/ VerifyDone
    <3>1. /\ at \in {"rekey", "verify"} /\ at' \in {"save", "move"}
          /\ current'["unseal"] = current["unseal"] /\ current'["root"] = current["root"]
      BY <1>0, <2>6 DEF RekeyDone, VerifyDone, After, Kinds
    <3> QED BY <1>g, <1>h, <3>1
  <2>7. CASE SaveCandidate \/ MakeLive
    BY <1>g, <1>h, <2>7 DEF SaveCandidate, MakeLive, vault, After
  <2>8. CASE MainFails
    <3>1. /\ at' = "ended" /\ current' = current /\ asking /\ KindOf(at) \in supplied
      BY <1>0, <2>8 DEF MainFails
    <3>2. hpc[h] = "unseal" /\ gave[h] # {} => at # "restart"
      BY <3>1 DEF KindOf
    <3> QED BY <1>g, <1>h, <3>1, <3>2
  <2> QED BY <1>1, <2>2, <2>3, <2>4, <2>5, <2>6, <2>7, <2>8 DEF Main
<1> QED BY <1>1, <1>g, HelpersStay

\* A helper who gives keys to an operation goes on to those before it.
LEMMA BackwardHelper ==
  ASSUME InTurn, BInv, Forward, NEW h \in Helpers, Helper(h), Backward(h)
  PROVE  Backward(h)'
<1> USE DEF Backward, Ahead
<1>0. /\ UNCHANGED <<current, at, asking>>
      /\ hpc \in [Helpers -> Kinds \cup {"out", "check", "candidate", "clear", "decrypt"}]
      /\ hstep \in [Helpers -> {"status", "answer", "submit"}]
      /\ verifying \in [Helpers -> BOOLEAN] /\ gave \in [Helpers -> SUBSET Nat]
      /\ hpc[h] \notin Kinds => hstep[h] = "status"
      /\ hpc[h] \in Kinds /\ hstep[h] # "status" => hnonce[h] # 0
  BY MainStays DEF BInv, HelpersTyped, InOrder
<1>1. CASE HelperStart(h)
  <2>1. hpc'[h] = "check" /\ gave'[h] = {}
    BY <1>0, <1>1 DEF HelperStart, Goto
  <2> QED BY <2>1
<1>2. CASE CheckVerification(h)
  <2>1. hpc[h] = "check" /\ gave' = gave
    BY <1>2 DEF CheckVerification
  <2>2. hpc'[h] \in {"candidate", "decrypt"} /\ (hpc'[h] = "candidate" => verifying'[h])
    BY <1>0, <1>2 DEF CheckVerification, Goto
  <2> QED BY <2>1, <2>2
<1>3. CASE DecryptCandidate(h)
  <2>1. hpc[h] = "candidate" /\ gave' = gave /\ verifying' = verifying
    BY <1>3 DEF DecryptCandidate
  <2>2. hpc'[h] \in {"verify", "decrypt"}
    BY <1>0, <1>3 DEF DecryptCandidate, Goto, AfterCandidate
  <2> QED BY <2>1, <2>2
<1>4. CASE ClearCandidate(h) \/ Decrypt(h)
  <2>1. /\ hpc[h] \in {"clear", "decrypt"} /\ gave' = gave /\ verifying' = verifying
        /\ hstep' = hstep
    BY <1>4 DEF ClearCandidate, Decrypt
  <2>2. hpc'[h] \in {"decrypt", "rekey"}
    BY <1>0, <1>4, FollowingIs DEF ClearCandidate, Decrypt, Goto
  <2> QED BY <1>0, <2>1, <2>2
<1>5. ASSUME NEW k \in Kinds, Status(h, k) \/ Answer(h, k) \/ SubmitRefused(h, k)
      PROVE  Backward(h)'
  <2>1. hpc[h] = k /\ gave' = gave /\ verifying' = verifying /\ supplied' = supplied
    BY <1>5 DEF Status, Answer, SubmitRefused, At, vault
  <2>2. \/ hpc' = hpc \/ hpc'[h] = "out"
        \/ hpc'[h] = Following(k) /\ (k = "verify" => gave[h] = {})
    BY <1>0, <1>5, <2>1 DEF Status, Answer, SubmitRefused, Goto
  <2>3. CASE hpc'[h] = "out"
    BY <2>1, <2>3
  <2>4. CASE hpc'[h] = Following(k) /\ (k = "verify" => gave[h] = {})
    <3>1. CASE k = "verify"
      BY <2>1, <2>4, <3>1, FollowingIs
    <3>2. CASE k = "rekey"
      BY <1>0, <2>1, <2>4, <3>2, FollowingIs
    <3>3. CASE k = "root"
      BY <1>0, <2>1, <2>4, <3>3, FollowingIs
    <3>4. CASE k = "unseal"
      BY <2>1, <2>4, <3>4, FollowingIs
    <3> QED BY <3>1, <3>2, <3>3, <3>4 DEF Kinds
  <2>5. CASE hpc' = hpc
    <3>1. k = "rekey" => gave[h] = {}
      <4>1. CASE Status(h, k) /\ k = "rekey" /\ gave[h] # {}
        <5>1. ~Offered(h, k)
          BY <2>1, <4>1 DEF Offered
        <5>2. hpc' = [hpc EXCEPT ![h] = "root"]
          BY <4>1, <5>1, FollowingIs DEF Status, Goto
        <5> QED BY <1>0, <2>1, <2>5, <4>1, <5>2
      <4>2. CASE (Answer(h, k) \/ SubmitRefused(h, k)) /\ k = "rekey"
        BY <2>1, <4>2 DEF Answer, SubmitRefused, At
      <4> QED BY <1>5, <4>1, <4>2
    <3>2. CASE k = "rekey"
      BY <1>0, <2>1, <2>5, <3>1, <3>2
    <3>3. CASE k # "rekey"
      BY <1>0, <2>1, <2>5, <3>3 DEF Kinds
    <3> QED BY <3>2, <3>3
  <2> QED BY <2>2, <2>3, <2>4, <2>5
<1>6. ASSUME NEW k \in Kinds, SubmitAccepted(h, k) PROVE Backward(h)'
  <2>1. /\ hpc[h] = k /\ hstep[h] = "submit" /\ Accepts(h, k) /\ hnonce[h] # 0
        /\ hpc'[h] = Following(k) /\ hstep'[h] = "status" /\ verifying' = verifying
    BY <1>0, <1>6 DEF SubmitAccepted, At, Goto, Step
  <2>2. gave'[h] = IF at = "restart" THEN gave[h] ELSE gave[h] \cup {current[k]}
    BY <1>0, <1>6 DEF SubmitAccepted
  <2>3. current[k] # 0
    BY <2>1 DEF Accepts
  <2>4. CASE k = "verify"
    <3>1. gave[h] = {} /\ Ahead /\ verifying[h]
      BY <2>1, <2>3, <2>4 DEF Forward
    <3> QED BY <1>0, <2>1, <2>2, <2>4, <3>1, FollowingIs
  <2>5. CASE k = "rekey"
    <3>1. gave[h] = {} /\ Ahead
      BY <2>1, <2>3, <2>5 DEF Forward
    <3> QED BY <1>0, <2>1, <2>2, <2>5, <3>1, FollowingIs
  <2>6. CASE k = "root"
    <3>1. gave[h] = {} /\ at \in {"root", "ended"} /\ current["unseal"] = 0
      BY <2>1, <2>3, <2>6 DEF Forward
    <3> QED BY <1>0, <2>1, <2>2, <2>6, <3>1, FollowingIs
  <2>7. CASE k = "unseal"
    <3>1. gave[h] = {} \/ at = "restart"
      BY <2>1, <2>3, <2>7
    <3> QED BY <2>1, <2>2, <2>7, <3>1, FollowingIs
  <2> QED BY <2>4, <2>5, <2>6, <2>7 DEF Kinds
<1> QED BY <1>1, <1>2, <1>3, <1>4, <1>5, <1>6 DEF Helper

LEMMA OInvStep == InTurn /\ BInv /\ OInv /\ [PlaybookNext]_playbookVars => OInv'
<1> SUFFICES ASSUME InTurn, BInv, OInv, [PlaybookNext]_playbookVars, Undisturbed'
             PROVE  Forward' /\ \A h \in Helpers : Backward(h)'
  BY DEF OInv
<1>1. CASE Main
  <2>1. Undisturbed
    BY <1>1 DEF BInv, Given, Undisturbed, Main, MainStart, MainBegin, MainVerify, MainSkip,
       MainGoesOn, RekeyDone, VerifyDone, SaveCandidate, MakeLive, MainFails
  <2>2. Forward'
    BY <1>1, <2>1, ForwardStep DEF OInv
  <2> QED BY <1>1, <2>1, <2>2, BackwardStays DEF OInv
<1>2. CASE Cut
  <2>1. cuts' = cuts + 1 /\ cuts \in Nat
    BY <1>2 DEF Cut, BInv, Given
  <2>2. cuts' # 0
    BY <2>1
  <2> QED BY <2>2 DEF Undisturbed
<1>3. ASSUME NEW h \in Helpers, Helper(h) PROVE Forward' /\ \A g \in Helpers : Backward(g)'
  <2>1. Undisturbed /\ UNCHANGED <<current, at, asking, runs>>
    BY <1>3, MainStays DEF Undisturbed
  <2>2. runs # 0
    BY <1>3, <2>1 DEF OInv, Forward, Helper, HelperStart, CheckVerification, DecryptCandidate,
       ClearCandidate, Decrypt, Status, Answer, SubmitAccepted, SubmitRefused, At, Kinds
  <2>3. Forward'
    BY <2>1, <2>2 DEF OInv, Forward
  <2>4. Backward(h)'
    BY <1>3, <2>1, BackwardHelper DEF OInv
  <2>5. ASSUME NEW g \in Helpers \ {h} PROVE Backward(g)'
    <3>1. hpc'[g] = "out" /\ gave'[g] = gave[g]
      BY <1>3, <2>5, OthersOut
    <3> QED BY <2>1, <2>5, <3>1 DEF OInv, Backward
  <2> QED BY <2>3, <2>4, <2>5
<1>4. CASE UNCHANGED playbookVars
  BY <1>4 DEF playbookVars, vault, main, helpers, OInv, Undisturbed, Forward, Backward, Ahead
<1> QED BY <1>1, <1>2, <1>3, <1>4 DEF PlaybookNext

(***************************************************************************)
(* What holds of playbooks/supply_additional_keys.yml if helpers take      *)
(* turns and come when a key is missing, however many playbooks there are. *)
(***************************************************************************)
\* The inductive invariant: turns and nonces, the keys held, and the way of the first
\* main playbook against that of the helpers.
THEOREM HInvHolds ==
  ASSUME InTurn
  PROVE  PlaybookSpec => []HInv
<1>1. PlaybookInit => HInv
  BY GivenInit, TurnsInit, KeysInit, OInvInit DEF HInv, BInv
<1>2. HInv /\ [PlaybookNext]_playbookVars => HInv'
  BY GivenStep, TurnsStep, KeysStep, OInvStep DEF HInv, BInv
<1> QED BY <1>1, <1>2, PTL DEF PlaybookSpec

\* No wrong key spoils an operation: what the playbook submits to a verification comes
\* from the candidate file, everything else from the live one, unless that is outdated.
THEOREM RightKeysGiven ==
  ASSUME InTurn
  PROVE  PlaybookSpec => []WrongOnlyIfOutdated
<1>1. HInv => WrongOnlyIfOutdated
  BY DEF HInv, KeysInv
<1> QED BY <1>1, HInvHolds, PTL

\* The comment on the order of the playbook's roles: nobody's keys go to two operations of
\* the first main playbook, but for the unsealing of servers that are restarted.
THEOREM GivenToOne ==
  ASSUME InTurn
  PROVE  PlaybookSpec => []OneOperation
<1>1. HInv => OneOperation
  <2> SUFFICES ASSUME HInv, runs = 1, cuts = 0, NEW h \in Helpers
               PROVE  Cardinality(gave[h]) <= 1
    BY DEF OneOperation
  <2>1. \A m, n \in gave[h] : m = n
    BY DEF HInv, OInv, Undisturbed, Backward
  <2>2. CASE gave[h] = {}
    <3>1. Cardinality({}) = 0
      BY FS_EmptySet
    <3> QED BY <2>2, <3>1
  <2>3. CASE gave[h] # {}
    <3>1. PICK n \in gave[h] : gave[h] = {n}
      BY <2>1, <2>3
    <3>2. Cardinality({n}) = 1
      BY FS_Singleton
    <3> QED BY <3>1, <3>2
  <2> QED BY <2>2, <2>3
<1> QED BY <1>1, HInvHolds, PTL
================================================================================
