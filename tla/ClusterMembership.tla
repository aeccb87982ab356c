-------------------------- MODULE ClusterMembership --------------------------
(***************************************************************************)
(* The servers of a cluster while main playbooks unseal and join           *)
(* (roles/unseal), remove (roles/remove_old_cluster_nodes) and restart     *)
(* them (roles/restart), in the order playbooks/manage_vault_cluster.yml   *)
(* has them.                                                               *)
(*                                                                         *)
(* A server is reached by one task at a time, in any order.  Raft is       *)
(* external: the peers, of which a majority must be healthy for Vault to   *)
(* answer, and autopilot's report, which lags behind the truth during a    *)
(* play, but not from one play to the next.  Unsealing one server is       *)
(* KeySubmission's subject; here it succeeds or the play is interrupted.   *)
(***************************************************************************)
EXTENDS Integers, FiniteSets

CONSTANTS
  Servers,           \* all the servers there ever were
  Inventory,         \* those in the Ansible group
  ForcedRestart,     \* bbcrd_vault_restart is true, rather than none
  AllowLossRemoving, \* bbcrd_vault_allow_loss_of_quorum_on_cluster_node_removal
  AllowLossRestart,  \* bbcrd_vault_allow_loss_of_quorum_on_restart
  MaxFailures        \* bound: servers failing, plays interrupted

ASSUME ServersAssumption == IsFiniteSet(Servers) /\ Inventory \subseteq Servers
ASSUME MembershipFlags ==
  {ForcedRestart, AllowLossRemoving, AllowLossRestart} \subseteq BOOLEAN
ASSUME MaxFailuresAssumption == MaxFailures \in Nat

VARIABLES
  peers,       \* the Raft configuration
  down,        \* servers whose host does not answer
  sealed,      \* servers that answer, but are sealed or new
  reported,    \* the servers autopilot reports as healthy
  outdated,    \* servers whose binary or configuration changed since they began
  failures,
  \* The play: its task, its hosts, the servers its task has yet to deal with,
  \* the report it registered, and the server being restarted.
  pc, playHosts, todo, known, target

cluster == <<peers, down, sealed, reported, outdated>>
vars == <<cluster, failures, pc, playHosts, todo, known, target>>

Healthy == Servers \ (down \union sealed)

Majority(voters) == Cardinality(voters) \div 2 + 1

Quorate == Cardinality(peers \intersect Healthy) >= Majority(peers)

TypeOK ==
  /\ peers \subseteq Servers /\ down \subseteq Servers
  /\ sealed \subseteq Servers \ down
  /\ reported \subseteq Servers /\ outdated \subseteq Servers
  /\ failures \in Nat
  /\ pc \in {"idle", "unseal", "join", "report", "assert", "remove", "enumerate",
             "check", "restart", "unseal_one", "done"}
  /\ playHosts \subseteq Inventory /\ todo \subseteq Servers
  /\ known \in [healthy : SUBSET Servers, peers : SUBSET Servers]
  /\ target \in SUBSET Servers

\* Any cluster that has been left alone for a while.
Init ==
  /\ peers \in SUBSET Servers \ {{}}
  /\ down \in SUBSET Servers
  /\ sealed \in SUBSET (Servers \ down)
  /\ Inventory \ peers \subseteq down \union sealed
  /\ reported = peers \intersect Healthy
  /\ outdated \in SUBSET Inventory
  /\ failures = 0
  /\ pc = "idle" /\ playHosts = {} /\ todo = {} /\ target = {}
  /\ known = [healthy |-> {}, peers |-> {}]

(***************************************************************************)
(* The unseal role.                                                        *)
(***************************************************************************)
GroupHosts == Inventory \ down

\* The play has installed what it installs and written the configuration,
\* which may have changed on some of its hosts.
StartPlay ==
  /\ pc \in {"idle", "done"} /\ GroupHosts # {}
  /\ Quorate => reported = peers \intersect Healthy
  /\ playHosts' = GroupHosts
  /\ \E changed \in SUBSET playHosts' : outdated' = outdated \union changed
  /\ todo' = playHosts' \intersect sealed
  /\ pc' = "unseal"
  /\ UNCHANGED <<peers, down, sealed, reported, failures, known, target>>

Unseal(s) ==
  /\ sealed' = sealed \ {s}
  /\ outdated' = outdated \ {s}
  /\ todo' = todo \ {s}

\* A sealed server is restarted, then unsealed.
UnsealInitialised(s) ==
  /\ pc = "unseal"
  /\ s \in (todo \intersect peers) \ down
  /\ Unseal(s)
  /\ UNCHANGED <<peers, down, reported, failures, pc, playHosts, known, target>>

\* "We must first unseal any initialised (but sealed) hosts".
\* Mutant: the others need not wait.
NobodyWaits == pc = "unseal"
OldOnesIn == todo \intersect peers = {}

InitialisedUnsealed ==
  /\ pc = "unseal" /\ OldOnesIn
  /\ pc' = "join"
  /\ UNCHANGED <<cluster, failures, playHosts, todo, known, target>>

\* A new server sees the cluster, and joins it, if there is a quorum.
Join(s) ==
  /\ pc = "join" /\ Quorate
  /\ s \in todo \ down
  /\ peers' = peers \union {s}
  /\ Unseal(s)
  /\ UNCHANGED <<down, reported, failures, pc, playHosts, known, target>>

Joined ==
  /\ pc = "join" /\ todo = {}
  /\ pc' = "report"
  /\ UNCHANGED <<cluster, failures, playHosts, todo, known, target>>

(***************************************************************************)
(* The remove_old_cluster_nodes role.                                      *)
(***************************************************************************)
ReadReport ==
  /\ pc = "report" /\ Quorate
  /\ known' = [healthy |-> reported \intersect peers, peers |-> peers]
  /\ todo' = peers \ Inventory
  /\ pc' = "assert"
  /\ UNCHANGED <<cluster, failures, playHosts, target>>

HealthyToKeep == known.healthy \intersect Inventory
UnhealthyToKeep == (known.peers \ known.healthy) \intersect Inventory

RemainQuorate == Cardinality(HealthyToKeep) > Cardinality(UnhealthyToKeep)

AssertQuorum ==
  /\ pc = "assert" /\ (AllowLossRemoving \/ RemainQuorate)
  /\ pc' = "remove"
  /\ UNCHANGED <<cluster, failures, playHosts, todo, known, target>>

\* The healthy ones come first in the list.
FirstToRemove ==
  IF todo \intersect known.healthy # {} THEN todo \intersect known.healthy ELSE todo

\* Vault removes a peer, if there is a quorum to agree.
RemovePeer(s) ==
  /\ pc = "remove" /\ Quorate
  /\ s \in FirstToRemove
  /\ peers' = peers \ {s}
  /\ todo' = todo \ {s}
  /\ UNCHANGED <<down, sealed, reported, outdated, failures, pc, playHosts, known, target>>

Removed ==
  /\ pc = "remove" /\ todo = {}
  /\ pc' = "enumerate"
  /\ known' = [healthy |-> {}, peers |-> {}]
  /\ UNCHANGED <<cluster, failures, playHosts, todo, target>>

(***************************************************************************)
(* The restart role.                                                       *)
(***************************************************************************)
\* Mutant: unless told otherwise, none.
RestartIfForced == IF ForcedRestart THEN playHosts ELSE {}
RestartRequired == IF ForcedRestart THEN playHosts ELSE playHosts \intersect outdated

Enumerate ==
  /\ pc = "enumerate"
  /\ todo' = RestartRequired
  /\ pc' = "check"
  /\ UNCHANGED <<cluster, failures, playHosts, known, target>>

FailureTolerance == Cardinality(reported \intersect peers) - Majority(peers)

\* Either a server may be missing, or this one is missing already.
\* Mutant: nobody looks at the tolerance.
MayRestartAny(s) == FailureTolerance >= 0 \/ s \notin reported
MayRestart(s) == FailureTolerance >= 1 \/ s \notin reported

CheckTarget(s) ==
  /\ pc = "check" /\ s \in todo
  /\ AllowLossRestart \/ (Quorate /\ MayRestart(s))
  /\ target' = {s}
  /\ todo' = todo \ {s}
  /\ pc' = "restart"
  /\ UNCHANGED <<cluster, failures, playHosts, known>>

RestartTarget ==
  /\ pc = "restart" /\ target \intersect down = {}
  /\ sealed' = sealed \union target
  /\ outdated' = outdated \ target
  /\ pc' = "unseal_one"
  /\ UNCHANGED <<peers, down, reported, failures, playHosts, todo, known, target>>

UnsealTarget ==
  /\ pc = "unseal_one" /\ target \intersect down = {}
  /\ sealed' = sealed \ target
  /\ target' = {}
  /\ pc' = "check"
  /\ UNCHANGED <<peers, down, reported, outdated, failures, playHosts, todo, known>>

Restarted ==
  /\ pc = "check" /\ todo = {}
  /\ pc' = "done"
  /\ playHosts' = {}
  /\ UNCHANGED <<cluster, failures, todo, known, target>>

(***************************************************************************)
(* The end of a play that cannot go on.                                    *)
(***************************************************************************)
Abort ==
  /\ pc' = "idle" /\ playHosts' = {} /\ todo' = {} /\ target' = {}
  /\ known' = [healthy |-> {}, peers |-> {}]
  /\ UNCHANGED cluster

\* What the play is waiting for, or asserts, is not so.
GiveUp ==
  /\ \/ pc \in {"join", "report", "remove"} /\ ~Quorate
     \/ pc = "assert" /\ ~AllowLossRemoving /\ ~RemainQuorate
     \/ pc = "check" /\ ~AllowLossRestart /\ \E s \in todo : ~(Quorate /\ MayRestart(s))
     \/ pc \in {"unseal", "join"} /\ todo \intersect down # {}
     \/ pc \in {"restart", "unseal_one"} /\ target \intersect down # {}
  /\ Abort
  /\ UNCHANGED failures

Disturb == failures < MaxFailures /\ failures' = failures + 1

Interrupt == pc \notin {"idle", "done"} /\ Disturb /\ Abort

(***************************************************************************)
(* The cluster by itself.                                                  *)
(***************************************************************************)
AutopilotReports ==
  /\ Quorate /\ reported # peers \intersect Healthy
  /\ reported' = peers \intersect Healthy
  /\ UNCHANGED <<peers, down, sealed, outdated, failures, pc, playHosts, todo, known, target>>

Fails(s) ==
  /\ Disturb
  /\ s \notin down
  /\ down' = down \union {s}
  /\ sealed' = sealed \ {s}
  /\ UNCHANGED <<peers, reported, outdated, pc, playHosts, todo, known, target>>

\* A server that comes back is sealed, and runs what is installed.
ComesBack(s) ==
  /\ s \in down
  /\ down' = down \ {s}
  /\ sealed' = sealed \union {s}
  /\ outdated' = outdated \ {s}
  /\ UNCHANGED <<peers, reported, failures, pc, playHosts, todo, known, target>>

PlayStep ==
  \/ StartPlay \/ InitialisedUnsealed \/ Joined
  \/ \E s \in Servers : UnsealInitialised(s) \/ Join(s)
  \/ ReadReport \/ AssertQuorum \/ Removed
  \/ \E s \in Servers : RemovePeer(s) \/ CheckTarget(s)
  \/ Enumerate \/ RestartTarget \/ UnsealTarget \/ Restarted
  \/ GiveUp

Next ==
  \/ PlayStep \/ Interrupt \/ AutopilotReports
  \/ \E s \in Servers : Fails(s) \/ ComesBack(s)

Spec == Init /\ [][Next]_vars

\* Ansible goes on by itself, autopilot reports, administrators have hosts
\* repaired, and run a playbook that failed again.
Fairness ==
  /\ WF_vars(PlayStep) /\ WF_vars(AutopilotReports)
  /\ \A s \in Inventory : WF_vars(ComesBack(s))

FairSpec == Spec /\ Fairness

(***************************************************************************)
(* Properties.                                                             *)
(***************************************************************************)
\* docs/cluster_management.md: the roles refuse changes that would cause quorum to
\* be lost.  It is kept until a server fails or a play is interrupted, as long as
\* no old server that is to be removed is down (healthy ones are removed first):
\* while new servers join, old ones leave and any of them are restarted one by
\* one, on the strength of reports that may be out of date.
KeepsQuorumIfOldUp ==
  [][failures' = 0 /\ Quorate /\ peers \ Inventory \subseteq Healthy
       => Quorate']_vars

\* When a play ends, and nothing failed, the peers are those of the inventory
\* that it reached (and others of the inventory), all of these are unsealed,
\* and they run what is installed.
PlayEndsClean ==
  [][failures' = 0 /\ pc # "done" /\ pc' = "done" =>
       /\ peers \subseteq Inventory /\ playHosts \subseteq peers \intersect Healthy
       /\ playHosts \intersect outdated = {}]_vars

\* As long as the servers to keep are most of the peers, repairing hosts and
\* running the playbook again gets to a cluster of just the inventory, with
\* every server in it and unsealed.
Converges ==
  Cardinality(peers \intersect Inventory) >= Majority(peers)
    => <>(peers = Inventory /\ Inventory \subseteq Healthy)
==============================================================================
