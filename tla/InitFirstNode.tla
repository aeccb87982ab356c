----------------------------- MODULE InitFirstNode -----------------------------
(***************************************************************************)
(* The very first initialisation of a cluster, roles/init_first_node: one  *)
(* server is initialised with a temporary key, its root token revoked, its *)
(* keys replaced by the administrators' and stored on the hosts; if that   *)
(* fails everything is deleted.  Several playbooks may run at once.        *)
(*                                                                         *)
(* Hosts are numbers in the inventory's order; a task that runs once runs  *)
(* on the first host of its play.  A cluster is the number of the          *)
(* initialisation it comes from, 0 is none.  A host that is down is one    *)
(* whose API does not answer; systemd and the files can still be reached.  *)
(***************************************************************************)
EXTENDS Integers, FiniteSets, FiniteSetsExt

CONSTANTS
  N,            \* number of hosts
  Plays,        \* main playbooks
  Limits,       \* sets of hosts a playbook may be limited to
  SkipCheck,    \* bbcrd_vault_skip_cluster_init_sanity_check
  MaxFailures, MaxCuts, MaxMade  \* bounds: failing tasks and hosts, killed playbooks,
                                 \* initialisations

Hosts == 1..N

ASSUME HostsAssumption == N \in Nat \ {0} /\ Limits \subseteq (SUBSET Hosts) \ {{}}
ASSUME BoundsAssumption == {MaxFailures, MaxCuts, MaxMade} \subseteq Nat
ASSUME SkipAssumption == SkipCheck \in BOOLEAN

VARIABLES
  data,      \* per host, the cluster in its data directory
  stopped, down, unsealed,  \* sets of hosts
  made,      \* initialisations so far
  rekeyed,   \* clusters that have the administrators' keys
  rooted,    \* clusters whose first root token is valid
  files,     \* per host, the cluster its encrypted unseal keys are for
  inUse,     \* clusters in which something of value may be stored
  pc,
  hosts,     \* per play, its hosts
  left,      \* per play, the hosts whose data it has yet to delete
  mine,      \* per play, the cluster it initialised
  failures, cuts

vault == <<data, stopped, down, unsealed, made, rekeyed, rooted>>
play == <<pc, hosts, left, mine>>
vars == <<vault, files, inUse, play, failures, cuts>>

Steps == {"out", "count", "init", "unseal", "revoke", "rekey", "save",
          "stop", "delete", "start", "using", "ended"}

Init ==
  /\ data = [h \in Hosts |-> 0] /\ files = [h \in Hosts |-> 0]
  /\ stopped = {} /\ down = {} /\ unsealed = {}
  /\ made = 0 /\ rekeyed = {} /\ rooted = {} /\ inUse = {}
  /\ pc = [p \in Plays |-> "out"]
  /\ hosts = [p \in Plays |-> Hosts]
  /\ left = [p \in Plays |-> {}]
  /\ mine = [p \in Plays |-> 0]
  /\ failures = 0 /\ cuts = 0

Goto(p, s) == pc' = [pc EXCEPT ![p] = s]
Runner(p) == Min(hosts[p])
Answering == Hosts \ (stopped \cup down)

(***************************************************************************)
(* Whether to initialise.                                                  *)
(***************************************************************************)
\* Ensure Vault servers are started.
Begin(p) ==
  /\ pc[p] \in {"out", "ended"}
  /\ \E L \in Limits :
       /\ hosts' = [hosts EXCEPT ![p] = L]
       /\ stopped' = stopped \ L
  /\ Goto(p, "count")
  /\ UNCHANGED <<data, down, unsealed, made, rekeyed, rooted, files, inUse, left, mine,
                 failures, cuts>>

Initialised(known) == {h \in known : data[h] # 0}
\* Mutant: the role goes on whatever is initialised.
NoneInitialisedAny(known) == TRUE
NoneInitialised(known) == Initialised(known) = {}
\* Mutant: the hosts of the play are compared with themselves.
AllCountedPlay(known) == known # {}
AllCounted(known) == SkipCheck \/ known = Hosts

\* Hosts that do not answer fail and take no further part.
Count(p) ==
  /\ pc[p] = "count"
  /\ LET known == hosts[p] \cap Answering IN
     /\ hosts' = [hosts EXCEPT ![p] = known]
     /\ \/ known = {} /\ Goto(p, "ended")
        \/ known # {} /\ ~NoneInitialised(known) /\ Goto(p, "using")
        \/ known # {} /\ NoneInitialised(known) /\ AllCounted(known) /\ Goto(p, "init")
        \/ known # {} /\ NoneInitialised(known) /\ ~AllCounted(known) /\ Goto(p, "ended")
  /\ UNCHANGED <<vault, files, inUse, left, mine, failures, cuts>>

(***************************************************************************)
(* The tasks in the block.  A task that fails is followed by the rescue    *)
(* section, whether or not its request had its effect.                     *)
(***************************************************************************)
\* Mutant: a root token that cannot be revoked is left.
RescuedLenient(step) == IF step = "revoke" THEN "rekey" ELSE "stop"
Rescued(step) == "stop"

Answered(p, next) ==
  \/ Goto(p, next) /\ UNCHANGED failures
  \/ /\ failures < MaxFailures /\ failures' = failures + 1
     /\ Goto(p, Rescued(pc[p]))

Possible(p) ==
  LET r == Runner(p) IN
  /\ r \in Answering
  /\ pc[p] = "init" => data[r] = 0
  /\ pc[p] # "init" => data[r] = mine[p]
  /\ pc[p] \in {"revoke", "rekey"} => r \in unsealed
  /\ pc[p] = "revoke" => mine[p] \in rooted
  /\ pc[p] \in {"unseal", "rekey"} => mine[p] \notin rekeyed

InitServer(p) ==
  /\ pc[p] = "init" /\ Possible(p) /\ made < MaxMade
  /\ made' = made + 1
  /\ data' = [data EXCEPT ![Runner(p)] = made']
  /\ rooted' = rooted \cup {made'}
  /\ mine' = [mine EXCEPT ![p] = made']
  /\ Answered(p, "unseal")
  /\ UNCHANGED <<stopped, down, unsealed, rekeyed, files, inUse, hosts, left, cuts>>

Unseal(p) ==
  /\ pc[p] = "unseal" /\ Possible(p)
  /\ unsealed' = unsealed \cup {Runner(p)}
  /\ Answered(p, "revoke")
  /\ UNCHANGED <<data, stopped, down, made, rekeyed, rooted, files, inUse, hosts, left,
                 mine, cuts>>

Revoke(p) ==
  /\ pc[p] = "revoke" /\ Possible(p)
  /\ rooted' = rooted \ {mine[p]}
  /\ Answered(p, "rekey")
  /\ UNCHANGED <<data, stopped, down, unsealed, made, rekeyed, files, inUse, hosts,
                 left, mine, cuts>>

\* rekey/init, which changes no key yet, and rekey/update.
Rekey(p) ==
  /\ pc[p] = "rekey" /\ Possible(p)
  /\ rekeyed' = rekeyed \cup {mine[p]}
  /\ Answered(p, "save")
  /\ UNCHANGED <<data, stopped, down, unsealed, made, rooted, files, inUse, hosts,
                 left, mine, cuts>>

\* save_encrypted_unseal_keys, on all hosts of the play, or on some before it fails.
Save(p) ==
  /\ pc[p] = "save"
  /\ \E done \in SUBSET hosts[p] :
       /\ files' = [h \in Hosts |-> IF h \in done THEN mine[p] ELSE files[h]]
       /\ IF done = hosts[p] THEN Goto(p, "using") /\ UNCHANGED failures
          ELSE /\ failures < MaxFailures /\ failures' = failures + 1
               /\ Goto(p, Rescued("save"))
  /\ UNCHANGED <<vault, inUse, hosts, left, mine, cuts>>

\* Vault refuses the request, or it gets lost.
Fail(p) ==
  /\ pc[p] \in {"init", "unseal", "revoke", "rekey"}
  /\ Possible(p) => failures < MaxFailures
  /\ failures' = IF Possible(p) THEN failures + 1 ELSE failures
  /\ Goto(p, Rescued(pc[p]))
  /\ UNCHANGED <<vault, files, inUse, hosts, left, mine, cuts>>

(***************************************************************************)
(* The rescue section, on every host of the play.                          *)
(***************************************************************************)
\* Mutant: like the block, it is run once.
DeletedOnce(p) == {Runner(p)}
Deleted(p) == hosts[p]

Stop(p) ==
  /\ pc[p] = "stop"
  /\ stopped' = stopped \cup hosts[p] /\ unsealed' = unsealed \ hosts[p]
  /\ left' = [left EXCEPT ![p] = Deleted(p)]
  /\ Goto(p, "delete")
  /\ UNCHANGED <<data, down, made, rekeyed, rooted, files, inUse, hosts, mine, failures, cuts>>

Delete(p) ==
  /\ pc[p] = "delete"
  /\ \E h \in left[p] :
       /\ data' = [data EXCEPT ![h] = 0]
       /\ left' = [left EXCEPT ![p] = @ \ {h}]
       /\ IF left[p] = {h} THEN Goto(p, "start") ELSE UNCHANGED pc
  /\ UNCHANGED <<stopped, down, unsealed, made, rekeyed, rooted, files, inUse, hosts, mine,
                 failures, cuts>>

Start(p) ==
  /\ pc[p] = "start"
  /\ stopped' = stopped \ hosts[p]
  /\ Goto(p, "ended")
  /\ UNCHANGED <<data, down, unsealed, made, rekeyed, rooted, files, inUse, hosts, left, mine,
                 failures, cuts>>

(***************************************************************************)
(* The rest of the playbook, and what is around it.                        *)
(***************************************************************************)
\* The keys are read from the hosts, must be the same on all that have any, and must
\* unseal the cluster for the playbook to go on.
Fetched(p) == {files[h] : h \in hosts[p]} \ {0}
Opens(p, c) == Fetched(p) = {c} /\ \E h \in hosts[p] \cap Answering : data[h] = c

Continue(p) ==
  /\ pc[p] = "using"
  /\ \E c \in Fetched(p) :
       /\ Opens(p, c)
       /\ unsealed' = unsealed \cup {h \in hosts[p] \cap Answering : data[h] = c}
       /\ inUse' = inUse \cup {c}
  /\ Goto(p, "ended")
  /\ UNCHANGED <<data, stopped, down, made, rekeyed, rooted, files, hosts, left, mine,
                 failures, cuts>>

GiveUp(p) ==
  /\ pc[p] = "using" /\ \A c \in Fetched(p) : ~Opens(p, c)
  /\ Goto(p, "ended")
  /\ UNCHANGED <<vault, files, inUse, hosts, left, mine, failures, cuts>>

\* retry_join: a new server joins a cluster that it finds unsealed.
Join(h) ==
  /\ h \in Answering /\ data[h] = 0
  /\ \E g \in unsealed \cap Answering : data' = [data EXCEPT ![h] = data[g]]
  /\ UNCHANGED <<stopped, down, unsealed, made, rekeyed, rooted, files, inUse, play,
                 failures, cuts>>

HostDown(h) ==
  /\ h \notin down /\ failures < MaxFailures
  /\ failures' = failures + 1
  /\ down' = down \cup {h} /\ unsealed' = unsealed \ {h}
  /\ UNCHANGED <<data, stopped, made, rekeyed, rooted, files, inUse, play, cuts>>

HostUp(h) ==
  /\ h \in down /\ down' = down \ {h}
  /\ UNCHANGED <<data, stopped, unsealed, made, rekeyed, rooted, files, inUse, play,
                 failures, cuts>>

\* Ctrl-C, or the control node's crash: no rescue section runs.
Cut(p) ==
  /\ pc[p] \notin {"out", "ended"} /\ cuts < MaxCuts
  /\ cuts' = cuts + 1
  /\ Goto(p, "ended")
  /\ UNCHANGED <<vault, files, inUse, hosts, left, mine, failures>>

Runs(p) ==
  \/ Begin(p) \/ Count(p) \/ InitServer(p) \/ Unseal(p) \/ Revoke(p) \/ Rekey(p) \/ Save(p)
  \/ Fail(p) \/ Stop(p) \/ Delete(p) \/ Start(p) \/ Continue(p) \/ GiveUp(p)

Next ==
  \/ \E p \in Plays : Runs(p) \/ Cut(p)
  \/ \E h \in Hosts : Join(h) \/ HostDown(h) \/ HostUp(h)

Spec == Init /\ [][Next]_vars

\* A playbook goes on by itself, and is run again and again, now and then without a
\* limit; hosts that are down are repaired.
FairSpec ==
  /\ Spec
  /\ \A p \in Plays : WF_vars(Runs(p)) /\ SF_vars(Begin(p) /\ hosts'[p] = Hosts)
  /\ \A h \in Hosts : WF_vars(HostUp(h))

-----------------------------------------------------------------------------
\* The variables have their types; only servers that answer are unsealed, and
\* only clusters that have the administrators' keys are used.
TypeOK ==
  /\ data \in [Hosts -> 0..made] /\ files \in [Hosts -> 0..made] /\ made \in 0..MaxMade
  /\ stopped \subseteq Hosts /\ down \subseteq Hosts
  /\ unsealed \subseteq Answering
  /\ rekeyed \subseteq 1..made /\ rooted \subseteq 1..made /\ inUse \subseteq rekeyed
  /\ pc \in [Plays -> Steps]
  /\ hosts \in [Plays -> SUBSET Hosts] /\ left \in [Plays -> SUBSET Hosts]
  /\ mine \in [Plays -> 0..made]

\* However playbooks are limited and repeated, and whatever hosts are down when the
\* servers are counted, there are never two clusters.
NoSecondCluster == Cardinality({data[h] : h \in Initialised(Hosts)}) <= 1

Saved(c) == c \in rekeyed /\ \E h \in Hosts : files[h] = c
Initialising(p) == pc[p] \in {"unseal", "revoke", "rekey", "save", "stop", "delete"}

\* The comment of the rescue section: unless its keys have been saved, a cluster is
\* deleted, by the end of the playbook that initialised it (if that was not killed).
DeletedUnlessSavedIfUncut ==
  cuts = 0 /\ (\A p \in Plays : ~Initialising(p)) =>
    \A h \in Initialised(Hosts) : Saved(data[h])

\* main.yml: the role does nothing if a server is initialised already; what is in use
\* stays.
InUseKept == [][\A c \in inUse : \E h \in Hosts : data'[h] = c]_vars

\* Later roles assume that no root token exists: nothing is stored in a cluster whose
\* first one is valid.
NoRootTokenInUse == inUse \cap rooted = {}

\* After failures the playbook can be run again until the cluster is in use, unless
\* one was killed: that may leave a cluster whose keys nobody has.
EventuallyInUse == <>(inUse # {} \/ cuts > 0)
===============================================================================
