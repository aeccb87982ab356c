---------------------------- MODULE DisasterRecovery ----------------------------
(***************************************************************************)
(* utils/run_disaster_recovery_vault_server.py: scripts that start a Vault *)
(* of their own on a port of localhost, initialise and unseal it and load  *)
(* a snapshot into it, among other servers that may have the port.         *)
(*                                                                         *)
(* A server that cannot bind the port ends; requests go to whichever has   *)
(* it.  A request is a step; it has no timeout, so one that the port's     *)
(* server takes and never answers lasts until that server stops or the     *)
(* person interrupts the script.  One key share unseals.                   *)
(***************************************************************************)
EXTENDS Naturals

CONSTANTS Scripts, Others,  \* a script's server bears its name
          Snapshot,   \* the scripts that were given one
          None,
          Timeout,    \* startup_timeout, and that of the cluster's wait
          MaxHangups  \* bound: scripts killed without a chance to clean up

Servers == Scripts \cup Others
ASSUME DisjointAssumption == Scripts \cap Others = {} /\ None \notin Servers
ASSUME SnapshotAssumption == Snapshot \subseteq Scripts
ASSUME TimeoutAssumption == Timeout \in Nat \ {0}

VARIABLES
  port,     \* the server that has the port, or None
  process,  \* per server; one that is "mute" takes requests and answers none
  initialised, sealed,
  submitted,  \* per server, whether keys towards its unsealing have been given
  holds,    \* per server, the script whose snapshot it has, or None
  data,     \* servers whose data directory exists
  pc,       \* per script
  polls,    \* per script, in the loop it is in
  asking,   \* per script: "no", "waiting" for a mute server, or the connection "lost"
  keysOf,   \* per script, the server it has the keys and the root token of
  outcome,  \* per script, how it ended
  hangups

server == <<process, initialised, sealed, submitted, holds, data>>
script == <<pc, polls, asking, keysOf, outcome>>
vars == <<port, server, script, hangups>>

\* Of the other servers any may be running at first, on this port one.
Init ==
  /\ port \in Others \cup {None}
  /\ \E how \in {"up", "mute"} :
       process = [x \in Servers |-> IF x = port THEN how ELSE "off"]
  /\ initialised \in {f \in [Servers -> BOOLEAN] : \A s \in Scripts : ~f[s]}
  /\ sealed = [x \in Servers |-> TRUE]
  /\ submitted = [x \in Servers |-> FALSE]
  /\ holds = [x \in Servers |-> None]
  /\ data = Others
  /\ pc = [s \in Scripts |-> "start"]
  /\ polls = [s \in Scripts |-> 0]
  /\ asking = [s \in Scripts |-> "no"]
  /\ keysOf = [s \in Scripts |-> None]
  /\ outcome = [s \in Scripts |-> None]
  /\ hangups = 0

(***************************************************************************)
(* Server processes.                                                       *)
(***************************************************************************)
Bind(x) ==
  /\ process[x] = "starting"
  /\ IF port = None
       THEN port' = x /\ process' = [process EXCEPT ![x] = "up"]
       ELSE process' = [process EXCEPT ![x] = "dead"] /\ UNCHANGED port
  /\ UNCHANGED <<initialised, sealed, submitted, holds, data, script, hangups>>

\* A killed process ends some time later.
Die(x) ==
  /\ process[x] = "killed"
  /\ process' = [process EXCEPT ![x] = "dead"]
  /\ port' = IF port = x THEN None ELSE port
  /\ UNCHANGED <<initialised, sealed, submitted, holds, data, script, hangups>>

\* A script's server ends by itself.
Crash(s) ==
  /\ s \in Scripts /\ process[s] \in {"starting", "up"}
  /\ process' = [process EXCEPT ![s] = "dead"]
  /\ port' = IF port = s THEN None ELSE port
  /\ UNCHANGED <<initialised, sealed, submitted, holds, data, script, hangups>>

OtherStarts(x) ==
  /\ x \in Others /\ process[x] \in {"off", "dead"} /\ port = None
  /\ port' = x
  /\ \E how \in {"up", "mute"} : process' = [process EXCEPT ![x] = how]
  /\ sealed' = [sealed EXCEPT ![x] = TRUE]
  /\ submitted' = [submitted EXCEPT ![x] = FALSE]
  /\ UNCHANGED <<initialised, holds, data, script, hangups>>

OtherStops(x) ==
  /\ x \in Others /\ port = x
  /\ port' = None
  /\ process' = [process EXCEPT ![x] = "dead"]
  /\ asking' = [s \in Scripts |-> IF asking[s] = "waiting" THEN "lost" ELSE asking[s]]
  /\ UNCHANGED <<initialised, sealed, submitted, holds, data,
                 pc, polls, keysOf, outcome, hangups>>

\* Its people initialise it, and unseal it with two keys.
OtherInitialised(x) ==
  /\ x \in Others /\ port = x /\ process[x] = "up" /\ ~initialised[x]
  /\ initialised' = [initialised EXCEPT ![x] = TRUE]
  /\ UNCHANGED <<port, process, sealed, submitted, holds, data, script, hangups>>

OtherSubmits(x) ==
  /\ x \in Others /\ port = x /\ process[x] = "up" /\ initialised[x] /\ sealed[x]
  /\ IF submitted[x]
       THEN /\ sealed' = [sealed EXCEPT ![x] = FALSE]
            /\ submitted' = [submitted EXCEPT ![x] = FALSE]
       ELSE /\ submitted' = [submitted EXCEPT ![x] = TRUE]
            /\ UNCHANGED sealed
  /\ UNCHANGED <<port, process, initialised, holds, data, script, hangups>>

(***************************************************************************)
(* The script.                                                             *)
(***************************************************************************)
Goto(s, p) == pc' = [pc EXCEPT ![s] = p]
\* An exception, whose way out leads through the finally clause.
\* Mutant: past it.
RaiseUnprotected(s, why) ==
  /\ pc' = [pc EXCEPT ![s] = "remove"]
  /\ outcome' = [outcome EXCEPT ![s] = why]
Raise(s, why) ==
  /\ pc' = [pc EXCEPT ![s] = "kill"]
  /\ outcome' = [outcome EXCEPT ![s] = why]

\* The two loops that wait for the server and for the cluster.
MayPoll(s) == polls[s] < Timeout
Count(s) == polls' = [polls EXCEPT ![s] = @ + 1]

\* The script sends a request, and the port's server answers it or there is none.
Requests(s, task) ==
  /\ pc[s] = task /\ asking[s] = "no"
  /\ port # None => process[port] # "mute"

\* A request that has no answer.
Asks(s) ==
  /\ asking[s] = "no" /\ port # None /\ process[port] = "mute"
  /\ \/ pc[s] \in {"init", "reset", "unseal", "restore"}
     \/ pc[s] \in {"poll", "cluster"} /\ MayPoll(s)
  /\ asking' = [asking EXCEPT ![s] = "waiting"]
  /\ UNCHANGED <<port, server, pc, polls, keysOf, outcome, hangups>>

\* An exception out of such a request, which either loop swallows, whatever it is.
Fails(s, why) ==
  /\ asking' = [asking EXCEPT ![s] = "no"]
  /\ IF pc[s] \in {"poll", "cluster"}
       THEN Count(s) /\ UNCHANGED <<pc, outcome>>
       ELSE Raise(s, why) /\ UNCHANGED polls

ConnectionLost(s) ==
  /\ asking[s] = "lost"
  /\ Fails(s, "error")
  /\ UNCHANGED <<port, server, keysOf, hangups>>

\* The directory and the configuration file are made and the command is run; it
\* may not be there, and then there is nothing to kill.
Launch(s) ==
  /\ pc[s] = "start"
  /\ data' = data \cup {s}
  /\ \/ /\ process' = [process EXCEPT ![s] = "starting"]
        /\ Goto(s, "poll")
        /\ UNCHANGED outcome
     \/ /\ Goto(s, "remove")
        /\ outcome' = [outcome EXCEPT ![s] = "nocommand"]
        /\ UNCHANGED process
  /\ UNCHANGED <<port, initialised, sealed, submitted, holds, polls, asking, keysOf, hangups>>

Ready == port # None /\ ~initialised[port]

\* The exception about another server is raised inside the try whose except passes:
\* the loop goes on, as it does when it is interrupted in the request.
Poll(s) ==
  /\ Requests(s, "poll") /\ MayPoll(s)
  /\ \/ Ready /\ Goto(s, "init") /\ polls' = [polls EXCEPT ![s] = 0]
     \/ Count(s) /\ UNCHANGED pc
  /\ UNCHANGED <<port, server, asking, keysOf, outcome, hangups>>

PollsOut(s) ==
  /\ pc[s] = "poll" /\ ~MayPoll(s)
  /\ Raise(s, "nostart")
  /\ UNCHANGED <<port, server, polls, asking, keysOf, hangups>>

\* Mutant: raise_for_status is forgotten.
RefusalIgnored(s) == Goto(s, "reset") /\ UNCHANGED outcome
Refusal(s) == Raise(s, "error")

\* vault_init: one share, a threshold of one.
VaultInit(s) ==
  /\ Requests(s, "init")
  /\ IF port # None /\ ~initialised[port]
       THEN /\ initialised' = [initialised EXCEPT ![port] = TRUE]
            /\ keysOf' = [keysOf EXCEPT ![s] = port]
            /\ Goto(s, "reset")
            /\ UNCHANGED outcome
       ELSE /\ Refusal(s)
            /\ UNCHANGED <<initialised, keysOf>>
  /\ UNCHANGED <<port, process, sealed, submitted, holds, data, polls, asking, hangups>>

\* vault_unseal: the unsealing is restarted, then the key is given.
Reset(s) ==
  /\ Requests(s, "reset")
  /\ IF port # None
       THEN /\ submitted' = [submitted EXCEPT ![port] = FALSE]
            /\ Goto(s, "unseal")
            /\ UNCHANGED outcome
       ELSE /\ Raise(s, "error")
            /\ UNCHANGED submitted
  /\ UNCHANGED <<port, process, initialised, sealed, holds, data, polls, asking, keysOf, hangups>>

\* To a server that is not sealed any key is good; another's counts a wrong one.
Unseal(s) ==
  /\ Requests(s, "unseal")
  /\ IF port # None /\ (keysOf[s] = port \/ ~sealed[port])
       THEN /\ sealed' = [sealed EXCEPT ![port] = FALSE]
            /\ Goto(s, "cluster")
            /\ UNCHANGED <<submitted, outcome>>
       ELSE /\ Raise(s, "error")
            /\ submitted' = [x \in Servers |->
                 IF x = port /\ x \in Others /\ initialised[x] THEN ~submitted[x] ELSE submitted[x]]
            /\ UNCHANGED sealed
  /\ UNCHANGED <<port, process, initialised, holds, data, polls, asking, keysOf, hangups>>

\* wait_for_vault_cluster_to_come_up: the answer takes a while.
WaitForCluster(s) ==
  /\ Requests(s, "cluster") /\ MayPoll(s)
  /\ \/ /\ port # None /\ ~sealed[port]
        /\ Goto(s, IF s \in Snapshot THEN "restore" ELSE "serving")
        /\ UNCHANGED polls
     \/ /\ Count(s)
        /\ UNCHANGED pc
  /\ UNCHANGED <<port, server, asking, keysOf, outcome, hangups>>

ClusterTimesOut(s) ==
  /\ pc[s] = "cluster" /\ ~MayPoll(s)
  /\ Raise(s, "error")
  /\ UNCHANGED <<port, server, polls, asking, keysOf, hangups>>

TokenValid(s) == keysOf[s] = port

\* vault_snapshot_restore: the keys are the snapshot's from then on.
Restore(s) ==
  /\ Requests(s, "restore")
  /\ IF port # None /\ TokenValid(s) /\ ~sealed[port]
       THEN /\ holds' = [holds EXCEPT ![port] = s]
            /\ sealed' = [sealed EXCEPT ![port] = TRUE]
            /\ Goto(s, "serving")
            /\ UNCHANGED outcome
       ELSE /\ Raise(s, "error")
            /\ UNCHANGED <<holds, sealed>>
  /\ UNCHANGED <<port, process, initialised, submitted, data, polls, asking, keysOf, hangups>>

\* The person unseals the snapshot with its keys, uses it, and presses enter or
\* interrupts the script.
Use(s) ==
  /\ pc[s] = "serving" /\ port # None /\ holds[port] = s /\ sealed[port]
  /\ sealed' = [sealed EXCEPT ![port] = FALSE]
  /\ UNCHANGED <<port, process, initialised, submitted, holds, data, script, hangups>>

Finish(s) ==
  /\ pc[s] \notin {"start", "kill", "remove", "ended"}
  /\ IF asking[s] = "no"
       THEN /\ Raise(s, IF pc[s] = "serving" THEN "served" ELSE "interrupted")
            /\ UNCHANGED <<polls, asking>>
       ELSE Fails(s, "interrupted")
  /\ UNCHANGED <<port, server, keysOf, hangups>>

Killed(s) == IF process[s] \in {"starting", "up"} THEN "killed" ELSE process[s]

\* The finally clause does not wait for the process to end.
Kill(s) ==
  /\ pc[s] = "kill"
  /\ process' = [process EXCEPT ![s] = Killed(s)]
  /\ Goto(s, "remove")
  /\ UNCHANGED <<port, initialised, sealed, submitted, holds, data,
                 polls, asking, keysOf, outcome, hangups>>

\* TemporaryDirectory removes the data; a process that still writes may make the
\* removal fail.
RemoveData(s) ==
  /\ pc[s] = "remove"
  /\ \/ data' = data \ {s}
     \/ process[s] = "killed" /\ UNCHANGED data
  /\ Goto(s, "ended")
  /\ UNCHANGED <<port, process, initialised, sealed, submitted, holds,
                 polls, asking, keysOf, outcome, hangups>>

\* The script is killed or its terminal closed: no finally clause.
Hangup(s) ==
  /\ hangups < MaxHangups /\ pc[s] \notin {"start", "ended"}
  /\ hangups' = hangups + 1
  /\ Goto(s, "ended")
  /\ asking' = [asking EXCEPT ![s] = "no"]
  /\ outcome' = [outcome EXCEPT ![s] = "hungup"]
  /\ UNCHANGED <<port, server, polls, keysOf>>

Works(s) ==
  \/ Launch(s) \/ Asks(s) \/ ConnectionLost(s)
  \/ Poll(s) \/ PollsOut(s) \/ VaultInit(s) \/ Reset(s) \/ Unseal(s)
  \/ WaitForCluster(s) \/ ClusterTimesOut(s) \/ Restore(s) \/ Kill(s) \/ RemoveData(s)

Next ==
  \/ \E x \in Servers : Bind(x) \/ Die(x) \/ Crash(x)
  \/ \E x \in Others : OtherStarts(x) \/ OtherStops(x) \/ OtherInitialised(x) \/ OtherSubmits(x)
  \/ \E s \in Scripts : Works(s) \/ Use(s) \/ Finish(s) \/ Hangup(s)

Spec == Init /\ [][Next]_vars

\* The script runs on, but for a request without an answer; processes start and end.
Fairness ==
  /\ \A s \in Scripts : WF_vars(Works(s))
  /\ \A x \in Servers : WF_vars(Bind(x)) /\ WF_vars(Die(x))
FairSpec == Spec /\ Fairness

-----------------------------------------------------------------------------
\* The variables have their types, and the port's server is running.
TypeOK ==
  /\ port \in Servers \cup {None}
  /\ process \in [Servers -> {"off", "starting", "up", "mute", "killed", "dead"}]
  /\ port # None => process[port] \in {"up", "mute", "killed"}
  /\ initialised \in [Servers -> BOOLEAN] /\ sealed \in [Servers -> BOOLEAN]
  /\ submitted \in [Servers -> BOOLEAN]
  /\ holds \in [Servers -> Scripts \cup {None}]
  /\ data \subseteq Servers
  /\ polls \in [Scripts -> 0..Timeout]
  /\ asking \in [Scripts -> {"no", "waiting", "lost"}]
  /\ keysOf \in [Scripts -> Servers \cup {None}]

\* It gives the key to a server that it is not the key of.
Astray(s) ==
  \/ keysOf[s] \notin {None, s}
  \/ keysOf[s] = s /\ process[s] = "dead" /\ pc[s] \in {"reset", "unseal"}

\* A server that was initialised by others, even between a script's look and its
\* next request, is never changed by a script: it is not unsealed and nothing is
\* loaded into it; and its unsealing goes on, unless the server that a script has
\* initialised crashes at the wrong time, or is not the script's own and stops.
SparesInitialised ==
  [][\A x \in Others : initialised[x] =>
       /\ (\A s \in Scripts : keysOf[s] # x)
            => /\ holds'[x] = holds[x]
               /\ pc' # pc => sealed'[x] = sealed[x]
       /\ (\A s \in Scripts : ~Astray(s)) /\ pc' # pc
            => submitted'[x] = submitted[x]]_vars

\* What a script that has ended leaves: its own server is gone.
Gone(s) ==
  pc[s] = "ended" /\ (outcome[s] # "hungup" => process[s] \in {"off", "dead"})

\* A script ends up serving, or it ends and its server with it, whoever has the
\* port, whatever crashes and when it is interrupted: unless a server keeps the port
\* for good that takes its request and does not answer.
Answers ==
  \A s \in Scripts :
    \/ <>[](pc[s] = "serving" \/ Gone(s))
    \/ <>[](asking[s] = "waiting" /\ port \in Others /\ process[port] = "mute")
===============================================================================
