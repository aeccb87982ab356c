---------------------------- MODULE HelperPlaybook ----------------------------
(***************************************************************************)
(* playbooks/supply_additional_keys.yml against manage_vault_cluster.yml:  *)
(* which operation a helper's playbook offers which keys to, while the     *)
(* main playbook goes from one operation to the next.                      *)
(*                                                                         *)
(* Main needs a key of one helper for every operation.  A set of unseal    *)
(* keys is known by the nonce of the rekeying it comes from.  How the keys *)
(* of one operation are counted is KeySubmission's subject, what happens   *)
(* to the files UnsealKeyRotation's.                                       *)
(***************************************************************************)
EXTENDS Integers, FiniteSets, Sequences

CONSTANTS
  Helpers,
  InTurn,            \* TRUE if helpers take turns and come when a key is missing
  MaxRuns, MaxCuts   \* bounds: main playbooks, killed ones

ASSUME FlagsAssumption == InTurn \in BOOLEAN
ASSUME BoundsAssumption == MaxRuns \in Nat /\ MaxCuts \in Nat

VARIABLES
  current,    \* per kind of operation, the nonce of the one in progress, or 0
  last,       \* the last nonce; the unseal API has none, they are history there
  supplied,   \* kinds of operation a helper's keys have been accepted for,
  bad,        \* and those for which they were not the right ones
  live, pending,    \* keys Vault takes, and those being verified
  file, candidate,  \* keys in the hosts' two files
  at, asking,       \* Main's stage; whether it waits for a helper's keys
  told,             \* nonces Main has shown
  runs, cuts, completed,
  hpc, hstep, verifying, hkeys, hnonce,  \* per helper, the task and what it registered
  gave,       \* history: per helper, operations of Main's run given keys to, except
              \* to unseal a server that Main restarts
  overtaken,  \* history: helpers whose keys were not, or are no longer, live
  spoilt      \* history: kinds of operation others gave a wrong key to

vault == <<current, last, supplied, bad, live, pending>>
main == <<at, asking, told, runs, cuts, completed>>
helpers == <<hpc, hstep, verifying, hkeys, hnonce, gave>>
history == <<overtaken, spoilt>>
playbookVars == <<vault, file, candidate, main, helpers, history>>

Kinds == {"unseal", "root", "rekey", "verify"}
None == -1

PlaybookInit ==
  /\ current = [k \in Kinds |-> 0] /\ last = 0
  /\ supplied = {} /\ bad = {}
  /\ live = 0 /\ pending = 0 /\ file = 0 /\ candidate = None
  /\ at = "ended" /\ asking = FALSE /\ told = {}
  /\ runs = 0 /\ cuts = 0 /\ completed = FALSE
  /\ hpc = [h \in Helpers |-> "out"] /\ hstep = [h \in Helpers |-> "status"]
  /\ verifying = [h \in Helpers |-> FALSE]
  /\ hkeys = [h \in Helpers |-> None]
  /\ hnonce = [h \in Helpers |-> 0]
  /\ gave = [h \in Helpers |-> {}]
  /\ overtaken = {} /\ spoilt = {}

(***************************************************************************)
(* The main playbook.                                                      *)
(***************************************************************************)
Stages == {"unseal", "root", "restart", "rekey", "save", "verify", "move", "ended"}
KindOf(s) == IF s = "restart" THEN "unseal" ELSE s
After(s) ==
  CASE s = "unseal" -> "root"
    [] s = "root" -> "restart"
    [] s = "restart" -> "rekey"
    [] s = "rekey" -> "save"
    [] s = "save" -> "verify"
    [] s = "verify" -> "move"
    [] s = "move" -> "ended"

MainStart ==
  /\ at = "ended" /\ runs < MaxRuns
  /\ runs' = runs + 1
  /\ at' = "unseal"
  /\ gave' = [h \in Helpers |-> {}]
  /\ UNCHANGED <<vault, file, candidate, asking, told, cuts, completed, hpc, hstep,
                 verifying, hkeys, hnonce, history>>

\* An operation is begun in place of any of its kind, rekeying also of a verification,
\* which is itself begun by Vault.
MainBegin ==
  /\ at \in {"unseal", "root", "restart", "rekey"} /\ ~asking
  /\ last' = last + 1
  /\ current' = [current EXCEPT ![KindOf(at)] = last',
                                !["verify"] = IF at = "rekey" THEN 0 ELSE @]
  /\ supplied' = supplied \ {KindOf(at)} /\ bad' = bad \ {KindOf(at)}
  /\ asking' = TRUE /\ told' = told \cup {last'}
  /\ UNCHANGED <<live, pending, file, candidate, at, runs, cuts, completed, helpers, history>>

MainVerify ==
  /\ at = "verify" /\ ~asking
  /\ asking' = TRUE /\ told' = told \cup {current["verify"]}
  /\ UNCHANGED <<vault, file, candidate, at, runs, cuts, completed, helpers, history>>

\* No server is sealed, or none is out of date, or the keys need no change.
MainSkip ==
  /\ at \in {"unseal", "restart", "rekey"} /\ ~asking
  /\ at' = IF at = "rekey" THEN "ended" ELSE After(at)
  /\ completed' = (completed \/ at = "rekey")
  /\ UNCHANGED <<vault, file, candidate, asking, told, runs, cuts, helpers, history>>

Answered == asking /\ KindOf(at) \in supplied \ bad

MainGoesOn ==
  /\ Answered /\ at \in {"unseal", "restart", "root"}
  /\ current' = [current EXCEPT ![KindOf(at)] = 0]
  /\ at' = After(at) /\ asking' = FALSE
  /\ UNCHANGED <<last, supplied, bad, live, pending, file, candidate, told, runs, cuts,
                 completed, helpers, history>>

\* The rekeying's nonce stays until its verification is over; its status says that all
\* its keys are missing.
RekeyDone ==
  /\ Answered /\ at = "rekey"
  /\ last' = last + 1
  /\ current' = [current EXCEPT !["verify"] = last']
  /\ supplied' = supplied \ {"rekey", "verify"} /\ bad' = bad \ {"rekey", "verify"}
  /\ pending' = current["rekey"]
  /\ at' = After(at) /\ asking' = FALSE
  /\ UNCHANGED <<live, file, candidate, told, runs, cuts, completed, helpers, history>>

VerifyDone ==
  /\ Answered /\ at = "verify"
  /\ live' = pending
  /\ current' = [current EXCEPT !["rekey"] = 0, !["verify"] = 0]
  /\ overtaken' = overtaken \cup {h \in Helpers : hkeys[h] \notin {None, pending}}
  /\ at' = After(at) /\ asking' = FALSE
  /\ UNCHANGED <<last, supplied, bad, pending, file, candidate, told, runs, cuts, completed,
                 helpers, spoilt>>

SaveCandidate ==
  /\ at = "save" /\ candidate' = pending /\ at' = After(at)
  /\ UNCHANGED <<vault, file, asking, told, runs, cuts, completed, helpers, history>>

MakeLive ==
  /\ at = "move" /\ file' = candidate /\ at' = After(at) /\ completed' = TRUE
  /\ UNCHANGED <<vault, candidate, asking, told, runs, cuts, helpers, history>>

\* Vault refuses a key set with a wrong key in it, and the play ends.
MainFails ==
  /\ asking /\ KindOf(at) \in bad
  /\ supplied' = supplied \ {KindOf(at)} /\ bad' = bad \ {KindOf(at)}
  /\ at' = "ended" /\ asking' = FALSE
  /\ UNCHANGED <<current, last, live, pending, file, candidate, told, runs, cuts, completed,
                 helpers, history>>

\* Operations in progress outlive the playbook.
Cut ==
  /\ at # "ended" /\ cuts < MaxCuts
  /\ cuts' = cuts + 1
  /\ at' = "ended" /\ asking' = FALSE
  /\ UNCHANGED <<vault, file, candidate, told, runs, completed, helpers, history>>

(***************************************************************************)
(* A helper's playbook.                                                    *)
(***************************************************************************)
Goto(h, s) == hpc' = [hpc EXCEPT ![h] = s]
Step(h, s) == hstep' = [hstep EXCEPT ![h] = s]

\* Documented: once the main playbook waits, and not in parallel.
HelperStart(h) ==
  /\ hpc[h] = "out" /\ asking
  /\ InTurn => KindOf(at) \notin supplied /\ \A g \in Helpers : hpc[g] = "out"
  /\ Goto(h, "check")
  /\ hkeys' = [hkeys EXCEPT ![h] = None]
  /\ gave' = [gave EXCEPT ![h] = {}]
  /\ overtaken' = overtaken \ {h}
  /\ UNCHANGED <<vault, file, candidate, main, hstep, verifying, hnonce, spoilt>>

CheckVerification(h) ==
  /\ hpc[h] = "check"
  /\ verifying' = [verifying EXCEPT ![h] = current["verify"] # 0]
  /\ Goto(h, IF verifying'[h] THEN "candidate" ELSE "decrypt")
  /\ UNCHANGED <<vault, file, candidate, main, hstep, hkeys, hnonce, gave, history>>

\* Without a candidate file the verification is skipped.
AfterCandidate == IF candidate = None THEN "decrypt" ELSE "verify"

DecryptCandidate(h) ==
  /\ hpc[h] = "candidate"
  /\ hkeys' = [hkeys EXCEPT ![h] = candidate]
  /\ Goto(h, AfterCandidate)
  /\ UNCHANGED <<vault, file, candidate, main, hstep, verifying, hnonce, gave, history>>

\* Mutant: the candidate keys are kept.
ClearedKept(h) == hkeys[h]
Cleared(h) == None

ClearCandidate(h) ==
  /\ hpc[h] = "clear"
  /\ hkeys' = [hkeys EXCEPT ![h] = Cleared(h)]
  /\ Goto(h, "decrypt")
  /\ UNCHANGED <<vault, file, candidate, main, hstep, verifying, hnonce, gave, history>>

\* The other operations in turn.  Mutant: the main playbook's order.
SequenceForward == <<"unseal", "root", "rekey", "out">>
Sequence == <<"rekey", "root", "unseal", "out">>
Following(k) ==
  IF k = "verify" THEN "clear" ELSE Sequence[1 + CHOOSE i \in 1..3 : Sequence[i] = k]

\* Keys are decrypted unless some are loaded.
Decrypt(h) ==
  /\ hpc[h] = "decrypt"
  /\ IF hkeys[h] # None THEN UNCHANGED <<hkeys, overtaken>>
     ELSE /\ hkeys' = [hkeys EXCEPT ![h] = file]
          /\ overtaken' = IF file = live THEN overtaken ELSE overtaken \cup {h}
  /\ Goto(h, Sequence[1])
  /\ UNCHANGED <<vault, file, candidate, main, hstep, verifying, hnonce, gave, spoilt>>

(***************************************************************************)
(* The flow for one kind of operation: its status, the administrator's     *)
(* answer, the submission.                                                 *)
(***************************************************************************)
At(h, k, s) == hpc[h] = k /\ hstep[h] = s
\* Mutant: the verification is looked at the wrong way round.
OfferedInverted(h, k) == current[k] # 0 /\ (k = "rekey" => verifying[h])
Offered(h, k) == current[k] # 0 /\ (k = "rekey" => ~verifying[h])

\* The last key missing is left to Main: once another helper has given the others,
\* none is sent.
Status(h, k) ==
  /\ At(h, k, "status")
  /\ IF Offered(h, k) /\ k \notin supplied
     THEN Step(h, "answer") /\ hnonce' = [hnonce EXCEPT ![h] = current[k]] /\ UNCHANGED hpc
     ELSE Goto(h, Following(k)) /\ UNCHANGED <<hstep, hnonce>>
  /\ UNCHANGED <<vault, file, candidate, main, verifying, hkeys, gave, history>>

\* The nonce is compared with those Main has shown; for unsealing none is shown.
Agrees(h) == hpc[h] = "unseal" \/ hnonce[h] \in told

Answer(h, k) ==
  /\ At(h, k, "answer")
  /\ IF Agrees(h) THEN Step(h, "submit") /\ UNCHANGED hpc
     ELSE Step(h, "status") /\ Goto(h, Following(k))
  /\ UNCHANGED <<vault, file, candidate, main, verifying, hkeys, hnonce, gave, history>>

\* rekey/update is refused while the new keys are being verified.
Accepts(h, k) ==
  CASE k = "unseal" -> current[k] # 0
    [] k = "rekey" -> current[k] = hnonce[h] /\ current["verify"] = 0
    [] OTHER -> current[k] = hnonce[h]
Right(k) == IF k = "verify" THEN pending ELSE live

SubmitAccepted(h, k) ==
  /\ At(h, k, "submit") /\ Accepts(h, k)
  /\ supplied' = supplied \cup {k}
  /\ IF hkeys[h] = Right(k) THEN UNCHANGED <<bad, spoilt>>
     ELSE /\ bad' = bad \cup {k}
          /\ spoilt' = IF h \in overtaken THEN spoilt ELSE spoilt \cup {k}
  /\ gave' = IF at = "restart" THEN gave ELSE [gave EXCEPT ![h] = @ \cup {current[k]}]
  /\ Step(h, "status") /\ Goto(h, Following(k))
  /\ UNCHANGED <<current, last, live, pending, file, candidate, main, verifying, hkeys, hnonce,
                 overtaken>>

\* An unsealed server ignores further keys; otherwise the play ends.
SubmitRefused(h, k) ==
  /\ At(h, k, "submit") /\ ~Accepts(h, k)
  /\ Step(h, "status") /\ Goto(h, IF k = "unseal" THEN Following(k) ELSE "out")
  /\ UNCHANGED <<vault, file, candidate, main, verifying, hkeys, hnonce, gave, history>>

Main ==
  \/ MainStart \/ MainBegin \/ MainVerify \/ MainSkip \/ MainGoesOn \/ RekeyDone
  \/ VerifyDone \/ SaveCandidate \/ MakeLive \/ MainFails
Helper(h) ==
  \/ HelperStart(h) \/ CheckVerification(h) \/ DecryptCandidate(h) \/ ClearCandidate(h)
  \/ Decrypt(h)
  \/ \E k \in Kinds : Status(h, k) \/ Answer(h, k) \/ SubmitAccepted(h, k) \/ SubmitRefused(h, k)

PlaybookNext == Main \/ Cut \/ \E h \in Helpers : Helper(h)

PlaybookSpec == PlaybookInit /\ [][PlaybookNext]_playbookVars
PlaybookFairSpec ==
  PlaybookSpec /\ WF_playbookVars(Main) /\ \A h \in Helpers : WF_playbookVars(Helper(h))

-----------------------------------------------------------------------------
\* The variables have their types; what is asked for is in progress, and a helper has
\* keys when they are asked about them.
PlaybookTypeOK ==
  /\ current \in [Kinds -> 0..last] /\ last \in Nat
  /\ bad \subseteq supplied /\ supplied \subseteq Kinds
  /\ {live, pending, file} \subseteq 0..last /\ candidate \in None..last
  /\ at \in Stages /\ told \subseteq 1..last
  /\ asking => current[KindOf(at)] \in told
  /\ runs \in 0..MaxRuns /\ cuts \in 0..MaxCuts /\ {asking, completed} \subseteq BOOLEAN
  /\ hpc \in [Helpers -> Kinds \cup {"out", "check", "candidate", "clear", "decrypt"}]
  /\ hstep \in [Helpers -> {"status", "answer", "submit"}]
  /\ verifying \in [Helpers -> BOOLEAN]
  /\ \A h \in Helpers : hpc[h] \in Kinds => hkeys[h] \in 0..last
  /\ hnonce \in [Helpers -> 0..last] /\ gave \in [Helpers -> SUBSET (1..last)]
  /\ overtaken \subseteq Helpers /\ spoilt \subseteq Kinds

\* The comment on the order: a helper's playbook gives keys to one operation of Main's
\* at most, though Main goes on to others meanwhile; that is so but for the unsealing of
\* a server that is restarted, which follows the generation of a root token.
OneOperation ==
  runs = 1 /\ cuts = 0 => \A h \in Helpers : Cardinality(gave[h]) <= 1

\* No wrong key spoils an operation, unless a rekeying overtook the helper who has it:
\* what is verified gets candidates, everything else the live keys.
WrongOnlyIfOutdated == spoilt = {}

\* The documented workflow: with helpers who run their playbook when Main's waits, Main's
\* gets to its end, whatever earlier runs left behind.
Completes == at # "ended" ~> at = "ended"
===============================================================================
