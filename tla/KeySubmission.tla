---------------------------- MODULE KeySubmission ----------------------------
(***************************************************************************)
(* One unseal key ceremony: unsealing a server, rekeying, verifying new    *)
(* keys, or generating a root token.  The administrator Main runs          *)
(* roles/generic_unseal_key_submission_flow from a main playbook; Helpers  *)
(* run roles/generic_additional_unseal_key_submission_flow from the        *)
(* playbook supply_additional_keys; Vault counts the keys.                 *)
(*                                                                         *)
(* Every HTTP request is one step, so that the requests of different       *)
(* administrators interleave and everything a play registered may be       *)
(* stale when it is used.                                                  *)
(*                                                                         *)
(* Abstracted: a key is <<administrator, position in their list>>; keys    *)
(* are valid; status polls that fail and are retried are stutters.         *)
(***************************************************************************)
EXTENDS Naturals, FiniteSets

CONSTANTS
  Main,             \* the administrator running the main playbook
  Helpers,          \* those running supply_additional_keys
  Shares,           \* how many unseal keys each administrator holds
  Required,         \* Vault's unseal threshold
  UsesNonce,        \* FALSE for the unseal API, which takes no nonce
  Verifying,        \* TRUE for rekey/verify: no status without an operation
  Coordinated,      \* helpers follow the documented discipline
  SkipConfirmation, \* bbcrd_vault_skip_additional_unseal_confirmation
  MaxNonce,         \* bound: operations ever begun
  MaxDisturbances   \* bound: crashes, failovers, operations of strangers

Admins == Helpers \union {Main}

ASSUME AdminsAssumption == Main \notin Helpers
ASSUME SharesAssumption == Shares \in [Admins -> Nat] /\ Shares[Main] >= 1
ASSUME RequiredAssumption == Required \in Nat \ {0}
ASSUME FlagsAssumption ==
  {UsesNonce, Verifying, Coordinated, SkipConfirmation} \subseteq BOOLEAN
ASSUME BoundsAssumption == MaxNonce \in Nat /\ MaxDisturbances \in Nat

Keys == UNION {{a} \X (1 .. Shares[a]) : a \in Admins}

VARIABLES
  \* Vault.  For the unseal API the nonce is 1 while the server is sealed.
  nonce, lastNonce, submitted, results,
  opened,        \* history: the operations Main began
  disturbances,
  \* Main's play: the task it is at and what it registered.
  mpc, mnonce, mleft, msent, mitem,
  \* Each helper's play.
  hpc, hnonce, hreq, hsent

vault == <<nonce, lastNonce, submitted, results>>
main == <<mpc, mnonce, mleft, msent, mitem>>
helpers == <<hpc, hnonce, hreq, hsent>>
vars == <<vault, opened, disturbances, main, helpers>>

MainPcs == {"idle", "begin", "status1", "initial", "status2", "wait", "final",
            "confirm", "done", "failed"}

TypeOK ==
  /\ nonce \in Nat /\ lastNonce \in Nat /\ nonce <= lastNonce
  /\ submitted \subseteq Keys
  /\ results \subseteq [nonce : Nat, to : Admins]
  /\ opened \subseteq Nat
  /\ disturbances \in Nat
  /\ mpc \in MainPcs
  /\ mnonce \in Nat /\ mleft \in Nat /\ msent \in Nat /\ mitem \in Nat
  /\ hpc \in [Helpers -> {"idle", "confirm", "submit"}]
  /\ hnonce \in [Helpers -> Nat]
  /\ hreq \in [Helpers -> Nat]
  /\ hsent \in [Helpers -> Nat]

(***************************************************************************)
(* Vault, as the roles use it.                                             *)
(***************************************************************************)
\* The keys Main's play computes to be missing.
Left == Required - Cardinality(submitted)

\* HTTP 400 from the status API.
NoStatus == Verifying /\ nonce = 0

\* HTTP 200 rather than 400.  An unsealed server answers 200 to unseal keys.
Accepts(n) == UsesNonce => nonce # 0 /\ n = nonce

Completes(key) == nonce # 0 /\ Cardinality(submitted \union {key}) >= Required

\* A key given twice counts once; the last one hands out the output.
Submit(who, key) ==
  \/ /\ nonce = 0
     /\ UNCHANGED vault
  \/ /\ nonce # 0 /\ ~Completes(key)
     /\ submitted' = submitted \union {key}
     /\ UNCHANGED <<nonce, lastNonce, results>>
  \/ /\ Completes(key)
     /\ results' = results \union {[nonce |-> nonce, to |-> who]}
     /\ nonce' = 0
     /\ submitted' = {}
     /\ UNCHANGED lastNonce

Begin ==
  /\ IF UsesNonce THEN lastNonce < MaxNonce /\ lastNonce' = lastNonce + 1
                  ELSE UNCHANGED lastNonce
  /\ nonce' = lastNonce'
  /\ submitted' = {}
  /\ UNCHANGED results

Cancel ==
  /\ nonce' = 0
  /\ submitted' = {}
  /\ UNCHANGED <<lastNonce, results>>

(***************************************************************************)
(* Initially an earlier, abandoned run may have left an operation behind.  *)
(***************************************************************************)
Init ==
  /\ submitted \in SUBSET Keys
  /\ IsFiniteSet(submitted) /\ Cardinality(submitted) < Required
  /\ nonce \in (IF UsesNonce THEN {0, 1} ELSE {1})
  /\ nonce = 0 => submitted = {}
  /\ lastNonce = nonce
  /\ results = {}
  /\ opened = {nonce} \ {0}
  /\ disturbances = 0
  /\ mpc = "idle" /\ mnonce = 0 /\ mleft = 0 /\ msent = 0 /\ mitem = 0
  /\ hpc = [h \in Helpers |-> "idle"]
  /\ hnonce = [h \in Helpers |-> 0]
  /\ hreq = [h \in Helpers |-> 0]
  /\ hsent = [h \in Helpers |-> 0]

(***************************************************************************)
(* Main's play.  Its "remaining" is mleft, its loop indices msent and      *)
(* mitem; mnonce is the nonce its own begin request returned.              *)
(***************************************************************************)
\* Mutant: without the cancellation.
MainForgetsToCancel ==
  /\ UsesNonce
  /\ mpc \in {"idle", "failed"} /\ lastNonce < MaxNonce
  /\ mpc' = "begin"
  /\ UNCHANGED <<vault, opened, disturbances, mnonce, mleft, msent, mitem, helpers>>

\* The calling roles cancel whatever is in progress before they begin ...
MainCancel ==
  /\ UsesNonce
  /\ mpc \in {"idle", "failed"} /\ lastNonce < MaxNonce
  /\ Cancel
  /\ mpc' = "begin"
  /\ UNCHANGED <<opened, disturbances, mnonce, mleft, msent, mitem, helpers>>

\* ... while the unseal role has nothing to do for a server that is not sealed ...
MainChecksSeal ==
  /\ ~UsesNonce
  /\ mpc \in {"idle", "failed"}
  /\ mpc' = IF nonce = 0 THEN "done" ELSE "begin"
  /\ UNCHANGED <<vault, opened, disturbances, mnonce, mleft, msent, mitem, helpers>>

\* ... and restarts another, sealed or not by then, which loses its progress.
MainBegin ==
  /\ mpc = "begin" /\ (UsesNonce => nonce = 0)
  /\ Begin
  /\ mpc' = "status1"
  /\ mnonce' = lastNonce'
  /\ opened' = opened \union {lastNonce'}
  /\ UNCHANGED <<disturbances, mleft, msent, mitem, helpers>>

\* Somebody else began an operation since MainCancel: HTTP 400.
MainBeginRefused ==
  /\ UsesNonce /\ mpc = "begin" /\ nonce # 0
  /\ mpc' = "failed"
  /\ UNCHANGED <<vault, opened, disturbances, mnonce, mleft, msent, mitem, helpers>>

MainReadStatus ==
  /\ mpc = "status1"
  /\ mpc' = IF NoStatus THEN "failed" ELSE "initial"
  /\ mleft' = Left
  /\ msent' = 0
  /\ UNCHANGED <<vault, opened, disturbances, mnonce, mitem, helpers>>

\* All of Main's keys but the last one, and fewer than are missing.
\* Mutant: one key less.
MayBeInitialBut(i) == i <= Shares[Main] - 1 /\ i <= mleft - 2
MayBeInitial(i) == i <= Shares[Main] - 1 /\ i <= mleft - 1

MainSubmitInitial ==
  /\ mpc = "initial" /\ MayBeInitial(msent + 1)
  /\ IF Accepts(mnonce)
     THEN /\ Submit(Main, <<Main, msent + 1>>)
          /\ msent' = msent + 1
          /\ mpc' = mpc
     ELSE /\ mpc' = "failed"
          /\ UNCHANGED <<vault, msent>>
  /\ UNCHANGED <<opened, disturbances, mnonce, mleft, mitem, helpers>>

MainInitialDone ==
  /\ mpc = "initial" /\ ~MayBeInitial(msent + 1)
  /\ mpc' = "status2"
  /\ UNCHANGED <<vault, opened, disturbances, mnonce, mleft, msent, mitem, helpers>>

\* range(remaining - 1) is empty when only the last key is missing.
MainReadStatusAgain ==
  /\ mpc = "status2"
  /\ mleft' = Left
  /\ mitem' = 0
  /\ mpc' = IF NoStatus THEN "failed" ELSE IF Left > 1 THEN "wait" ELSE "final"
  /\ UNCHANGED <<vault, opened, disturbances, mnonce, msent, helpers>>

\* The loop over "item": each waits for more than "item" keys to be in.
\* Mutant: one key too early.
ReceivedEarly(item) == Cardinality(submitted) >= item
Received(item) == Cardinality(submitted) > item

MainSeesProgress ==
  /\ mpc = "wait"
  /\ Accepts(mnonce) /\ Received(mitem)
  /\ mitem' = mitem + 1
  /\ mpc' = IF mitem + 2 < mleft THEN "wait" ELSE "final"
  /\ UNCHANGED <<vault, opened, disturbances, mnonce, mleft, msent, helpers>>

\* Without a status the loop polls on, and so it does when there is no nonce and the
\* server gets unsealed: only an interrupt (MainCrash) or a restart ends it.
MainSeesOtherNonce ==
  /\ mpc = "wait"
  /\ ~Accepts(mnonce) /\ ~NoStatus
  /\ mpc' = "failed"
  /\ UNCHANGED <<vault, opened, disturbances, mnonce, mleft, msent, mitem, helpers>>

LastKey == <<Main, Shares[Main]>>

\* check_complete is off for the unseal API: MainConfirm looks instead.
MainSubmitFinal ==
  /\ mpc = "final"
  /\ IF Accepts(mnonce) THEN Submit(Main, LastKey) ELSE UNCHANGED vault
  /\ mpc' = IF ~UsesNonce THEN "confirm"
            ELSE IF Accepts(mnonce) /\ Completes(LastKey) THEN "done" ELSE "failed"
  /\ UNCHANGED <<opened, disturbances, mnonce, mleft, msent, mitem, helpers>>

\* 30 polls; they may run out whenever the server is still sealed.
MainConfirm ==
  /\ mpc = "confirm"
  /\ mpc' = IF nonce = 0 THEN "done" ELSE "failed"
  /\ UNCHANGED <<vault, opened, disturbances, mnonce, mleft, msent, mitem, helpers>>

MainStep ==
  \/ MainCancel \/ MainChecksSeal \/ MainBegin \/ MainBeginRefused
  \/ MainReadStatus \/ MainSubmitInitial \/ MainInitialDone
  \/ MainReadStatusAgain \/ MainSeesProgress \/ MainSeesOtherNonce
  \/ MainSubmitFinal \/ MainConfirm

(***************************************************************************)
(* A helper's play.  The status it fetches is used after the prompt, which *)
(* may stay open for as long as the administrator likes.                   *)
(***************************************************************************)
\* Documented: start when Main's play waits for keys, and take turns.
HelperMayStart(h) ==
  Coordinated => mpc = "wait" /\ \A g \in Helpers : hpc[g] = "idle"

HelperRequired == Required - Cardinality(submitted)

HelperFetch(h) ==
  /\ hpc[h] = "idle" /\ nonce # 0
  /\ HelperMayStart(h)
  /\ hpc' = [hpc EXCEPT ![h] = "confirm"]
  /\ hnonce' = [hnonce EXCEPT ![h] = nonce]
  /\ hreq' = [hreq EXCEPT ![h] = HelperRequired]
  /\ hsent' = [hsent EXCEPT ![h] = 0]
  /\ UNCHANGED <<vault, opened, disturbances, main>>

\* The administrator compares the nonce with the one Main's play reported.
\* Mutant: says yes to whatever is shown.
AgreesBlindly(h) == h \in Helpers
Agrees(h) == SkipConfirmation \/ ~UsesNonce \/ hnonce[h] = mnonce

HelperAnswer(h) ==
  /\ hpc[h] = "confirm"
  /\ hpc' = [hpc EXCEPT ![h] = IF Agrees(h) THEN "submit" ELSE "idle"]
  /\ UNCHANGED <<vault, opened, disturbances, main, hnonce, hreq, hsent>>

\* Never enough keys to complete what was fetched.
\* Mutant: the last key too.
MaySubmitLast(h, i) == i <= Shares[h] /\ i <= hreq[h]
MaySubmit(h, i) == i <= Shares[h] /\ i <= hreq[h] - 1

HelperSubmit(h) ==
  /\ hpc[h] = "submit" /\ MaySubmit(h, hsent[h] + 1)
  /\ IF Accepts(hnonce[h])
     THEN /\ Submit(h, <<h, hsent[h] + 1>>)
          /\ hsent' = [hsent EXCEPT ![h] = @ + 1]
          /\ hpc' = hpc
     ELSE /\ hpc' = [hpc EXCEPT ![h] = "idle"]
          /\ UNCHANGED <<vault, hsent>>
  /\ UNCHANGED <<opened, disturbances, main, hnonce, hreq>>

HelperEnd(h) ==
  /\ hpc[h] = "submit" /\ ~MaySubmit(h, hsent[h] + 1)
  /\ hpc' = [hpc EXCEPT ![h] = "idle"]
  /\ UNCHANGED <<vault, opened, disturbances, main, hnonce, hreq, hsent>>

HelperStep(h) == HelperAnswer(h) \/ HelperSubmit(h) \/ HelperEnd(h)

(***************************************************************************)
(* What else may happen, MaxDisturbances times.                            *)
(***************************************************************************)
Disturb ==
  /\ disturbances < MaxDisturbances
  /\ disturbances' = disturbances + 1

\* A stranger to this ceremony cancels it and begins another, with another
\* main playbook or Vault's own client; or a sealed server restarts.
StrangerBegins ==
  /\ Disturb
  /\ Begin
  /\ UNCHANGED <<opened, main, helpers>>

\* The operations of the active node are lost with its leadership.
VaultForgets ==
  /\ Disturb
  /\ UsesNonce /\ nonce # 0
  /\ Cancel
  /\ UNCHANGED <<opened, main, helpers>>

MainCrash ==
  /\ Disturb
  /\ mpc \notin {"idle", "done", "failed"}
  /\ mpc' = "idle"
  /\ UNCHANGED <<vault, opened, mnonce, mleft, msent, mitem, helpers>>

HelperCrash(h) ==
  /\ Disturb
  /\ hpc[h] # "idle"
  /\ hpc' = [hpc EXCEPT ![h] = "idle"]
  /\ UNCHANGED <<vault, opened, main, hnonce, hreq, hsent>>

Next ==
  \/ MainStep
  \/ \E h \in Helpers : HelperFetch(h) \/ HelperStep(h) \/ HelperCrash(h)
  \/ StrangerBegins \/ VaultForgets \/ MainCrash

Spec == Init /\ [][Next]_vars

\* Ansible runs the next task of a play by itself; Main runs a failed play
\* again; every colleague who keeps being asked gets a turn.
Fairness ==
  /\ WF_vars(MainStep)
  /\ \A h \in Helpers : SF_vars(HelperFetch(h)) /\ WF_vars(HelperStep(h))

FairSpec == Spec /\ Fairness

(***************************************************************************)
(* Properties.                                                             *)
(***************************************************************************)
\* The output of every operation goes to Main, whose key was the last: the
\* [:required - 1] of the helpers' flow and the wait of Main's see to it.
FinalKeyByMain == \A r \in results : r.to = Main

\* An output is always that of the request Main's play registers as
\* "submission", which the calling role reads the new keys or the token from:
\* none is lost in the answer to an initial key or in a helper's play.
OutputRegistered ==
  [][results' # results => mpc = "final" /\ mpc' \in {"done", "confirm"}]_vars

\* When Main's flow gets to "Submit final unseal key" that key is the only
\* one missing from the operation it began (README, Workflow, step 2).
FinalKeyIsLast == mpc = "final" /\ nonce # 0 /\ nonce = mnonce => Left = 1

\* What a helper may still submit to the operation in progress.
Outstanding(h) ==
  IF hpc[h] = "idle" \/ ~Accepts(hnonce[h]) THEN 0 ELSE hreq[h] - 1 - hsent[h]

\* However stale the status a helper fetched, the keys it is going to submit
\* leave the operation in progress short of one key.
OutstandingBound ==
  \A h \in Helpers : Cardinality(submitted) + Outstanding(h) <= Required - 1

\* A colleague who compares nonces never puts a key into an operation that
\* somebody else began: the flow's second use of the fetched nonce.
HelperKeysOnlyForMain ==
  (\E k \in submitted : k[1] \in Helpers) => nonce \in opened

\* The ceremony comes to its end, through crashes, failovers and operations
\* of strangers: no abandoned operation or stale play blocks the next run.
EventuallyDone == <>(mpc = "done")

\* The unsealing is over before Main's flow gets to its final key, for which it then
\* waits without end.
Overtaken == nonce = 0 /\ mpc \in {"status1", "initial", "status2", "wait"}

\* A sealed server gets unsealed and Main's play ends, whatever restarts and
\* interrupted plays there are, and when colleagues give their keys late, towards the
\* next try: unless one of these or of Main's initial keys happens to be the last.
EventuallyUnsealed == <>[](mpc = "done" \/ Overtaken)

Sufficient == {S \in SUBSET Keys : Cardinality(S) >= Required}
KC == INSTANCE KeyCeremony WITH
        Main <- Main, Keys <- Keys, Sufficient <- Sufficient,
        nonce <- nonce, lastNonce <- lastNonce,
        submitted <- submitted, results <- results

\* The ceremony keeps what KeyCeremony promises: whoever submits which key
\* when, each request of either flow is one of its steps or none at all.
Ceremony == KC!Spec

(***************************************************************************)
(* The invariant behind FinalKeyByMain, for the APIs that take a nonce.    *)
(***************************************************************************)
\* Main's flow copes with these numbers of shares: it has nothing to submit
\* before it waits, or it need not wait.
SharesFit == Shares[Main] = 1 \/ Shares[Main] >= Required

MainsOperation == nonce # 0 /\ nonce = mnonce

Active(h) == hpc[h] # "idle" /\ nonce # 0 /\ hnonce[h] = nonce

BelowThreshold == IsFiniteSet(submitted) /\ Cardinality(submitted) < Required

NoncesKnown == mnonce <= lastNonce /\ \A h \in Helpers : hnonce[h] <= lastNonce

TurnTaking ==
  \A g, h \in Helpers : hpc[g] # "idle" /\ hpc[h] # "idle" => g = h

ActiveBound ==
  \A h \in Helpers :
    Active(h) => Cardinality(submitted) + hreq[h] <= Required + hsent[h]

\* Until Main's play waits, its operation holds just its own initial keys.
OwnKeysFirst ==
  MainsOperation =>
    /\ mpc \in {"status1", "initial", "status2"} => \A h \in Helpers : ~Active(h)
    /\ mpc = "status1" => submitted = {}
    /\ mpc = "initial" => /\ mleft = Required
                          /\ msent < Required /\ msent < Shares[Main]
                          /\ submitted \subseteq {Main} \X (1 .. msent)
                          /\ Cardinality(submitted) = msent
    /\ mpc = "status2" => Cardinality(submitted) \in {0, Required - 1}
    /\ mpc = "wait" => mleft = Required

\* The inductive invariant: a step of either flow keeps it, whatever both
\* flows registered before.
IInv ==
  /\ TypeOK /\ BelowThreshold /\ NoncesKnown
  /\ TurnTaking /\ ActiveBound /\ OwnKeysFirst
  /\ FinalKeyByMain /\ FinalKeyIsLast
==============================================================================
