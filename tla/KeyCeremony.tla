----------------------------- MODULE KeyCeremony -----------------------------
(***************************************************************************)
(* What an unseal key ceremony promises its administrators, whatever the   *)
(* roles do to keep the promise (README of                                 *)
(* roles/generic_unseal_key_submission_flow, "Workflow"):                  *)
(*                                                                         *)
(*   - everybody may contribute keys, but contributions alone stay one     *)
(*     short of the threshold;                                             *)
(*   - the key that completes an operation comes from the administrator    *)
(*     running the main playbook, who therefore gets its output.           *)
(*                                                                         *)
(* KeySubmission is shown to implement this specification.                 *)
(***************************************************************************)
EXTENDS Naturals

CONSTANTS
  Main,       \* the administrator running the main playbook
  Keys,       \* all the unseal keys
  Sufficient  \* the sets of keys that complete an operation

VARIABLES
  nonce,      \* the operation in progress, 0 if there is none
  lastNonce,  \* the last nonce handed out
  submitted,  \* the keys the operation in progress has been given
  results     \* the outputs handed out: for which operation, and to whom

vars == <<nonce, lastNonce, submitted, results>>

Init ==
  /\ submitted \in SUBSET Keys
  /\ submitted \notin Sufficient
  /\ nonce \in {0, 1}
  /\ nonce = 0 => submitted = {}
  /\ lastNonce = nonce
  /\ results = {}

Open ==
  /\ lastNonce' = lastNonce + 1
  /\ nonce' = lastNonce'
  /\ submitted' = {}
  /\ UNCHANGED results

Abandon ==
  /\ nonce' = 0
  /\ submitted' = {}
  /\ UNCHANGED <<lastNonce, results>>

Contribute(k) ==
  /\ nonce # 0
  /\ submitted \union {k} \notin Sufficient
  /\ submitted' = submitted \union {k}
  /\ UNCHANGED <<nonce, lastNonce, results>>

Complete(k) ==
  /\ nonce # 0
  /\ k[1] = Main
  /\ submitted \union {k} \in Sufficient
  /\ results' = results \union {[nonce |-> nonce, to |-> Main]}
  /\ nonce' = 0
  /\ submitted' = {}
  /\ UNCHANGED lastNonce

Next == Open \/ Abandon \/ \E k \in Keys : Contribute(k) \/ Complete(k)

Spec == Init /\ [][Next]_vars
==============================================================================
