-------------------------------- MODULE RoleSet --------------------------------
(***************************************************************************)
(* vault_oidc_roles, and the same loop in vault_approles and in            *)
(* configure_roles of vault_ssh_signer: the roles there are are listed     *)
(* once, those not declared are deleted, then each declared one is read    *)
(* and written if it does not contain its parameters.  Runs are executions *)
(* of the task by several control nodes, at once or after one another; the *)
(* declaration is edited while none is at work.                            *)
(*                                                                         *)
(* A request is a step, which may fail with or without its effect.         *)
(***************************************************************************)
EXTENDS Naturals

CONSTANTS Runs, Names, Params, None,
          Covers(_, _),   \* Covers(p, o): o contains the parameters p
          Written(_, _),  \* Written(p, o): what Vault has once p is written over o
          MaxFailures,    \* bound: requests that fail
          MaxEdits        \* bound: edits of the declaration

ASSUME NoneAssumption == None \notin Params \cup Names
ASSUME WriteAssumption ==
  \A p \in Params : \A o \in Params \cup {None} :
    Written(p, o) \in Params /\ Covers(p, Written(p, o))

VARIABLES
  declared, roles,
  pc,
  extra,     \* per run, listed names it has yet to delete
  todo,      \* per run, declared names it has yet to deal with
  current,   \* per run, the name it found lacking
  failures, edits

vars == <<declared, roles, pc, extra, todo, current, failures, edits>>
run == <<pc, extra, todo, current>>
bounds == <<failures, edits>>

DS == INSTANCE DeclaredSet

Idle(r) == pc[r] \in {"idle", "done", "failed"}
\* Mutant: only the declared ones are noticed.
ExistingDeclared == {n \in DOMAIN declared : roles[n] # None}
Existing == {n \in Names : roles[n] # None}

Init ==
  /\ DS!Init
  /\ pc = [r \in Runs |-> "idle"]
  /\ extra = [r \in Runs |-> {}]
  /\ todo = [r \in Runs |-> {}]
  /\ current = [r \in Runs |-> None]
  /\ failures = 0 /\ edits = 0

Start(r) ==
  /\ Idle(r)
  /\ pc' = [pc EXCEPT ![r] = "list"]
  /\ UNCHANGED <<declared, roles, extra, todo, current, bounds>>

List(r) ==
  /\ pc[r] = "list"
  /\ pc' = [pc EXCEPT ![r] = "delete"]
  /\ extra' = [extra EXCEPT ![r] = Existing \ DOMAIN declared]
  /\ todo' = [todo EXCEPT ![r] = DOMAIN declared]
  /\ UNCHANGED <<declared, roles, current, bounds>>

Erased(r) == \E n \in extra[r] : roles' = [roles EXCEPT ![n] = None]

\* Mutant: the request is sent to the path all roles are under.
DeleteAll(r) ==
  /\ pc[r] = "delete" /\ extra[r] # {}
  /\ roles' = [n \in Names |-> None]
  /\ extra' = [extra EXCEPT ![r] = {}]
  /\ UNCHANGED <<declared, pc, todo, current, bounds>>
Delete(r) ==
  /\ pc[r] = "delete"
  /\ \E n \in extra[r] :
       /\ roles' = [roles EXCEPT ![n] = None]
       /\ extra' = [extra EXCEPT ![r] = @ \ {n}]
  /\ UNCHANGED <<declared, pc, todo, current, bounds>>

Lacks(n) == roles[n] = None \/ ~Covers(declared[n], roles[n])

MayLook(r) == pc[r] = "look" \/ (pc[r] = "delete" /\ extra[r] = {})

Look(r) ==
  /\ MayLook(r)
  /\ \E n \in todo[r] :
       IF Lacks(n)
         THEN /\ pc' = [pc EXCEPT ![r] = "write"]
              /\ current' = [current EXCEPT ![r] = n]
              /\ UNCHANGED todo
         ELSE /\ pc' = [pc EXCEPT ![r] = "look"]
              /\ todo' = [todo EXCEPT ![r] = @ \ {n}]
              /\ UNCHANGED current
  /\ UNCHANGED <<declared, roles, extra, bounds>>

Overwrite(n) == roles' = [roles EXCEPT ![n] = Written(declared[n], @)]

Write(r) ==
  /\ pc[r] = "write"
  /\ Overwrite(current[r])
  /\ pc' = [pc EXCEPT ![r] = "look"]
  /\ todo' = [todo EXCEPT ![r] = @ \ {current[r]}]
  /\ current' = [current EXCEPT ![r] = None]
  /\ UNCHANGED <<declared, extra, bounds>>

Exit(r) ==
  /\ MayLook(r) /\ todo[r] = {}
  /\ pc' = [pc EXCEPT ![r] = "done"]
  /\ UNCHANGED <<declared, roles, extra, todo, current, bounds>>

\* A request fails, its effect in Vault taken or not.
Fail(r) ==
  /\ ~Idle(r) /\ failures < MaxFailures
  /\ failures' = failures + 1
  /\ pc' = [pc EXCEPT ![r] = "failed"]
  /\ extra' = [extra EXCEPT ![r] = {}]
  /\ todo' = [todo EXCEPT ![r] = {}]
  /\ current' = [current EXCEPT ![r] = None]
  /\ \/ UNCHANGED roles
     \/ pc[r] = "delete" /\ Erased(r)
     \/ pc[r] = "write" /\ Overwrite(current[r])
  /\ UNCHANGED <<declared, edits>>

\* The declaration is edited; what earlier runs reported is history.
Redeclare ==
  /\ \A r \in Runs : Idle(r)
  /\ edits < MaxEdits
  /\ edits' = edits + 1
  /\ declared' \in DS!Sets
  /\ pc' = [r \in Runs |-> "idle"]
  /\ UNCHANGED <<roles, extra, todo, current, failures>>

Work(r) == List(r) \/ Delete(r) \/ Look(r) \/ Write(r) \/ Exit(r)
Next == Redeclare \/ \E r \in Runs : Start(r) \/ Work(r) \/ Fail(r)

Spec == Init /\ [][Next]_vars

(***************************************************************************)
(* Properties.                                                             *)
(***************************************************************************)
TypeOK ==
  /\ declared \in DS!Sets
  /\ roles \in [Names -> Params \cup {None}]
  /\ pc \in [Runs -> {"idle", "list", "delete", "look", "write", "done", "failed"}]
  /\ extra \in [Runs -> SUBSET Names]
  /\ todo \in [Runs -> SUBSET Names]
  /\ current \in [Runs -> Names \cup {None}]
  /\ failures \in Nat /\ edits \in Nat

\* The inductive invariant behind the other properties: what a run has dealt
\* with stays as declared until the run ends, the other runs notwithstanding.
Settled(n) ==
  IF n \in DOMAIN declared THEN roles[n] # None /\ Covers(declared[n], roles[n])
                           ELSE roles[n] = None
AtRest(r) ==
  pc[r] \in {"idle", "list", "failed"} => todo[r] = {} /\ extra[r] = {}
AtWork(r) ==
  pc[r] \in {"delete", "look", "write", "done"} =>
    /\ todo[r] \subseteq DOMAIN declared
    /\ extra[r] \cap DOMAIN declared = {}
    /\ \A n \in Names : n \in todo[r] \/ n \in extra[r] \/ Settled(n)
InOrder(r) ==
  /\ pc[r] \in {"look", "write", "done"} => extra[r] = {}
  /\ pc[r] = "write" => current[r] \in todo[r]
  /\ pc[r] = "done" => todo[r] = {}
IInv == TypeOK /\ \A r \in Runs : AtRest(r) /\ AtWork(r) /\ InOrder(r)

\* Every step of every run is one DeclaredSet allows: nothing declared goes
\* missing, nothing undeclared is written.
Promise == DS!Spec

\* A run that reports success has made Vault as declared, whatever the others
\* are doing, have done or failed to do.
DoneIsDeclared == (\E r \in Runs : pc[r] = "done") => DS!AsDeclared

\* Access is taken away before any is given: while a role that was dropped
\* from the declaration is still there, no declared one is written.
RevokesFirst ==
  [][\A n \in DOMAIN declared :
       roles'[n] # roles[n] => \A m \in Names \ DOMAIN declared : roles[m] = None]_vars
===============================================================================
