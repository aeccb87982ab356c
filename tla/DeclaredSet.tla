------------------------------ MODULE DeclaredSet ------------------------------
(***************************************************************************)
(* What the modules that manage a set of roles promise of every step they  *)
(* take: an entry that is not declared may only disappear, a declared one  *)
(* may only become as it is declared, one at a time, and nothing declared  *)
(* is ever missing for a while because it is being changed.                *)
(***************************************************************************)
CONSTANTS Names, Params, None,
          Covers(_, _)  \* the second value is all that the first one asks for

VARIABLES declared, \* a function from the names declared to their parameters
          roles     \* what Vault has under each name, or None

vars == <<declared, roles>>

Sets == UNION {[D -> Params] : D \in SUBSET Names}

Init == declared \in Sets /\ roles \in [Names -> Params \cup {None}]

Disappear(n) ==
  /\ n \notin DOMAIN declared
  /\ roles' = [roles EXCEPT ![n] = None]
  /\ UNCHANGED declared

BecomeAsDeclared(n) ==
  /\ n \in DOMAIN declared
  /\ \E v \in Params : Covers(declared[n], v) /\ roles' = [roles EXCEPT ![n] = v]
  /\ UNCHANGED declared

\* The inventory or the playbook is edited.
Redeclare == declared' \in Sets /\ UNCHANGED roles

Next == Redeclare \/ \E n \in Names : Disappear(n) \/ BecomeAsDeclared(n)

Spec == Init /\ [][Next]_vars

AsDeclared ==
  \A n \in Names : IF n \in DOMAIN declared
                     THEN roles[n] # None /\ Covers(declared[n], roles[n])
                     ELSE roles[n] = None
===============================================================================
