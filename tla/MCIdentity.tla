------------------------------ MODULE MCIdentity ------------------------------
(***************************************************************************)
(* Instances of Identity for TLC: ann and ben, the entities they map to,   *)
(* and two groups, one of which belongs to the other.  In the second       *)
(* declaration ben has left, while his entity stays where it was; ann is   *)
(* in the other group, and hers is gone.  Either is run last.              *)
(***************************************************************************)
EXTENDS Identity, TLC

CONSTANTS r1, r2, ann, ben, n1, n2, admins, staff, root, read

TwoPlays == {r1, r2}
TwoUsers == {ann, ben}
OneUser == {ann}
TwoNames == {n1, n2}
TwoGroups == {admins, staff}
TwoPolicies == {root, read}

Declares(a, b, m, s, sub) ==
  [alias |-> [u \in Users |-> IF u = ann THEN a ELSE b],
   order |-> IF staff \in Groups THEN <<admins, staff>> ELSE <<admins>>,
   group |-> [g \in Groups |->
      IF g = admins THEN [members |-> m, subgroups |-> {}, policies |-> {root}]
                    ELSE [members |-> s, subgroups |-> sub, policies |-> {read}]]]
Before == Declares(n1, n2, {n2}, {n1}, {admins})
After == [Declares(n1, Nothing, {n1, n2}, {}, {}) EXCEPT !.group[staff] = Nothing]
Changes == [r \in Plays |-> IF r = r1 THEN Before ELSE After]
===============================================================================
