---------------------------- MODULE MCInitFirstNode ----------------------------
(***************************************************************************)
(* Instances of InitFirstNode for TLC.                                     *)
(***************************************************************************)
EXTENDS InitFirstNode

CONSTANTS p1

OnePlay == {p1}
AnyLimit == (SUBSET Hosts) \ {{}}
===============================================================================
