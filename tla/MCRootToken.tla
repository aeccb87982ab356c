------------------------------ MODULE MCRootToken ------------------------------
(***************************************************************************)
(* Instances of RootToken for TLC.                                         *)
(***************************************************************************)
EXTENDS RootToken

CONSTANTS p1, p2

TwoPlays == {p1, p2}
===============================================================================
