------------------------- MODULE MCUnsealKeyRotation -------------------------
(***************************************************************************)
(* Instances of UnsealKeyRotation for TLC.                                 *)
(***************************************************************************)
EXTENDS UnsealKeyRotation, TLC

CONSTANTS h1, h2, p1

TwoHosts == {h1, h2}
OnePlay == {p1}

\* The hosts are interchangeable.
Symmetry == Permutations(Hosts)
==============================================================================
