---------------------------- MODULE MCHelperPlaybook ----------------------------
(***************************************************************************)
(* Instances of HelperPlaybook for TLC.                                    *)
(***************************************************************************)
EXTENDS HelperPlaybook

CONSTANTS h1, h2

TwoHelpers == {h1, h2}
===============================================================================
