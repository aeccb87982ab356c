-------------------------- MODULE MCDisasterRecovery --------------------------
(***************************************************************************)
(* Instances of DisasterRecovery for TLC.                                  *)
(***************************************************************************)
EXTENDS DisasterRecovery

CONSTANTS s1, s2, other

OneScript == {s1}
TwoScripts == {s1, s2}
OtherServer == {other}
===============================================================================
