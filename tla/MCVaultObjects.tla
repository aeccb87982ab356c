---------------------------- MODULE MCVaultObjects ----------------------------
(***************************************************************************)
(* Instances of VaultObjects for TLC.                                      *)
(***************************************************************************)
EXTENDS VaultObjects

CONSTANTS r1, r2, a, b, x, y, k1, v1, v2

TwoRuns == {r1, r2}
AllKinds == {"auth", "secrets", "audit", "policy", "entity", "namespace", "oidc"}
TwoTypes == {a, b}
TwoTexts == {x, y}
OneKey == {k1}
TwoValues == {v1, v2}
===============================================================================
