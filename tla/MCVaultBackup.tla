----------------------------- MODULE MCVaultBackup -----------------------------
(***************************************************************************)
(* Instances of VaultBackup for TLC.                                       *)
(***************************************************************************)
EXTENDS VaultBackup

CONSTANTS s1

OneScript == {s1}
===============================================================================
