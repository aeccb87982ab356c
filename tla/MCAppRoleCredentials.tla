-------------------------- MODULE MCAppRoleCredentials --------------------------
(***************************************************************************)
(* Instances of AppRoleCredentials for TLC.  Role parameters do not        *)
(* matter: there is one value of them.  The states of vault_approle_secret *)
(* that are left out take some of the steps of "rotate".                   *)
(***************************************************************************)
EXTENDS AppRoleCredentials

CONSTANTS r1, h1, h2, i1, p1

OneRun == {r1}
TwoHosts == {h1, h2}
OneIssuer == {i1}
OneParam == {p1}
Same(p, o) == o = p
Put(p, o) == p
SomeTasks == {"issue", "rotate", "absent"}
=================================================================================
