------------------------------- MODULE RootToken -------------------------------
(***************************************************************************)
(* The life of root tokens, roles/generate_root: unseal keys generate one  *)
(* that never expires; the play makes another with it that does, revokes   *)
(* the first, works, and revokes the second in its always section.  The    *)
(* administrator may give the playbook a token of theirs instead.          *)
(*                                                                         *)
(* Tokens are numbered as Vault makes them; the first is the               *)
(* administrator's, 0 is none.  The submission of the keys, which          *)
(* KeySubmission models, is one step here.                                 *)
(***************************************************************************)
EXTENDS Integers

CONSTANTS
  Plays, NoPlay,
  MaxFailures, MaxCuts, MaxTokens  \* bounds: failed requests, killed plays, tokens

ASSUME NoPlayAssumption == NoPlay \notin Plays
ASSUME BoundsAssumption == {MaxFailures, MaxCuts, MaxTokens} \subseteq Nat \ {0}

VARIABLES
  valid,    \* tokens that can be used
  limited,  \* those with a TTL
  parent,   \* per token, the one whose revocation revokes it too
  made,     \* tokens so far
  attempt,  \* the play whose root generation is in progress
  pc,
  first,    \* per play, generated_root_token
  second,   \* per play, vault_create_token
  root,     \* per play, bbcrd_vault_root_token
  flag,     \* plays with root_token_generated
  own,      \* history: per play, the tokens made for it
  expired,  \* history
  failures, cuts

vault == <<valid, limited, parent, made>>
facts == <<first, second, root, flag>>
vars == <<vault, attempt, pc, facts, own, expired, failures, cuts>>

Given == 1
Tokens == 1..MaxTokens
Steps == {"out", "cancel", "begin", "supply", "create", "discard", "work", "revoke", "ended"}

Init ==
  /\ valid = {Given} /\ limited = {} /\ made = 1
  /\ parent = [t \in Tokens |-> 0]
  /\ attempt = NoPlay
  /\ pc = [p \in Plays |-> "out"]
  /\ first = [p \in Plays |-> 0] /\ second = first /\ root = first
  /\ flag = {}
  /\ own = [p \in Plays |-> {}] /\ expired = {}
  /\ failures = 0 /\ cuts = 0

(***************************************************************************)
(* Vault.                                                                  *)
(***************************************************************************)
Make(p, by) ==
  /\ made < MaxTokens
  /\ made' = made + 1
  /\ valid' = valid \cup {made'}
  /\ parent' = [parent EXCEPT ![made'] = by]
  /\ own' = [own EXCEPT ![p] = @ \cup {made'}]

\* A token and those it is the parent of; no other is made with a token.
RevokeToken(t) == valid' = valid \ ({t} \cup {c \in valid : parent[c] = t})

Expire(t) ==
  /\ t \in valid \cap limited
  /\ RevokeToken(t)
  /\ expired' = expired \cup {t}
  /\ UNCHANGED <<limited, parent, made, attempt, pc, facts, own, failures, cuts>>

(***************************************************************************)
(* A play.  A task that fails, whether or not its request had its effect,  *)
(* is followed by the always section.                                      *)
(***************************************************************************)
Goto(p, s) == pc' = [pc EXCEPT ![p] = s]

\* Facts do not outlive a playbook; a token is given with the inventory.
Start(p) ==
  /\ pc[p] \in {"out", "ended"}
  /\ \E t \in {0, Given} :
       /\ root' = [root EXCEPT ![p] = t]
       /\ Goto(p, IF t = 0 THEN "cancel" ELSE "work")
  /\ first' = [first EXCEPT ![p] = 0] /\ second' = [second EXCEPT ![p] = 0]
  /\ flag' = flag \ {p}
  /\ UNCHANGED <<vault, attempt, own, expired, failures, cuts>>

\* Mutant: when the first token cannot be revoked the play goes on.
AfterFailureLenient(step) == IF step = "discard" THEN "work" ELSE "revoke"
AfterFailure(step) == IF step = "revoke" THEN "ended" ELSE "revoke"

\* The answer is lost.
Lose(p) ==
  /\ failures < MaxFailures /\ failures' = failures + 1
  /\ Goto(p, AfterFailure(pc[p]))
  /\ UNCHANGED facts

CancelGeneration(p) ==
  /\ pc[p] = "cancel"
  /\ attempt' = NoPlay
  /\ (Goto(p, "begin") /\ UNCHANGED <<facts, failures>>) \/ Lose(p)
  /\ UNCHANGED <<vault, own, expired, cuts>>

BeginGeneration(p) ==
  /\ pc[p] = "begin" /\ attempt = NoPlay
  /\ attempt' = p
  /\ (Goto(p, "supply") /\ UNCHANGED <<facts, failures>>) \/ Lose(p)
  /\ UNCHANGED <<vault, own, expired, cuts>>

Supply(p) ==
  /\ pc[p] = "supply" /\ attempt = p
  /\ Make(p, 0)
  /\ attempt' = NoPlay
  /\ \/ /\ first' = [first EXCEPT ![p] = made']
        /\ Goto(p, "create")
        /\ UNCHANGED <<second, root, flag, failures>>
     \/ Lose(p)
  /\ UNCHANGED <<limited, expired, cuts>>

\* Mutant: the new token is the first one's child.
ParentFirst(p) == first[p]
Parent(p) == 0
Limited == limited \cup {made'}

Create(p) ==
  /\ pc[p] = "create" /\ first[p] \in valid
  /\ Make(p, Parent(p))
  /\ limited' = Limited
  /\ \/ /\ second' = [second EXCEPT ![p] = made']
        /\ Goto(p, "discard")
        /\ UNCHANGED <<first, root, flag, failures>>
     \/ Lose(p)
  /\ UNCHANGED <<attempt, expired, cuts>>

\* Mutant: the fact is set to the token the keys generated.
RootFirst(p) == first[p]
Root(p) == second[p]

Discard(p) ==
  /\ pc[p] = "discard" /\ first[p] \in valid
  /\ RevokeToken(first[p])
  /\ \/ /\ root' = [root EXCEPT ![p] = Root(p)]
        /\ flag' = flag \cup {p}
        /\ Goto(p, "work")
        /\ UNCHANGED <<first, second, failures>>
     \/ Lose(p)
  /\ UNCHANGED <<limited, parent, made, attempt, own, expired, cuts>>

\* The other roles' tasks, or the administrator's; they may fail.
Work(p) ==
  /\ pc[p] = "work"
  /\ Goto(p, "revoke")
  /\ UNCHANGED <<vault, attempt, facts, own, expired, failures, cuts>>

\* Mutant: whatever token there is is revoked.
ToRevokeAny(p) == root[p] # 0
ToRevoke(p) == root[p] # 0 /\ p \in flag

Revoke(p) ==
  /\ pc[p] = "revoke" /\ ToRevoke(p) /\ root[p] \in valid
  /\ RevokeToken(root[p])
  /\ \/ /\ root' = [root EXCEPT ![p] = 0] /\ flag' = flag \ {p}
        /\ Goto(p, "ended")
        /\ UNCHANGED <<first, second, failures>>
     \/ Lose(p)
  /\ UNCHANGED <<limited, parent, made, attempt, own, expired, cuts>>

NothingToRevoke(p) ==
  /\ pc[p] = "revoke" /\ ~ToRevoke(p)
  /\ Goto(p, "ended")
  /\ UNCHANGED <<vault, attempt, facts, own, expired, failures, cuts>>

\* Vault refuses the request, or it is lost.
Refused(p) ==
  \/ pc[p] = "begin" /\ attempt # NoPlay
  \/ pc[p] = "supply" /\ attempt # p
  \/ pc[p] \in {"create", "discard"} /\ first[p] \notin valid
  \/ pc[p] = "revoke" /\ ToRevoke(p) /\ root[p] \notin valid

Fail(p) ==
  /\ pc[p] \in {"cancel", "begin", "supply", "create", "discard", "revoke"}
  /\ pc[p] = "revoke" => ToRevoke(p)
  /\ ~Refused(p) => failures < MaxFailures
  /\ failures' = IF Refused(p) THEN failures ELSE failures + 1
  /\ Goto(p, AfterFailure(pc[p]))
  /\ UNCHANGED <<vault, attempt, facts, own, expired, cuts>>

\* The control node dies, or the play is killed.
Cut(p) ==
  /\ pc[p] \notin {"out", "ended"} /\ cuts < MaxCuts
  /\ cuts' = cuts + 1
  /\ Goto(p, "ended")
  /\ UNCHANGED <<vault, attempt, facts, own, expired, failures>>

Runs(p) ==
  \/ CancelGeneration(p) \/ BeginGeneration(p) \/ Supply(p) \/ Create(p) \/ Discard(p)
  \/ Work(p) \/ Revoke(p) \/ NothingToRevoke(p) \/ Fail(p)

Next ==
  \/ \E p \in Plays : Start(p) \/ Runs(p) \/ Cut(p)
  \/ \E t \in Tokens : Expire(t)

Spec == Init /\ [][Next]_vars

-----------------------------------------------------------------------------
\* The variables have their types; a play that has a token to revoke made it.
TypeOK ==
  /\ made \in Tokens /\ valid \subseteq 1..made /\ limited \subseteq 1..made
  /\ parent \in [Tokens -> 0..made] /\ attempt \in Plays \cup {NoPlay}
  /\ pc \in [Plays -> Steps]
  /\ {first, second, root} \subseteq [Plays -> 0..made]
  /\ flag \subseteq Plays /\ \A p \in flag : root[p] \in own[p] \cap limited
  /\ own \in [Plays -> SUBSET (2..made)] /\ expired \subseteq limited

Here(p) == own[p] \cap valid

\* Plays that run at the same time, cancel each other's generations or outlive their
\* tokens leave none behind when no request fails and none is killed.
CleanExit ==
  failures = 0 /\ cuts = 0 => \A p \in Plays : pc[p] \in {"out", "ended"} => Here(p) = {}

\* The always section revokes generated tokens: the administrator's stays.
GivenKept == [][(Given \in valid) => (Given \in valid')]_vars

\* no_parent: the token a play works with is not revoked with the one it was made with,
\* nor by another play.
WorksWithToken == \A p \in Plays : pc[p] = "work" => root[p] \in valid \cup expired

\* The TTL protects against a play that does not exit cleanly: while a play works with
\* a token it generated, every other root token made for it in this run is gone; what
\* failed runs left is not counted.
Latest(p) == {first[p], second[p]}
LimitedWhileWorking ==
  \A p \in Plays : pc[p] = "work" => Here(p) \cap Latest(p) \subseteq limited
===============================================================================
