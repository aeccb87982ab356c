---------------------------- MODULE RootTokenProofs ----------------------------
(***************************************************************************)
(* Proofs about RootToken, for any number of playbooks at the same time.   *)
(*                                                                         *)
(* The tokens plays revoke are their own (FirstOwn, and TypeOK of those    *)
(* flagged), no two plays have one in common (OwnApart), and no token is   *)
(* another's child (Parentless).  So nothing revokes the administrator's   *)
(* token, nor the second token of a play but the play itself, at its end.  *)
(***************************************************************************)
EXTENDS RootToken, TLAPS

Parentless == parent = [t \in Tokens |-> 0]
GivenApart == Given \in valid /\ Given \notin limited
FirstOwn == \A p \in Plays : first[p] \in own[p] \cup {0}
OwnApart == \A p, q \in Plays : p # q => own[p] \cap own[q] = {}
SecondOwn ==
  \A p \in Plays : pc[p] = "discard" =>
    /\ second[p] \in own[p] \cap limited \cap (valid \cup expired)
    /\ second[p] # first[p]
Working ==
  \A p \in Plays : pc[p] = "work" =>
    /\ root[p] \in valid \cup expired
    /\ p \in flag \/ root[p] = Given

\* The inductive invariant.
IInv ==
  /\ TypeOK
  /\ Parentless /\ GivenApart /\ FirstOwn /\ OwnApart /\ SecondOwn /\ Working

LEMMA InitIInv == Init => IInv
<1> SUFFICES ASSUME Init PROVE IInv
  OBVIOUS
<1>1. TypeOK
  BY BoundsAssumption DEF Init, TypeOK, Tokens, Given, Steps
<1>2. Parentless /\ GivenApart
  BY DEF Init, Parentless, GivenApart
<1>3. FirstOwn /\ OwnApart /\ SecondOwn /\ Working
  BY DEF Init, FirstOwn, OwnApart, SecondOwn, Working
<1> QED  BY <1>1, <1>2, <1>3 DEF IInv

\* Where a play goes.
LEMMA Goes ==
  ASSUME IInv, NEW p \in Plays, NEW s \in Steps, pc' = [pc EXCEPT ![p] = s]
  PROVE  /\ pc' \in [Plays -> Steps]
         /\ pc'[p] = s
         /\ \A q \in Plays \ {p} : pc'[q] = pc[q]
BY DEF IInv, TypeOK

LEMMA FailureGoes ==
  ASSUME IInv, NEW p \in Plays, pc' = [pc EXCEPT ![p] = AfterFailure(pc[p])]
  PROVE  /\ pc' \in [Plays -> Steps]
         /\ pc'[p] \in {"revoke", "ended"}
         /\ \A q \in Plays \ {p} : pc'[q] = pc[q]
<1>1. AfterFailure(pc[p]) \in {"revoke", "ended"}
  BY DEF AfterFailure
<1> QED  BY <1>1, Goes DEF Steps

\* A revocation takes away nothing but its token.
LEMMA RevokesOne ==
  ASSUME IInv, NEW t \in valid, RevokeToken(t)
  PROVE  valid' = valid \ {t}
<1>1. valid \subseteq Tokens /\ t # 0
  BY BoundsAssumption DEF IInv, TypeOK, Tokens
<1>2. \A c \in valid : parent[c] # t
  BY <1>1 DEF IInv, Parentless
<1> QED  BY <1>2 DEF RevokeToken

\* The token made is a new one.
LEMMA MakesNew ==
  ASSUME IInv, NEW p \in Plays, Make(p, 0)
  PROVE  /\ made' = made + 1 /\ made' \in Tokens /\ made' \in 2..made'
         /\ 0..made \subseteq 0..made' /\ 1..made \subseteq 1..made' /\ 2..made \subseteq 2..made'
         /\ made' \notin 0..made
         /\ valid' = valid \cup {made'}
         /\ Parentless'
         /\ own' \in [Plays -> SUBSET (2..made')]
         /\ own'[p] = own[p] \cup {made'}
         /\ \A q \in Plays \ {p} : own'[q] = own[q]
         /\ OwnApart'
<1>1. made \in Nat /\ made >= 1 /\ made < MaxTokens /\ MaxTokens \in Nat
  BY BoundsAssumption DEF IInv, TypeOK, Tokens, Make
<1>2. /\ made' = made + 1 /\ made' \in Tokens /\ made' \in 2..made'
      /\ 0..made \subseteq 0..made' /\ 1..made \subseteq 1..made' /\ 2..made \subseteq 2..made'
      /\ made' \notin 0..made
  BY <1>1 DEF Make, Tokens
<1>3. valid' = valid \cup {made'}
  BY DEF Make
<1>4. Parentless'
  BY DEF Make, IInv, Parentless
<1>5. own \in [Plays -> SUBSET (2..made)] /\ own' = [own EXCEPT ![p] = own[p] \cup {made'}]
  BY DEF IInv, TypeOK, Make
<1>6. /\ own'[p] = own[p] \cup {made'}
      /\ \A q \in Plays \ {p} : own'[q] = own[q]
  BY <1>5
<1>7. own' \in [Plays -> SUBSET (2..made')]
  <2>1. own[p] \cup {made'} \in SUBSET (2..made')
    BY <1>2, <1>5
  <2>2. own \in [Plays -> SUBSET (2..made')]
    BY <1>2, <1>5
  <2> QED  BY <2>1, <2>2, <1>5
<1>8. OwnApart'
  <2>1. \A q \in Plays : made' \notin own[q]
    BY <1>2, <1>5
  <2> QED  BY <2>1, <1>6 DEF IInv, OwnApart
<1> QED  BY <1>2, <1>3, <1>4, <1>6, <1>7, <1>8

\* A function keeps its type when one of its values is replaced.
LEMMA Overridden ==
  ASSUME NEW D, NEW S, NEW f \in [D -> S], NEW x, NEW y \in S
  PROVE  [f EXCEPT ![x] = y] \in [D -> S]
OBVIOUS

LEMMA StartStep ==
  ASSUME IInv, NEW p \in Plays, Start(p)  PROVE IInv'
<1>1. PICK t \in {0, Given} :
        /\ root' = [root EXCEPT ![p] = t]
        /\ Goto(p, IF t = 0 THEN "cancel" ELSE "work")
  BY DEF Start
<1>2. /\ pc' \in [Plays -> Steps]
      /\ pc'[p] = IF t = 0 THEN "cancel" ELSE "work"
      /\ \A q \in Plays \ {p} : pc'[q] = pc[q]
  BY <1>1, Goes DEF Goto, Steps
<1>3. t \in 0..made /\ 0 \in 0..made
  BY BoundsAssumption DEF IInv, TypeOK, Tokens, Given
<1>4. TypeOK'
  <2>1. {first, second, root} \subseteq [Plays -> 0..made]
    BY DEF IInv, TypeOK
  <2>2. {first', second', root'} \subseteq [Plays -> 0..made]
    BY <1>1, <1>3, <2>1, Overridden DEF Start
  <2>3. \A q \in flag' : root'[q] \in own[q] \cap limited
    <3>1. \A q \in flag' : q \in flag /\ q # p
      BY DEF Start
    <3>2. \A q \in flag : q # p => root'[q] = root[q]
      BY <1>1, <2>1 DEF IInv, TypeOK
    <3> QED  BY <3>1, <3>2 DEF IInv, TypeOK
  <2>4. UNCHANGED <<valid, limited, parent, made, attempt, own, expired>> /\ flag' \subseteq flag
    BY DEF Start, vault
  <2> QED  BY <1>2, <2>2, <2>3, <2>4 DEF IInv, TypeOK
<1>5. Parentless' /\ GivenApart' /\ OwnApart'
  BY DEF IInv, Parentless, GivenApart, OwnApart, Start, vault
<1>6. FirstOwn'
  BY DEF IInv, TypeOK, FirstOwn, Start
<1>7. SecondOwn'
  BY <1>2 DEF IInv, TypeOK, SecondOwn, Start, vault
<1>8. Working'
  <2>1. root'[p] = t /\ \A q \in Plays \ {p} : root'[q] = root[q]
    BY <1>1 DEF IInv, TypeOK
  <2> QED  BY <2>1, <1>2 DEF IInv, GivenApart, Working, Start, vault
<1> QED  BY <1>4, <1>5, <1>6, <1>7, <1>8 DEF IInv

\* Steps that leave tokens and facts alone, and lead no play to a revocation of the first
\* token or to work.
LEMMA OtherStep ==
  ASSUME IInv, pc' \in [Plays -> Steps], attempt' \in Plays \cup {NoPlay},
         UNCHANGED <<vault, facts, own, expired>>,
         \A p \in Plays : pc'[p] \in {"discard", "work"} => pc'[p] = pc[p]
  PROVE  IInv'
<1>1. TypeOK'
  BY DEF IInv, TypeOK, vault, facts
<1>2. Parentless' /\ GivenApart' /\ FirstOwn' /\ OwnApart'
  BY DEF IInv, Parentless, GivenApart, FirstOwn, OwnApart, vault, facts
<1>3. SecondOwn' /\ Working'
  BY DEF IInv, SecondOwn, Working, vault, facts
<1> QED  BY <1>1, <1>2, <1>3 DEF IInv

LEMMA GenerationStep ==
  ASSUME IInv, NEW p \in Plays, CancelGeneration(p) \/ BeginGeneration(p)  PROVE IInv'
<1>1. \/ Goto(p, "begin") \/ Goto(p, "supply") \/ Goto(p, AfterFailure(pc[p]))
  BY DEF CancelGeneration, BeginGeneration, Lose
<1>2. /\ pc' \in [Plays -> Steps]
      /\ \A q \in Plays : pc'[q] \in {"discard", "work"} => pc'[q] = pc[q]
  BY <1>1, Goes, FailureGoes DEF Goto, Steps
<1>3. UNCHANGED <<vault, facts, own, expired>> /\ attempt' \in Plays \cup {NoPlay}
  BY DEF CancelGeneration, BeginGeneration, Lose
<1> QED  BY <1>2, <1>3, OtherStep

LEMMA IdleStep ==
  ASSUME IInv, NEW p \in Plays, Work(p) \/ NothingToRevoke(p) \/ Fail(p) \/ Cut(p)
  PROVE  IInv'
<1>1. \/ Goto(p, "revoke") \/ Goto(p, "ended") \/ Goto(p, AfterFailure(pc[p]))
  BY DEF Work, NothingToRevoke, Fail, Cut
<1>2. /\ pc' \in [Plays -> Steps]
      /\ \A q \in Plays : pc'[q] \in {"discard", "work"} => pc'[q] = pc[q]
  BY <1>1, Goes, FailureGoes DEF Goto, Steps
<1>3. UNCHANGED <<vault, facts, own, expired>> /\ attempt' \in Plays \cup {NoPlay}
  BY DEF Work, NothingToRevoke, Fail, Cut, IInv, TypeOK
<1> QED  BY <1>2, <1>3, OtherStep

LEMMA SupplyStep ==
  ASSUME IInv, NEW p \in Plays, Supply(p)  PROVE IInv'
<1>1. Make(p, 0)
  BY DEF Supply
<1>2. /\ pc' \in [Plays -> Steps]
      /\ pc'[p] \in {"create", "revoke", "ended"}
      /\ \A q \in Plays \ {p} : pc'[q] = pc[q]
  <2>1. Goto(p, "create") \/ Goto(p, AfterFailure(pc[p]))
    BY DEF Supply, Lose
  <2> QED  BY <2>1, Goes, FailureGoes DEF Goto, Steps
<1>3. /\ first' \in [Plays -> 0..made'] /\ first'[p] \in {first[p], made'}
      /\ \A q \in Plays \ {p} : first'[q] = first[q]
  <2>1. first \in [Plays -> 0..made'] /\ made' \in 0..made'
    BY <1>1, MakesNew DEF IInv, TypeOK
  <2>2. first' = first \/ first' = [first EXCEPT ![p] = made']
    BY DEF Supply, Lose, facts
  <2> QED  BY <2>1, <2>2
<1>4. UNCHANGED <<second, root, flag, limited, expired>>
  BY DEF Supply, Lose, facts
<1>5. TypeOK'
  <2>1. {second, root} \subseteq [Plays -> 0..made'] /\ parent' \in [Tokens -> 0..made']
    BY <1>1, <1>4, MakesNew, BoundsAssumption DEF IInv, TypeOK, Parentless
  <2>2. \A q \in flag : root[q] \in own'[q] \cap limited
    BY <1>1, MakesNew DEF IInv, TypeOK
  <2>3. attempt' \in Plays \cup {NoPlay}
    BY DEF Supply
  <2>4. {first', second', root'} \subseteq [Plays -> 0..made']
    <3>1. second' \in [Plays -> 0..made'] /\ root' \in [Plays -> 0..made']
      BY <1>4, <2>1
    <3>2. first' \in [Plays -> 0..made']
      BY <1>3
    <3> QED  BY <3>1, <3>2
  <2>5. valid' \subseteq 1..made' /\ limited' \subseteq 1..made' /\ expired' \subseteq limited'
    <3>1. valid' = valid \cup {made'} /\ 1..made \subseteq 1..made' /\ made' \in 1..made'
      BY <1>1, MakesNew
    <3>2. valid \subseteq 1..made /\ limited \subseteq 1..made /\ expired \subseteq limited
      BY DEF IInv, TypeOK
    <3> QED  BY <3>1, <3>2, <1>1, <1>4
  <2>6. flag' \subseteq Plays /\ \A q \in flag' : root'[q] \in own'[q] \cap limited'
    BY <1>4, <2>2 DEF IInv, TypeOK
  <2>7. made' \in Tokens /\ own' \in [Plays -> SUBSET (2..made')]
    BY <1>1, MakesNew
  <2> QED  BY <1>2, <2>1, <2>3, <2>4, <2>5, <2>6, <2>7 DEF TypeOK
<1>6. Parentless' /\ OwnApart' /\ GivenApart'
  BY <1>1, <1>4, MakesNew DEF IInv, GivenApart
<1>7. FirstOwn'
  BY <1>1, <1>3, MakesNew DEF IInv, FirstOwn
<1>8. SecondOwn'
  BY <1>1, <1>2, <1>3, <1>4, MakesNew DEF IInv, SecondOwn
<1>9. Working'
  BY <1>1, <1>2, <1>4, MakesNew DEF IInv, Working
<1> QED  BY <1>5, <1>6, <1>7, <1>8, <1>9 DEF IInv

LEMMA CreateStep ==
  ASSUME IInv, NEW p \in Plays, Create(p)  PROVE IInv'
<1>1. Make(p, 0) /\ limited' = limited \cup {made'}
  BY DEF Create, Parent, Limited
<1>2. \/ Goto(p, "discard") /\ second' = [second EXCEPT ![p] = made']
      \/ Goto(p, AfterFailure(pc[p])) /\ second' = second
  BY DEF Create, Lose, facts
<1>3. /\ pc' \in [Plays -> Steps]
      /\ pc'[p] \in {"discard", "revoke", "ended"}
      /\ \A q \in Plays \ {p} : pc'[q] = pc[q]
  BY <1>2, Goes, FailureGoes DEF Goto, Steps
<1>4. second \in [Plays -> 0..made'] /\ made' \in 0..made'
  BY <1>1, MakesNew DEF IInv, TypeOK
<1>5. /\ second' \in [Plays -> 0..made']
      /\ pc'[p] = "discard" => second'[p] = made'
      /\ \A q \in Plays \ {p} : second'[q] = second[q]
  <2>1. CASE Goto(p, "discard") /\ second' = [second EXCEPT ![p] = made']
    BY <2>1, <1>4
  <2>2. CASE Goto(p, AfterFailure(pc[p])) /\ second' = second
    BY <2>2, <1>4, FailureGoes DEF Goto
  <2> QED  BY <2>1, <2>2, <1>2
<1>6. UNCHANGED <<first, root, flag, expired, attempt>>
  BY DEF Create, Lose, facts
<1>7. TypeOK'
  <2>1. {first, root} \subseteq [Plays -> 0..made'] /\ parent' \in [Tokens -> 0..made']
    BY <1>1, MakesNew, BoundsAssumption DEF IInv, TypeOK, Parentless
  <2>2. \A q \in flag : root[q] \in own'[q] \cap limited'
    BY <1>1, MakesNew DEF IInv, TypeOK
  <2>3. {first', second', root'} \subseteq [Plays -> 0..made']
    <3>1. first' \in [Plays -> 0..made'] /\ root' \in [Plays -> 0..made']
      BY <1>6, <2>1
    <3>2. second' \in [Plays -> 0..made']
      BY <1>5
    <3> QED  BY <3>1, <3>2
  <2>4. valid' \subseteq 1..made' /\ limited' \subseteq 1..made' /\ expired' \subseteq limited'
    <3>1. valid' = valid \cup {made'} /\ 1..made \subseteq 1..made' /\ made' \in 1..made'
      BY <1>1, MakesNew
    <3>2. valid \subseteq 1..made /\ limited \subseteq 1..made /\ expired \subseteq limited
      BY DEF IInv, TypeOK
    <3> QED  BY <3>1, <3>2, <1>1, <1>6
  <2>5. flag' \subseteq Plays /\ \A q \in flag' : root'[q] \in own'[q] \cap limited'
    BY <1>6, <2>2 DEF IInv, TypeOK
  <2>6. made' \in Tokens /\ own' \in [Plays -> SUBSET (2..made')]
    BY <1>1, MakesNew
  <2>7. attempt' \in Plays \cup {NoPlay}
    BY <1>6 DEF IInv, TypeOK
  <2> QED  BY <1>3, <2>1, <2>3, <2>4, <2>5, <2>6, <2>7 DEF TypeOK
<1>8. Parentless' /\ OwnApart'
  BY <1>1, MakesNew
<1>9. GivenApart'
  BY <1>1, MakesNew DEF IInv, GivenApart, Given
<1>10. FirstOwn'
  BY <1>1, <1>6, MakesNew DEF IInv, FirstOwn
<1>11. SecondOwn'
  <2>1. first[p] # made'
    BY <1>1, MakesNew DEF IInv, TypeOK
  <2> QED  BY <1>1, <1>3, <1>5, <1>6, <2>1, MakesNew DEF IInv, SecondOwn
<1>12. Working'
  BY <1>1, <1>3, <1>6, MakesNew DEF IInv, Working
<1> QED  BY <1>7, <1>8, <1>9, <1>10, <1>11, <1>12 DEF IInv

\* What a play's revocation of one of its tokens leaves of the other plays.
LEMMA OwnRevoked ==
  ASSUME IInv, NEW p \in Plays, NEW t \in own[p], valid' = valid \ {t}
  PROVE  /\ Given \in valid'
         /\ \A q \in Plays \ {p} : own[q] \cap valid \subseteq valid'
<1>1. t # Given
  BY DEF IInv, TypeOK, Given
<1>2. \A q \in Plays \ {p} : t \notin own[q]
  BY DEF IInv, OwnApart
<1> QED  BY <1>1, <1>2 DEF IInv, GivenApart

LEMMA DiscardStep ==
  ASSUME IInv, NEW p \in Plays, Discard(p)  PROVE IInv'
<1>1. pc[p] = "discard" /\ first[p] \in valid /\ RevokeToken(first[p])
  BY DEF Discard
<1>2. valid' = valid \ {first[p]}
  BY <1>1, RevokesOne
<1>3. first[p] \in own[p]
  BY <1>1 DEF IInv, FirstOwn, TypeOK
<1>4. Given \in valid' /\ \A q \in Plays \ {p} : own[q] \cap valid \subseteq valid'
  BY <1>2, <1>3, OwnRevoked
<1>5. \/ Goto(p, "work") /\ root' = [root EXCEPT ![p] = second[p]] /\ flag' = flag \cup {p}
      \/ Goto(p, AfterFailure(pc[p])) /\ root' = root /\ flag' = flag
  BY DEF Discard, Root, Lose, facts
<1>6. /\ pc' \in [Plays -> Steps]
      /\ pc'[p] \in {"work", "revoke", "ended"}
      /\ \A q \in Plays \ {p} : pc'[q] = pc[q]
  BY <1>5, Goes, FailureGoes DEF Goto, Steps
<1>7. /\ pc'[p] = "work" => root'[p] = second[p] /\ p \in flag'
      /\ \A q \in Plays \ {p} : root'[q] = root[q] /\ (q \in flag' <=> q \in flag)
      /\ p \in flag' => root'[p] = second[p] \/ (p \in flag /\ root'[p] = root[p])
      /\ root' \in [Plays -> 0..made] /\ flag' \subseteq Plays
  <2>1. root \in [Plays -> 0..made] /\ second[p] \in 0..made /\ flag \subseteq Plays
    BY DEF IInv, TypeOK
  <2>2. CASE Goto(p, "work") /\ root' = [root EXCEPT ![p] = second[p]] /\ flag' = flag \cup {p}
    <3>1. root' \in [Plays -> 0..made]
      BY <2>1, <2>2, Overridden
    <3>2. root'[p] = second[p] /\ \A q \in Plays \ {p} : root'[q] = root[q]
      BY <2>1, <2>2
    <3>3. flag' \subseteq Plays /\ p \in flag'
          /\ \A q \in Plays \ {p} : (q \in flag' <=> q \in flag)
      BY <2>1, <2>2
    <3>4. pc'[p] = "work" => root'[p] = second[p] /\ p \in flag'
      BY <3>2, <3>3
    <3>5. p \in flag' => root'[p] = second[p] \/ (p \in flag /\ root'[p] = root[p])
      BY <3>2
    <3> QED  BY <3>1, <3>2, <3>3, <3>4, <3>5
  <2>3. CASE Goto(p, AfterFailure(pc[p])) /\ root' = root /\ flag' = flag
    BY <2>1, <2>3, FailureGoes DEF Goto
  <2> QED  BY <2>2, <2>3, <1>5
<1>8. UNCHANGED <<first, second, limited, parent, made, attempt, own, expired>>
  BY DEF Discard, Lose, facts
<1>9. /\ second[p] \in own[p] \cap limited \cap (valid \cup expired)
      /\ second[p] # first[p]
  BY <1>1 DEF IInv, SecondOwn
<1>10. TypeOK'
  <2>1. \A q \in flag' : root'[q] \in own[q] \cap limited
    BY <1>7, <1>9 DEF IInv, TypeOK
  <2> QED  BY <1>2, <1>6, <1>7, <1>8, <2>1 DEF IInv, TypeOK
<1>11. Parentless' /\ GivenApart' /\ FirstOwn' /\ OwnApart'
  BY <1>4, <1>8 DEF IInv, Parentless, GivenApart, FirstOwn, OwnApart
<1>12. SecondOwn'
  BY <1>4, <1>6, <1>8 DEF IInv, SecondOwn
<1>13. Working'
  <2>1. ASSUME NEW q \in Plays \ {p}, pc'[q] = "work"
        PROVE  root'[q] \in valid' \cup expired /\ (q \in flag' \/ root'[q] = Given)
    <3>1. root[q] \in valid \cup expired /\ (q \in flag \/ root[q] = Given)
      BY <2>1, <1>6 DEF IInv, Working
    <3>2. q \in flag => root[q] \in own[q]
      BY DEF IInv, TypeOK
    <3> QED  BY <3>1, <3>2, <1>4, <1>7
  <2> QED  BY <2>1, <1>2, <1>7, <1>8, <1>9 DEF Working
<1> QED  BY <1>10, <1>11, <1>12, <1>13 DEF IInv

LEMMA RevokeStep ==
  ASSUME IInv, NEW p \in Plays, Revoke(p)  PROVE IInv'
<1>1. p \in flag /\ root[p] \in valid /\ RevokeToken(root[p])
  BY DEF Revoke, ToRevoke
<1>2. valid' = valid \ {root[p]}
  BY <1>1, RevokesOne
<1>3. root[p] \in own[p]
  BY <1>1 DEF IInv, TypeOK
<1>4. Given \in valid' /\ \A q \in Plays \ {p} : own[q] \cap valid \subseteq valid'
  BY <1>2, <1>3, OwnRevoked
<1>5. \/ Goto(p, "ended") /\ root' = [root EXCEPT ![p] = 0] /\ flag' = flag \ {p}
      \/ Goto(p, AfterFailure(pc[p])) /\ root' = root /\ flag' = flag
  BY DEF Revoke, Lose, facts
<1>6. /\ pc' \in [Plays -> Steps]
      /\ pc'[p] \in {"revoke", "ended"}
      /\ \A q \in Plays \ {p} : pc'[q] = pc[q]
  BY <1>5, Goes, FailureGoes DEF Goto, Steps
<1>7. /\ \A q \in Plays \ {p} : root'[q] = root[q] /\ (q \in flag' <=> q \in flag)
      /\ p \in flag' => root'[p] = root[p]
      /\ root' \in [Plays -> 0..made] /\ flag' \subseteq flag
  <2>1. root \in [Plays -> 0..made] /\ 0 \in 0..made
    BY BoundsAssumption DEF IInv, TypeOK, Tokens
  <2> QED  BY <2>1, <1>5
<1>8. UNCHANGED <<first, second, limited, parent, made, attempt, own, expired>>
  BY DEF Revoke, Lose, facts
<1>9. TypeOK'
  <2>1. \A q \in flag' : root'[q] \in own[q] \cap limited
    BY <1>7 DEF IInv, TypeOK
  <2> QED  BY <1>2, <1>6, <1>7, <1>8, <2>1 DEF IInv, TypeOK
<1>10. Parentless' /\ GivenApart' /\ FirstOwn' /\ OwnApart'
  BY <1>4, <1>8 DEF IInv, Parentless, GivenApart, FirstOwn, OwnApart
<1>11. SecondOwn'
  BY <1>4, <1>6, <1>8 DEF IInv, SecondOwn
<1>12. Working'
  <2>1. ASSUME NEW q \in Plays \ {p}, pc'[q] = "work"
        PROVE  root'[q] \in valid' \cup expired /\ (q \in flag' \/ root'[q] = Given)
    <3>1. root[q] \in valid \cup expired /\ (q \in flag \/ root[q] = Given)
      BY <2>1, <1>6 DEF IInv, Working
    <3>2. q \in flag => root[q] \in own[q]
      BY DEF IInv, TypeOK
    <3> QED  BY <3>1, <3>2, <1>4, <1>7
  <2> QED  BY <2>1, <1>6, <1>8 DEF Working
<1> QED  BY <1>9, <1>10, <1>11, <1>12 DEF IInv

LEMMA ExpireStep ==
  ASSUME IInv, NEW t \in Tokens, Expire(t)  PROVE IInv'
<1>1. t \in valid \cap limited /\ expired' = expired \cup {t}
  BY DEF Expire
<1>2. valid' = valid \ {t}
  BY <1>1, RevokesOne DEF Expire
<1>3. UNCHANGED <<limited, parent, made, attempt, pc, facts, own>>
  BY DEF Expire
<1>4. TypeOK'
  BY <1>1, <1>2, <1>3 DEF IInv, TypeOK, facts
<1>5. Parentless' /\ GivenApart' /\ FirstOwn' /\ OwnApart'
  BY <1>1, <1>2, <1>3 DEF IInv, Parentless, GivenApart, FirstOwn, OwnApart, facts
<1>6. valid \cup expired \subseteq valid' \cup expired'
  BY <1>1, <1>2
<1>7. SecondOwn' /\ Working'
  BY <1>3, <1>6 DEF IInv, SecondOwn, Working, facts
<1> QED  BY <1>4, <1>5, <1>7 DEF IInv

LEMMA NextIInv == IInv /\ [Next]_vars => IInv'
<1> SUFFICES ASSUME IInv, [Next]_vars PROVE IInv'
  OBVIOUS
<1>1. ASSUME NEW p \in Plays, Start(p) \/ Runs(p) \/ Cut(p) PROVE IInv'
  BY <1>1, StartStep, GenerationStep, IdleStep, SupplyStep, CreateStep, DiscardStep,
     RevokeStep DEF Runs
<1>2. ASSUME NEW t \in Tokens, Expire(t) PROVE IInv'
  BY <1>2, ExpireStep
<1>3. CASE UNCHANGED vars
  <2>1. UNCHANGED <<vault, facts, own, expired>> /\ pc' = pc /\ attempt' = attempt
    BY <1>3 DEF vars
  <2> QED  BY <2>1, OtherStep DEF IInv, TypeOK
<1> QED  BY <1>1, <1>2, <1>3 DEF Next

LEMMA Invariant == Spec => []IInv
BY InitIInv, NextIInv, PTL DEF Spec

\* The variables have their types; what a play has to revoke is a token of its own, with
\* a TTL.
THEOREM TypeCorrect == Spec => []TypeOK
<1>1. IInv => TypeOK
  BY DEF IInv
<1> QED  BY <1>1, Invariant, PTL

\* However playbooks fail or run at the same time, none revokes the administrator's token.
THEOREM GivenStays == Spec => GivenKept
<1>1. IInv' => ((Given \in valid) => (Given \in valid'))
  BY DEF IInv, GivenApart
<1>2. Spec => [][(Given \in valid) => (Given \in valid')]_vars
  BY <1>1, Invariant, PTL
<1> QED  BY <1>2 DEF GivenKept

\* The token a play works with is valid until it expires or the play itself revokes it,
\* though it was made with one that is revoked and others revoke theirs.
THEOREM WorksUntilExpired == Spec => []WorksWithToken
<1>1. IInv => WorksWithToken
  BY DEF IInv, Working, WorksWithToken
<1> QED  BY <1>1, Invariant, PTL

(***************************************************************************)
(* The token that has no TTL.                                              *)
(***************************************************************************)
FirstGone ==
  \A p \in Plays : pc[p] = "work" => first[p] \notin valid /\ second[p] \in limited \cup {0}

\* A play that gets to work is not given a token, or has just revoked the first.
LEMMA GetsToWork ==
  ASSUME IInv, NEW p \in Plays, Start(p) \/ Runs(p) \/ Cut(p), pc'[p] = "work"
  PROVE  first'[p] \notin valid' /\ second'[p] \in limited' \cup {0}
<1>0. pc \in [Plays -> Steps] /\ first \in [Plays -> 0..made] /\ second \in [Plays -> 0..made]
      /\ 0 \notin valid
  BY BoundsAssumption DEF IInv, TypeOK
<1>1. ASSUME NEW s \in Steps \ {"work"}, Goto(p, s) PROVE FALSE
  BY <1>0, <1>1 DEF Goto
<1>2. AfterFailure(pc[p]) \in Steps \ {"work"}
  BY DEF AfterFailure, Steps
<1>3. ~Lose(p) /\ ~Fail(p) /\ ~Cut(p)
  BY <1>1, <1>2 DEF Lose, Fail, Cut, Steps
<1>4. CASE Start(p)
  BY <1>0, <1>4 DEF Start, vault
<1>5. CASE Discard(p)
  <2>1. /\ pc[p] = "discard" /\ first[p] \in valid /\ RevokeToken(first[p])
        /\ UNCHANGED <<first, second, limited>>
    BY <1>3, <1>5 DEF Discard
  <2>2. first[p] \notin valid'
    BY <2>1, RevokesOne
  <2> QED BY <2>1, <2>2 DEF IInv, SecondOwn
<1>6. ~CancelGeneration(p) /\ ~BeginGeneration(p) /\ ~Supply(p) /\ ~Create(p)
      /\ ~Work(p) /\ ~Revoke(p) /\ ~NothingToRevoke(p)
  BY <1>1, <1>3 DEF CancelGeneration, BeginGeneration, Supply, Create, Work, Revoke,
     NothingToRevoke, Steps
<1> QED BY <1>3, <1>4, <1>5, <1>6 DEF Runs

\* What the others do changes neither its facts nor the tokens it has had.
LEMMA StaysAtWork ==
  ASSUME IInv, NEW p \in Plays, NEW q \in Plays \ {p}, Start(q) \/ Runs(q) \/ Cut(q)
  PROVE  /\ pc'[p] = pc[p] /\ first'[p] = first[p] /\ second'[p] = second[p]
         /\ limited \subseteq limited' /\ valid' \subseteq valid \cup {made + 1}
<1> USE DEF Goto, Lose, facts, vault
<1>0. pc \in [Plays -> Steps] /\ first \in [Plays -> 0..made] /\ second \in [Plays -> 0..made]
  BY DEF IInv, TypeOK
<1>1. CASE Start(q) \/ Cut(q) \/ Work(q) \/ NothingToRevoke(q) \/ Fail(q)
           \/ CancelGeneration(q) \/ BeginGeneration(q)
  BY <1>0, <1>1 DEF Start, Cut, Work, NothingToRevoke, Fail, CancelGeneration, BeginGeneration
<1>2. CASE Supply(q)
  BY <1>0, <1>2 DEF Supply, Make
<1>3. CASE Create(q)
  BY <1>0, <1>3 DEF Create, Make, Limited
<1>4. CASE Discard(q) \/ Revoke(q)
  BY <1>0, <1>4 DEF Discard, Revoke, RevokeToken
<1> QED BY <1>1, <1>2, <1>3, <1>4 DEF Runs

LEMMA FirstGoneNext == IInv /\ FirstGone /\ [Next]_vars => FirstGone'
<1> SUFFICES ASSUME IInv, FirstGone, [Next]_vars, NEW p \in Plays, pc'[p] = "work"
             PROVE  first'[p] \notin valid' /\ second'[p] \in limited' \cup {0}
  BY DEF FirstGone
<1>0. first[p] \in 0..made /\ made \in Nat
  BY BoundsAssumption DEF IInv, TypeOK, Tokens
<1>1. ASSUME NEW q \in Plays, Start(q) \/ Runs(q) \/ Cut(q)
      PROVE  first'[p] \notin valid' /\ second'[p] \in limited' \cup {0}
  <2>1. CASE q = p
    BY <1>1, <2>1, GetsToWork
  <2>2. CASE q # p
    <3>1. /\ pc[p] = "work" /\ first'[p] = first[p] /\ second'[p] = second[p]
          /\ limited \subseteq limited' /\ valid' \subseteq valid \cup {made + 1}
      BY <1>1, <2>2, StaysAtWork
    <3>2. first[p] # made + 1
      BY <1>0
    <3> QED BY <3>1, <3>2 DEF FirstGone
  <2> QED BY <2>1, <2>2
<1>2. CASE UNCHANGED vars \/ \E t \in Tokens : Expire(t)
  BY <1>2 DEF Expire, RevokeToken, vars, vault, facts, FirstGone
<1> QED BY <1>1, <1>2 DEF Next

\* docs/manage_vault_cluster_playbook.md has root tokens that expire on their own: of the
\* two of a run, the one that does not is gone before any work is done.
THEOREM WorksLimited == Spec => []LimitedWhileWorking
<1>1. Init => FirstGone
  BY DEF Init, FirstGone
<1>2. IInv /\ FirstGone => LimitedWhileWorking
  BY BoundsAssumption DEF IInv, TypeOK, FirstGone, LimitedWhileWorking, Here, Latest
<1> QED BY <1>1, <1>2, FirstGoneNext, Invariant, PTL DEF Spec

(***************************************************************************)
(* What a run leaves behind.                                               *)
(***************************************************************************)
\* The valid tokens made for a play are those its facts name: none before the keys are
\* supplied, and at the end only one that it knows to revoke.
Accounted(p) ==
  /\ pc[p] \in {"out", "cancel", "begin", "supply", "ended"} => Here(p) = {}
  /\ pc[p] = "create" => Here(p) \subseteq {first[p]}
  /\ pc[p] = "discard" => Here(p) \subseteq {first[p], second[p]}
  /\ pc[p] \in {"create", "discard"} => first[p] \in valid \ limited
  /\ pc[p] \in {"work", "revoke"} =>
       Here(p) \subseteq {root[p]} /\ (p \notin flag => Here(p) = {})

NothingLeft ==
  /\ failures \in Nat /\ cuts \in Nat
  /\ failures = 0 /\ cuts = 0 => \A p \in Plays : Accounted(p)

\* The others change neither its facts nor its tokens.
LEMMA OthersKeep ==
  ASSUME IInv, NEW p \in Plays, NEW q \in Plays \ {p}, Start(q) \/ Runs(q) \/ Cut(q)
  PROVE  /\ root'[p] = root[p] /\ (p \in flag' <=> p \in flag) /\ own'[p] = own[p]
         /\ own[p] \cap valid \subseteq valid' /\ limited' \subseteq limited \cup {made + 1}
<1> USE DEF Goto, Lose, facts, vault
<1>0. root \in [Plays -> 0..made] /\ own \in [Plays -> SUBSET (2..made)] /\ q # p
  BY DEF IInv, TypeOK
<1>1. CASE Start(q) \/ Cut(q) \/ Work(q) \/ NothingToRevoke(q) \/ Fail(q)
           \/ CancelGeneration(q) \/ BeginGeneration(q)
  BY <1>0, <1>1 DEF Start, Cut, Work, NothingToRevoke, Fail, CancelGeneration, BeginGeneration
<1>2. CASE Supply(q)
  BY <1>0, <1>2 DEF Supply, Make
<1>3. CASE Create(q)
  BY <1>0, <1>3 DEF Create, Make, Limited
<1>4. CASE Discard(q)
  <2>1. first[q] \in own[q] /\ valid' = valid \ {first[q]}
    BY <1>4, RevokesOne DEF Discard, IInv, FirstOwn, TypeOK
  <2>2. own[p] \cap valid \subseteq valid'
    BY <2>1, OwnRevoked
  <2> QED BY <1>0, <1>4, <2>2 DEF Discard
<1>5. CASE Revoke(q)
  <2>1. root[q] \in own[q] /\ valid' = valid \ {root[q]}
    BY <1>5, RevokesOne DEF Revoke, ToRevoke, IInv, TypeOK
  <2>2. own[p] \cap valid \subseteq valid'
    BY <2>1, OwnRevoked
  <2> QED BY <1>0, <1>5, <2>2 DEF Revoke
<1> QED BY <1>1, <1>2, <1>3, <1>4, <1>5 DEF Runs

LEMMA OthersAccounted ==
  ASSUME IInv, NEW p \in Plays, NEW q \in Plays \ {p}, Start(q) \/ Runs(q) \/ Cut(q),
         Accounted(p)
  PROVE  Accounted(p)'
<1>1. /\ pc'[p] = pc[p] /\ first'[p] = first[p] /\ second'[p] = second[p]
      /\ valid' \subseteq valid \cup {made + 1}
  BY StaysAtWork
<1>2. /\ root'[p] = root[p] /\ (p \in flag' <=> p \in flag) /\ own'[p] = own[p]
      /\ own[p] \cap valid \subseteq valid' /\ limited' \subseteq limited \cup {made + 1}
  BY OthersKeep
<1>3. own[p] \subseteq 2..made /\ made + 1 \notin 0..made /\ first[p] \in 0..made /\ 0 \notin valid
  BY BoundsAssumption DEF IInv, TypeOK, Tokens
<1>4. Here(p)' = Here(p)
  BY <1>1, <1>2, <1>3 DEF Here
<1>5. first[p] \in valid => first[p] \in own[p]
  BY <1>3 DEF IInv, FirstOwn
<1> QED BY <1>1, <1>2, <1>3, <1>4, <1>5 DEF Accounted

\* Steps that touch neither tokens nor facts.
LEMMA IdleAccounted ==
  ASSUME IInv, NEW p \in Plays, Accounted(p), failures \in Nat, cuts \in Nat,
         failures' = 0, cuts' = 0,
         CancelGeneration(p) \/ BeginGeneration(p) \/ Work(p) \/ NothingToRevoke(p)
           \/ Fail(p) \/ Cut(p)
  PROVE  Accounted(p)'
<1>1. UNCHANGED <<valid, own, first, second, root, flag, limited>> /\ Here(p)' = Here(p)
  BY DEF CancelGeneration, BeginGeneration, Work, NothingToRevoke, Fail, Cut, Lose, vault,
     facts, Here
<1>2. ~Lose(p) /\ ~Cut(p) /\ pc \in [Plays -> Steps]
  BY DEF Lose, Cut, IInv, TypeOK
<1>3. CASE CancelGeneration(p) \/ BeginGeneration(p) \/ Work(p)
  <2>1. \/ pc[p] = "cancel" /\ pc'[p] = "begin"
        \/ pc[p] = "begin" /\ pc'[p] = "supply"
        \/ pc[p] = "work" /\ pc'[p] = "revoke"
    BY <1>2, <1>3 DEF CancelGeneration, BeginGeneration, Work, Goto
  <2> QED BY <1>1, <2>1 DEF Accounted
<1>4. CASE NothingToRevoke(p)
  <2>1. pc[p] = "revoke" /\ pc'[p] = "ended" /\ ~ToRevoke(p)
    BY <1>2, <1>4 DEF NothingToRevoke, Goto
  <2>2. p \notin flag
    BY <2>1 DEF ToRevoke, IInv, TypeOK
  <2> QED BY <1>1, <2>1, <2>2 DEF Accounted
<1>5. CASE Fail(p)
  <2>1. Refused(p) /\ pc'[p] = AfterFailure(pc[p])
    BY <1>2, <1>5 DEF Fail, Goto
  <2>2. \/ pc[p] \in {"begin", "supply"} /\ pc'[p] = "revoke"
        \/ pc[p] = "revoke" /\ root[p] \notin valid /\ pc'[p] = "ended"
    BY <2>1 DEF Refused, AfterFailure, Accounted
  <2> QED BY <1>1, <2>2 DEF Accounted, Here
<1> QED BY <1>2, <1>3, <1>4, <1>5

\* What a play's own steps make of its tokens, if none fails.
LEMMA OwnAccounted ==
  ASSUME IInv, NEW p \in Plays, Accounted(p), failures \in Nat, cuts \in Nat,
         failures' = 0, cuts' = 0, Start(p) \/ Runs(p) \/ Cut(p)
  PROVE  Accounted(p)'
<1>0. /\ pc \in [Plays -> Steps] /\ first \in [Plays -> 0..made]
      /\ second \in [Plays -> 0..made] /\ root \in [Plays -> 0..made]
      /\ own[p] \subseteq 2..made /\ limited \subseteq 1..made /\ made \in Nat
      /\ made + 1 \notin 0..made /\ 0 \notin valid
  BY BoundsAssumption DEF IInv, TypeOK, Tokens
<1>f. ~Lose(p)
  BY DEF Lose
<1>1. CASE Start(p)
  <2>1. /\ pc[p] \in {"out", "ended"} /\ pc'[p] \in {"cancel", "work"}
        /\ UNCHANGED <<valid, own, limited>> /\ p \notin flag'
    BY <1>0, <1>1 DEF Start, Goto, vault
  <2>2. Here(p)' = {}
    BY <2>1 DEF Accounted, Here
  <2> QED BY <2>1, <2>2 DEF Accounted
<1>2. CASE Supply(p)
  <2>1. /\ pc[p] = "supply" /\ pc'[p] = "create" /\ Make(p, 0) /\ limited' = limited
        /\ first'[p] = made'
    BY <1>0, <1>2, <1>f DEF Supply, Goto
  <2>2. /\ made' = made + 1 /\ valid' = valid \cup {made'} /\ own'[p] = own[p] \cup {made'}
    BY <2>1, MakesNew
  <2>3. Here(p)' \subseteq Here(p) \cup {made'}
    BY <1>0, <2>2 DEF Here
  <2>4. made' \in valid' \ limited'
    BY <1>0, <2>1, <2>2
  <2> QED BY <2>1, <2>3, <2>4 DEF Accounted
<1>3. CASE Create(p)
  <2>1. /\ pc[p] = "create" /\ pc'[p] = "discard" /\ Make(p, 0)
        /\ limited' = limited \cup {made'} /\ second'[p] = made' /\ first' = first
    BY <1>0, <1>3, <1>f DEF Create, Goto, Parent, Limited
  <2>2. /\ made' = made + 1 /\ valid' = valid \cup {made'} /\ own'[p] = own[p] \cup {made'}
    BY <2>1, MakesNew
  <2>3. Here(p)' \subseteq Here(p) \cup {made'}
    BY <1>0, <2>2 DEF Here
  <2>4. first[p] \in valid' \ limited'
    <3>1. first[p] \in 0..made /\ first[p] \in valid \ limited
      BY <1>0, <2>1 DEF Accounted
    <3> QED BY <1>0, <2>1, <2>2, <3>1
  <2> QED BY <2>1, <2>3, <2>4 DEF Accounted
<1>4. CASE Discard(p)
  <2>1. /\ pc[p] = "discard" /\ pc'[p] = "work" /\ first[p] \in valid
        /\ root'[p] = second[p] /\ p \in flag' /\ own' = own
    BY <1>0, <1>4, <1>f DEF Discard, Goto, Root
  <2>2. valid' = valid \ {first[p]}
    BY <1>4, RevokesOne DEF Discard
  <2>3. Here(p)' \subseteq {second[p]}
    BY <2>1, <2>2 DEF Accounted, Here
  <2> QED BY <2>1, <2>3 DEF Accounted
<1>5. CASE Revoke(p)
  <2>1. pc[p] = "revoke" /\ pc'[p] = "ended" /\ own' = own
    BY <1>0, <1>5, <1>f DEF Revoke, Goto
  <2>2. valid' = valid \ {root[p]}
    BY <1>5, RevokesOne DEF Revoke
  <2>3. Here(p)' = {}
    BY <2>1, <2>2 DEF Accounted, Here
  <2> QED BY <2>1, <2>3 DEF Accounted
<1> QED BY <1>1, <1>2, <1>3, <1>4, <1>5, IdleAccounted DEF Runs

LEMMA NothingLeftNext == IInv /\ NothingLeft /\ [Next]_vars => NothingLeft'
<1> SUFFICES ASSUME IInv, NothingLeft, [Next]_vars PROVE NothingLeft'
  OBVIOUS
<1>1. ASSUME NEW q \in Plays, Start(q) \/ Runs(q) \/ Cut(q) PROVE NothingLeft'
  <2>1. /\ failures' \in Nat /\ failures' >= failures
        /\ cuts' \in Nat /\ cuts' >= cuts
    <3>1. failures' \in {failures, failures + 1} /\ cuts' \in {cuts, cuts + 1}
      BY <1>1 DEF Start, Runs, Cut, CancelGeneration, BeginGeneration, Supply, Create, Discard,
         Work, Revoke, NothingToRevoke, Fail, Lose
    <3> QED BY <3>1 DEF NothingLeft
  <2>2. ASSUME failures' = 0, cuts' = 0, NEW p \in Plays PROVE Accounted(p)'
    <3>1. failures = 0 /\ cuts = 0 /\ Accounted(p)
      BY <2>1, <2>2 DEF NothingLeft
    <3>2. CASE q = p
      BY <1>1, <2>2, <3>1, <3>2, OwnAccounted
    <3>3. CASE q # p
      BY <1>1, <3>1, <3>3, OthersAccounted
    <3> QED BY <3>2, <3>3
  <2> QED BY <2>1, <2>2 DEF NothingLeft
<1>2. ASSUME NEW t \in Tokens, Expire(t) PROVE NothingLeft'
  <2>1. /\ t \in limited /\ valid' = valid \ {t}
        /\ UNCHANGED <<limited, pc, first, second, root, flag, own, failures, cuts>>
    BY <1>2, RevokesOne DEF Expire, facts
  <2> QED BY <2>1 DEF NothingLeft, Accounted, Here
<1>3. CASE UNCHANGED vars
  BY <1>3 DEF vars, vault, facts, NothingLeft, Accounted, Here
<1> QED BY <1>1, <1>2, <1>3 DEF Next

\* docs/manage_vault_cluster_playbook.md has the playbooks revoke the root tokens they
\* generated: if no request fails and none is killed, none is left, for any number of
\* playbooks that cancel each other's generations and outlive their tokens.
THEOREM ExitsClean == Spec => []CleanExit
<1>1. Init => NothingLeft
  BY DEF Init, NothingLeft, Accounted, Here
<1>2. NothingLeft => CleanExit
  BY DEF NothingLeft, Accounted, CleanExit
<1> QED BY <1>1, <1>2, NothingLeftNext, Invariant, PTL DEF Spec
===============================================================================
