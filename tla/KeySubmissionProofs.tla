------------------------- MODULE KeySubmissionProofs -------------------------
(***************************************************************************)
(* Proofs about KeySubmission, for any number of administrators, any       *)
(* threshold and any numbers of shares.                                    *)
(***************************************************************************)
EXTENDS KeySubmission, FiniteSetTheorems, TLAPS

\* The types and the one fact they rest on: an operation that has been given
\* as many keys as it requires is over.
TInv == TypeOK /\ BelowThreshold

\* Whoever submits whatever key to Vault keeps the types, and the operation
\* short of its threshold.
LEMMA SubmitFacts ==
  ASSUME TInv, NEW who \in Admins, NEW key \in Keys, Submit(who, key)
  PROVE  /\ nonce' \in {0, nonce} /\ lastNonce' = lastNonce
         /\ submitted' \subseteq Keys
         /\ results' \subseteq [nonce : Nat, to : Admins]
         /\ BelowThreshold'
<1> USE RequiredAssumption
<1>1. CASE nonce = 0 /\ UNCHANGED vault
  BY <1>1 DEF TInv, TypeOK, BelowThreshold, vault
<1>2. CASE /\ nonce # 0 /\ ~Completes(key)
           /\ submitted' = submitted \union {key}
           /\ UNCHANGED <<nonce, lastNonce, results>>
  <2>1. /\ IsFiniteSet(submitted \union {key})
        /\ Cardinality(submitted \union {key}) \in Nat
    BY FS_AddElement, FS_CardinalityType DEF TInv, BelowThreshold
  <2>2. Cardinality(submitted \union {key}) < Required
    BY <1>2, <2>1 DEF Completes
  <2> QED
    BY <1>2, <2>1, <2>2 DEF TInv, TypeOK, BelowThreshold
<1>3. CASE /\ Completes(key)
           /\ results' = results \union {[nonce |-> nonce, to |-> who]}
           /\ nonce' = 0
           /\ submitted' = {}
           /\ UNCHANGED lastNonce
  BY <1>3, FS_EmptySet DEF TInv, TypeOK, BelowThreshold
<1> QED
  BY <1>1, <1>2, <1>3 DEF Submit

\* The keys a play submits are keys of its administrator.
LEMMA KeysOfAdmins ==
  ASSUME NEW a \in Admins, NEW i \in Nat \ {0}, i <= Shares[a]
  PROVE  <<a, i>> \in Keys
<1>1. Shares[a] \in Nat
  BY SharesAssumption
<1>2. <<a, i>> \in {a} \X (1 .. Shares[a])
  BY <1>1
<1> QED
  BY <1>2 DEF Keys

LEMMA LastKeyIsKey == LastKey \in Keys
BY SharesAssumption, KeysOfAdmins DEF LastKey, Admins

LEMMA LeftIsNat == TInv => Left \in Nat \ {0}
BY FS_CardinalityType, RequiredAssumption DEF TInv, BelowThreshold, Left

LEMMA TypeInit == Init => TInv
BY RequiredAssumption DEF Init, TInv, TypeOK, BelowThreshold, MainPcs, Admins

\* Beginning and cancelling an operation at Vault.
LEMMA BeginFacts ==
  ASSUME TInv, Begin \/ Cancel
  PROVE  /\ nonce' \in Nat /\ lastNonce' \in Nat /\ nonce' <= lastNonce'
         /\ submitted' \subseteq Keys
         /\ results' \subseteq [nonce : Nat, to : Admins]
         /\ BelowThreshold'
<1> USE FS_EmptySet, RequiredAssumption DEF TInv, TypeOK, BelowThreshold
<1>1. CASE Cancel
  BY <1>1 DEF Cancel
<1>2. CASE Begin
  <2>1. lastNonce' \in Nat
    BY <1>2 DEF Begin
  <2> QED
    BY <1>2, <2>1 DEF Begin
<1> QED
  BY <1>1, <1>2

\* Every step of Main's play keeps the types.
LEMMA TypeMain == TInv /\ MainStep => TInv'
<1> SUFFICES ASSUME TInv, MainStep PROVE TInv'
  OBVIOUS
<1> USE DEF TInv, TypeOK, vault, main, helpers, MainPcs
<1>1. CASE MainCancel
  BY <1>1, BeginFacts DEF MainCancel, BelowThreshold
<1>12. CASE MainChecksSeal
  BY <1>12 DEF MainChecksSeal, BelowThreshold
<1>2. CASE MainBegin
  <2>1. lastNonce' \in Nat
    BY <1>2 DEF MainBegin, Begin
  <2> QED
    BY <1>2, <2>1, BeginFacts DEF MainBegin, BelowThreshold
<1>3. CASE MainBeginRefused
  BY <1>3 DEF MainBeginRefused, BelowThreshold
<1>4. CASE MainReadStatus
  BY <1>4, LeftIsNat DEF MainReadStatus, BelowThreshold
<1>5. CASE MainSubmitInitial
  <2>1. CASE ~Accepts(mnonce)
    BY <1>5, <2>1 DEF MainSubmitInitial, BelowThreshold
  <2>2. CASE Accepts(mnonce)
    <3>1. <<Main, msent + 1>> \in Keys
      BY <1>5, SharesAssumption, KeysOfAdmins
         DEF MainSubmitInitial, MayBeInitial, Admins
    <3>2. Submit(Main, <<Main, msent + 1>>)
      BY <1>5, <2>2 DEF MainSubmitInitial
    <3>3. /\ nonce' \in {0, nonce} /\ lastNonce' = lastNonce
          /\ submitted' \subseteq Keys
          /\ results' \subseteq [nonce : Nat, to : Admins]
          /\ BelowThreshold'
      BY <3>1, <3>2, SubmitFacts DEF Admins
    <3>4. mpc' = mpc /\ msent' = msent + 1
      BY <1>5, <2>2 DEF MainSubmitInitial
    <3> QED
      BY <1>5, <3>3, <3>4 DEF MainSubmitInitial
  <2> QED
    BY <2>1, <2>2
<1>6. CASE MainInitialDone
  BY <1>6 DEF MainInitialDone, BelowThreshold
<1>7. CASE MainReadStatusAgain
  BY <1>7, LeftIsNat DEF MainReadStatusAgain, BelowThreshold
<1>8. CASE MainSeesProgress
  BY <1>8 DEF MainSeesProgress, BelowThreshold
<1>9. CASE MainSeesOtherNonce
  BY <1>9 DEF MainSeesOtherNonce, BelowThreshold
<1>10. CASE MainSubmitFinal
  <2>1. CASE ~Accepts(mnonce)
    BY <1>10, <2>1 DEF MainSubmitFinal, BelowThreshold
  <2>2. CASE Accepts(mnonce)
    <3>1. Submit(Main, LastKey)
      BY <1>10, <2>2 DEF MainSubmitFinal
    <3> QED
      BY <1>10, <3>1, LastKeyIsKey, SubmitFacts DEF MainSubmitFinal, Admins
  <2> QED
    BY <2>1, <2>2
<1>11. CASE MainConfirm
  BY <1>11 DEF MainConfirm, BelowThreshold
<1> QED
  BY <1>1, <1>2, <1>3, <1>4, <1>5, <1>6, <1>7, <1>8, <1>9, <1>10, <1>11,
     <1>12 DEF MainStep

\* So does every step of a helper's play.
LEMMA TypeHelper ==
  ASSUME TInv, NEW h \in Helpers, HelperFetch(h) \/ HelperStep(h) \/ HelperCrash(h)
  PROVE  TInv'
<1> USE DEF TInv, TypeOK, vault, main, helpers
<1>1. CASE HelperFetch(h)
  BY <1>1, LeftIsNat DEF HelperFetch, HelperRequired, Left, BelowThreshold
<1>2. CASE HelperAnswer(h)
  BY <1>2 DEF HelperAnswer, BelowThreshold
<1>3. CASE HelperSubmit(h)
  <2>1. CASE ~Accepts(hnonce[h])
    BY <1>3, <2>1 DEF HelperSubmit, BelowThreshold
  <2>2. CASE Accepts(hnonce[h])
    <3>1. <<h, hsent[h] + 1>> \in Keys
      BY <1>3, KeysOfAdmins DEF HelperSubmit, MaySubmit, Admins
    <3>2. Submit(h, <<h, hsent[h] + 1>>)
      BY <1>3, <2>2 DEF HelperSubmit
    <3> QED
      BY <1>3, <2>2, <3>1, <3>2, SubmitFacts DEF HelperSubmit, Admins
  <2> QED
    BY <2>1, <2>2
<1>4. CASE HelperEnd(h)
  BY <1>4 DEF HelperEnd, BelowThreshold
<1>5. CASE HelperCrash(h)
  BY <1>5 DEF HelperCrash, Disturb, BelowThreshold
<1> QED
  BY <1>1, <1>2, <1>3, <1>4, <1>5 DEF HelperStep

\* So does everything else that may happen.
LEMMA TypeOther ==
  TInv /\ (StrangerBegins \/ VaultForgets \/ MainCrash \/ UNCHANGED vars) => TInv'
<1> SUFFICES ASSUME TInv,
                    StrangerBegins \/ VaultForgets \/ MainCrash \/ UNCHANGED vars
             PROVE  TInv'
  OBVIOUS
<1> USE DEF TInv, TypeOK, vault, main, helpers
<1>1. CASE StrangerBegins
  BY <1>1, BeginFacts DEF StrangerBegins, Disturb, BelowThreshold
<1>2. CASE VaultForgets
  BY <1>2, BeginFacts DEF VaultForgets, Disturb, BelowThreshold
<1>3. CASE MainCrash
  BY <1>3 DEF MainCrash, Disturb, BelowThreshold, MainPcs
<1>4. CASE UNCHANGED vars
  BY <1>4 DEF vars, BelowThreshold
<1> QED
  BY <1>1, <1>2, <1>3, <1>4

LEMMA TypeStep == TInv /\ [Next]_vars => TInv'
BY TypeMain, TypeHelper, TypeOther DEF Next

\* Type correctness of the whole ceremony, for both kinds of API and whether
\* or not anybody keeps to the discipline: whatever a play computes from a
\* status, "remaining" included, is a natural number.
THEOREM TypeCorrect == Spec => []TypeOK
<1>1. TInv => TypeOK
  BY DEF TInv
<1> QED
  BY <1>1, TypeInit, TypeStep, PTL DEF Spec

(***************************************************************************)
(* Who submits the last key.                                               *)
(***************************************************************************)
\* The ceremonies the documentation describes: an API with a nonce, helpers
\* who wait to be asked and take turns, a number of shares Main can use.
Disciplined == UsesNonce /\ Coordinated /\ SharesFit

LEMMA IInvTypes == IInv => TInv
BY DEF IInv, TInv

LEMMA AcceptsNonce ==
  ASSUME UsesNonce, NEW n PROVE Accepts(n) <=> nonce # 0 /\ n = nonce
BY DEF Accepts

\* A key either adds at most one to Vault's counter, or was the only one
\* missing and new.
LEMMA SubmitCounts ==
  ASSUME TInv, nonce # 0, NEW who \in Admins, NEW key \in Keys, Submit(who, key)
  PROVE  \/ /\ nonce' = nonce /\ results' = results
            /\ submitted' = submitted \union {key}
            /\ Cardinality(submitted') =
                 IF key \in submitted THEN Cardinality(submitted)
                                      ELSE Cardinality(submitted) + 1
            /\ Cardinality(submitted') < Required
         \/ /\ nonce' = 0 /\ submitted' = {}
            /\ results' = results \union {[nonce |-> nonce, to |-> who]}
            /\ key \notin submitted /\ Cardinality(submitted) = Required - 1
<1>1. /\ IsFiniteSet(submitted) /\ Cardinality(submitted) \in Nat
      /\ Cardinality(submitted) < Required
  BY FS_CardinalityType DEF TInv, BelowThreshold
<1>2. Cardinality(submitted \union {key}) =
        IF key \in submitted THEN Cardinality(submitted)
                             ELSE Cardinality(submitted) + 1
  BY <1>1, FS_AddElement
<1>3. CASE Completes(key)
  BY <1>1, <1>2, <1>3, RequiredAssumption DEF Submit, Completes
<1>4. CASE ~Completes(key)
  <2>1. /\ submitted' = submitted \union {key}
        /\ nonce' = nonce /\ results' = results
    BY <1>4 DEF Submit
  <2>2. Cardinality(submitted \union {key}) < Required
    BY <1>1, <1>2, <1>4, RequiredAssumption DEF Completes
  <2> QED
    BY <1>2, <2>1, <2>2
<1> QED
  BY <1>3, <1>4

\* While no operation is in progress the invariant asks nothing of Vault.
LEMMA NoOperation ==
  ASSUME IInv, TInv', nonce' = 0, UNCHANGED <<lastNonce, mnonce>>,
         UNCHANGED hnonce, FinalKeyByMain', TurnTaking'
  PROVE  IInv'
BY DEF IInv, TInv, NoncesKnown, ActiveBound, OwnKeysFirst, Active,
       MainsOperation, FinalKeyIsLast

\* Neither does it while nobody knows the operation's nonce.
LEMMA FreshOperation ==
  ASSUME UsesNonce, IInv, TInv', Begin, UNCHANGED <<helpers, mnonce>>
  PROVE  IInv'
<1>1. lastNonce' = lastNonce + 1 /\ nonce' = lastNonce' /\ results' = results
  BY DEF Begin
<1>2. mnonce' # nonce' /\ \A h \in Helpers : hnonce'[h] # nonce'
  BY <1>1 DEF IInv, TypeOK, NoncesKnown, helpers
<1>3. ~MainsOperation' /\ \A h \in Helpers : ~Active(h)'
  BY <1>2 DEF MainsOperation, Active
<1>4. NoncesKnown'
  BY <1>1 DEF IInv, TypeOK, NoncesKnown, helpers
<1>5. OwnKeysFirst' /\ ActiveBound' /\ FinalKeyIsLast'
  BY <1>3 DEF OwnKeysFirst, ActiveBound, FinalKeyIsLast, MainsOperation
<1>6. TurnTaking' /\ FinalKeyByMain'
  BY <1>1 DEF IInv, TurnTaking, FinalKeyByMain, helpers
<1> QED
  BY <1>4, <1>5, <1>6 DEF IInv, TInv

LEMMA CeremonyInit == Init => IInv
<1> SUFFICES ASSUME Init PROVE IInv
  OBVIOUS
<1>1. TypeOK /\ BelowThreshold
  BY TypeInit DEF TInv
<1>2. NoncesKnown /\ TurnTaking /\ ActiveBound /\ FinalKeyByMain
  BY DEF Init, NoncesKnown, TurnTaking, ActiveBound, Active, FinalKeyByMain
<1>3. OwnKeysFirst /\ FinalKeyIsLast
  BY DEF Init, OwnKeysFirst, FinalKeyIsLast, MainsOperation
<1> QED
  BY <1>1, <1>2, <1>3 DEF IInv

\* The steps of Main's play that leave Vault alone: what they register is
\* right for Main's operation.
LEMMA CeremonyMainReads ==
  ASSUME Disciplined, IInv, TInv', UNCHANGED <<vault, helpers, mnonce>>,
         \/ MainChecksSeal \/ MainBeginRefused \/ MainReadStatus \/ MainInitialDone
         \/ MainReadStatusAgain \/ MainSeesProgress \/ MainSeesOtherNonce
         \/ MainSubmitFinal \/ MainConfirm \/ MainCrash
         \/ MainSubmitInitial /\ ~Accepts(mnonce)
  PROVE  IInv'
<1> USE DEF IInv, vault, helpers
<1>1. /\ Cardinality(submitted) \in Nat /\ Required \in Nat \ {0}
      /\ Cardinality(submitted) < Required
  BY FS_CardinalityType, RequiredAssumption DEF BelowThreshold
<1>2. NoncesKnown' /\ TurnTaking' /\ ActiveBound' /\ FinalKeyByMain'
  BY DEF NoncesKnown, TurnTaking, ActiveBound, Active, FinalKeyByMain
<1>3. MainsOperation' = MainsOperation /\ \A h \in Helpers : Active(h)' = Active(h)
  BY DEF MainsOperation, Active
<1>4. CASE mpc' \in {"idle", "begin", "confirm", "done", "failed"}
  BY <1>2, <1>4 DEF OwnKeysFirst, FinalKeyIsLast, TInv
<1>5. CASE MainReadStatus /\ mpc' = "initial"
  <2>1. /\ mpc = "status1" /\ mleft' = Required - Cardinality(submitted)
        /\ msent' = 0
    BY <1>5 DEF MainReadStatus, Left
  <2>2. MainsOperation => submitted = {} /\ Cardinality(submitted) = 0
    BY <2>1, FS_EmptySet DEF OwnKeysFirst
  <2>3. 0 < Shares[Main]
    BY SharesAssumption DEF Admins
  <2>4. OwnKeysFirst'
    BY <1>1, <1>3, <1>5, <2>1, <2>2, <2>3 DEF OwnKeysFirst
  <2> QED
    BY <1>2, <1>5, <2>4 DEF FinalKeyIsLast, TInv
<1>6. CASE MainInitialDone
  <2>1. mpc = "initial" /\ mpc' = "status2" /\ UNCHANGED <<mleft, msent>>
        /\ ~MayBeInitial(msent + 1)
    BY <1>6 DEF MainInitialDone
  <2>2. MainsOperation => Cardinality(submitted) \in {0, Required - 1}
    <3> SUFFICES ASSUME MainsOperation
                 PROVE  Cardinality(submitted) \in {0, Required - 1}
      OBVIOUS
    <3>1. /\ mleft = Required /\ Cardinality(submitted) = msent
          /\ msent < Required /\ msent < Shares[Main]
      BY <2>1 DEF OwnKeysFirst
    <3>2. Shares[Main] \in Nat /\ msent \in Nat
      BY SharesAssumption DEF TypeOK, Admins
    <3>3. msent + 1 > Shares[Main] - 1 \/ msent + 1 > Required - 1
      BY <1>1, <2>1, <3>1, <3>2 DEF MayBeInitial
    <3> QED
      BY <1>1, <3>1, <3>2, <3>3 DEF Disciplined, SharesFit
  <2>3. OwnKeysFirst'
    BY <1>3, <2>1, <2>2 DEF OwnKeysFirst
  <2> QED
    BY <1>2, <2>1, <2>3 DEF FinalKeyIsLast, TInv
<1>7. CASE MainReadStatusAgain /\ mpc' \in {"wait", "final"}
  <2>1. /\ mpc = "status2" /\ mleft' = Required - Cardinality(submitted)
        /\ mpc' = IF mleft' > 1 THEN "wait" ELSE "final"
    BY <1>7 DEF MainReadStatusAgain, Left
  <2>2. MainsOperation => Cardinality(submitted) \in {0, Required - 1}
    BY <2>1 DEF OwnKeysFirst
  <2>3. OwnKeysFirst'
    BY <1>1, <1>3, <2>1, <2>2 DEF OwnKeysFirst
  <2>4. FinalKeyIsLast'
    BY <1>1, <2>1, <2>2 DEF FinalKeyIsLast, MainsOperation, Left
  <2> QED
    BY <1>2, <2>3, <2>4 DEF TInv
<1>8. CASE MainSeesProgress
  <2>1. /\ mpc = "wait" /\ Cardinality(submitted) > mitem
        /\ mpc' = IF mitem + 2 < mleft THEN "wait" ELSE "final"
        /\ mleft' = mleft
    BY <1>8 DEF MainSeesProgress, Received
  <2>2. mitem \in Nat /\ mleft \in Nat
    BY DEF TypeOK
  <2>3. MainsOperation => mleft = Required
    BY <2>1 DEF OwnKeysFirst
  <2>4. OwnKeysFirst'
    BY <1>3, <2>1, <2>3 DEF OwnKeysFirst
  <2>5. FinalKeyIsLast'
    BY <1>1, <2>1, <2>2, <2>3 DEF FinalKeyIsLast, MainsOperation, Left
  <2> QED
    BY <1>2, <2>4, <2>5 DEF TInv
<1> QED
  BY <1>4, <1>5, <1>6, <1>7, <1>8
     DEF MainChecksSeal, MainBeginRefused, MainReadStatus, MainReadStatusAgain,
         MainSeesOtherNonce, MainSubmitFinal, MainConfirm, MainCrash, MainSubmitInitial

\* Main's initial keys go to an operation that holds nothing else, and are
\* fewer than it requires.
LEMMA CeremonyMainInitial ==
  ASSUME Disciplined, IInv, TInv', MainSubmitInitial, Accepts(mnonce)
  PROVE  IInv' /\ results' = results /\ nonce' = nonce
<1> DEFINE key == <<Main, msent + 1>>
<1>1. MainsOperation /\ nonce # 0
  BY AcceptsNonce DEF Disciplined, MainsOperation
<1>2. /\ mpc = "initial" /\ mpc' = "initial" /\ msent' = msent + 1
      /\ UNCHANGED <<mnonce, mleft, hpc, hnonce, hreq, hsent>>
      /\ Submit(Main, key)
  BY DEF MainSubmitInitial, helpers
<1>3. /\ mleft = Required /\ Cardinality(submitted) = msent
      /\ submitted \subseteq {Main} \X (1 .. msent)
      /\ \A h \in Helpers : ~Active(h)
  BY <1>1, <1>2 DEF IInv, OwnKeysFirst
<1>4. /\ msent \in Nat /\ Required \in Nat /\ Shares[Main] \in Nat
      /\ msent + 1 < Required /\ msent + 1 < Shares[Main]
  BY <1>3, RequiredAssumption, SharesAssumption
     DEF MainSubmitInitial, MayBeInitial, IInv, TypeOK, Admins
<1>5. key \in Keys /\ key \notin submitted
  BY <1>3, <1>4, KeysOfAdmins DEF Admins
<1>6. /\ nonce' = nonce /\ results' = results /\ lastNonce' = lastNonce
      /\ submitted' = submitted \union {key}
      /\ Cardinality(submitted') = msent + 1
  BY <1>1, <1>2, <1>3, <1>4, <1>5, SubmitCounts, SubmitFacts, IInvTypes
     DEF Admins
<1>7. submitted' \subseteq {Main} \X (1 .. msent')
  BY <1>2, <1>3, <1>4, <1>6
<1>8. \A h \in Helpers : ~Active(h)'
  BY <1>2, <1>3, <1>6 DEF Active
<1>9. OwnKeysFirst'
  BY <1>2, <1>3, <1>4, <1>6, <1>7, <1>8 DEF OwnKeysFirst
<1>10. NoncesKnown' /\ TurnTaking' /\ ActiveBound' /\ FinalKeyByMain'
  BY <1>2, <1>6, <1>8
     DEF IInv, NoncesKnown, TurnTaking, ActiveBound, FinalKeyByMain
<1> QED
  BY <1>2, <1>6, <1>9, <1>10 DEF IInv, TInv, FinalKeyIsLast

\* Main's final key completes the operation, or was in it already.
LEMMA CeremonyMainFinal ==
  ASSUME Disciplined, IInv, TInv', MainSubmitFinal, Accepts(mnonce)
  PROVE  /\ IInv'
         /\ results' # results => mpc = "final" /\ mpc' \in {"done", "confirm"}
<1>1. MainsOperation /\ nonce # 0
  BY AcceptsNonce DEF Disciplined, MainsOperation
<1>2. /\ mpc = "final" /\ mpc' \in {"confirm", "done", "failed"}
      /\ Completes(LastKey) => mpc' \in {"done", "confirm"}
      /\ UNCHANGED <<mnonce, hpc, hnonce, hreq, hsent>>
      /\ Submit(Main, LastKey)
  BY DEF MainSubmitFinal, helpers
<1>3. /\ Cardinality(submitted) \in Nat /\ Required \in Nat
      /\ IsFiniteSet(submitted)
  BY FS_CardinalityType, RequiredAssumption DEF IInv, BelowThreshold
<1>4. Cardinality(submitted) = Required - 1
  BY <1>1, <1>2, <1>3 DEF IInv, FinalKeyIsLast, MainsOperation, Left
<1>5. lastNonce' = lastNonce
  BY <1>2, LastKeyIsKey, SubmitFacts, IInvTypes DEF Admins
<1>6. CASE UNCHANGED <<nonce, results, submitted>>
  <2>1. NoncesKnown' /\ TurnTaking' /\ ActiveBound' /\ FinalKeyByMain'
    BY <1>2, <1>5, <1>6
       DEF IInv, NoncesKnown, TurnTaking, ActiveBound, Active, FinalKeyByMain
  <2>2. IInv'
    BY <1>2, <1>6, <2>1 DEF IInv, TInv, OwnKeysFirst, FinalKeyIsLast
  <2> QED
    BY <1>6, <2>2
<1>7. CASE /\ nonce' = 0 /\ submitted' = {}
           /\ results' = results \union {[nonce |-> nonce, to |-> Main]}
           /\ LastKey \notin submitted
  <2>1. FinalKeyByMain' /\ TurnTaking'
    BY <1>2, <1>7 DEF IInv, FinalKeyByMain, TurnTaking
  <2>2. IInv'
    BY <1>2, <1>5, <1>7, <2>1, NoOperation
  <2>3. Cardinality(submitted \union {LastKey}) = Required
    BY <1>3, <1>4, <1>7, FS_AddElement
  <2>4. Completes(LastKey)
    BY <1>1, <1>3, <2>3 DEF Completes
  <2> QED
    BY <1>2, <2>2, <2>4
<1>8. \/ UNCHANGED <<nonce, results, submitted>>
      \/ /\ nonce' = 0 /\ submitted' = {}
         /\ results' = results \union {[nonce |-> nonce, to |-> Main]}
         /\ LastKey \notin submitted
  <2>1. \/ /\ nonce' = nonce /\ results' = results
           /\ submitted' = submitted \union {LastKey}
           /\ Cardinality(submitted') =
                IF LastKey \in submitted THEN Cardinality(submitted)
                                         ELSE Cardinality(submitted) + 1
           /\ Cardinality(submitted') < Required
        \/ /\ nonce' = 0 /\ submitted' = {}
           /\ results' = results \union {[nonce |-> nonce, to |-> Main]}
           /\ LastKey \notin submitted
    BY <1>1, <1>2, LastKeyIsKey, SubmitCounts, IInvTypes DEF Admins
  <2>2. CASE LastKey \in submitted
    BY <2>1, <2>2
  <2>3. CASE LastKey \notin submitted
    BY <1>3, <1>4, <2>1, <2>3
  <2> QED
    BY <2>2, <2>3
<1> QED
  BY <1>6, <1>7, <1>8

\* A helper's keys, however late, stay below what its play fetched, so that
\* they never complete the operation they go to.
LEMMA CeremonyHelperSubmit ==
  ASSUME Disciplined, IInv, TInv', NEW h \in Helpers, HelperSubmit(h),
         Accepts(hnonce[h])
  PROVE  IInv' /\ results' = results /\ nonce' = nonce
<1> DEFINE key == <<h, hsent[h] + 1>>
<1>1. nonce # 0 /\ hnonce[h] = nonce
  BY AcceptsNonce DEF Disciplined
<1>2. /\ hpc[h] = "submit" /\ hpc' = hpc
      /\ hsent' = [hsent EXCEPT ![h] = hsent[h] + 1]
      /\ UNCHANGED <<mpc, mnonce, mleft, msent, hnonce, hreq>>
      /\ Submit(h, key)
  BY <1>1 DEF HelperSubmit, main
<1>3. Active(h)
  BY <1>1, <1>2 DEF Active
<1>4. /\ Cardinality(submitted) \in Nat /\ Required \in Nat
      /\ hsent[h] \in Nat /\ hreq[h] \in Nat
      /\ hsent \in [Helpers -> Nat]
  BY FS_CardinalityType, RequiredAssumption DEF IInv, BelowThreshold, TypeOK
<1>5. hsent[h] + 1 <= hreq[h] - 1 /\ hsent[h] + 1 <= Shares[h]
  BY DEF HelperSubmit, MaySubmit
<1>6. Cardinality(submitted) + hreq[h] <= Required + hsent[h]
  BY <1>3 DEF IInv, ActiveBound
<1>7. Cardinality(submitted) < Required - 1
  BY <1>4, <1>5, <1>6
<1>8. key \in Keys
  BY <1>4, <1>5, KeysOfAdmins DEF Admins
<1>9. /\ nonce' = nonce /\ results' = results /\ lastNonce' = lastNonce
      /\ Cardinality(submitted') \in Nat
      /\ Cardinality(submitted') <= Cardinality(submitted) + 1
  <2>1. nonce' = nonce /\ results' = results
        /\ Cardinality(submitted') =
             IF key \in submitted THEN Cardinality(submitted)
                                  ELSE Cardinality(submitted) + 1
    BY <1>1, <1>2, <1>4, <1>7, <1>8, SubmitCounts, IInvTypes DEF Admins
  <2>2. lastNonce' = lastNonce
    BY <1>2, <1>8, SubmitFacts, IInvTypes DEF Admins
  <2> QED
    BY <1>4, <2>1, <2>2
<1>10. ActiveBound'
  <2> SUFFICES ASSUME NEW g \in Helpers, Active(g)'
               PROVE  (Cardinality(submitted) + hreq[g] <= Required + hsent[g])'
    BY DEF ActiveBound
  <2>1. g = h
    BY <1>2 DEF Active, IInv, TurnTaking
  <2>2. hsent'[h] = hsent[h] + 1 /\ hreq' = hreq
    BY <1>2, <1>4
  <2>3. Cardinality(submitted') + hreq[h] <= Required + (hsent[h] + 1)
    BY <1>4, <1>6, <1>9
  <2> QED
    BY <2>1, <2>2, <2>3
<1>11. OwnKeysFirst'
  <2>1. MainsOperation' <=> MainsOperation
    BY <1>2, <1>9 DEF MainsOperation
  <2>2. MainsOperation => mpc \notin {"status1", "initial", "status2"}
    BY <1>3 DEF IInv, OwnKeysFirst
  <2> QED
    BY <1>2, <2>1, <2>2 DEF IInv, OwnKeysFirst
<1>12. FinalKeyIsLast'
  BY <1>2, <1>4, <1>7, <1>9
     DEF IInv, FinalKeyIsLast, MainsOperation, Left
<1>13. NoncesKnown' /\ TurnTaking' /\ FinalKeyByMain'
  BY <1>2, <1>9 DEF IInv, NoncesKnown, TurnTaking, FinalKeyByMain
<1> QED
  BY <1>9, <1>10, <1>11, <1>12, <1>13 DEF IInv, TInv

\* A helper who starts now fetches what is missing now; nobody else is at it.
LEMMA CeremonyHelperFetch ==
  ASSUME Disciplined, IInv, TInv', NEW h \in Helpers, HelperFetch(h)
  PROVE  IInv'
<1>1. /\ mpc = "wait" /\ \A g \in Helpers : hpc[g] = "idle"
      /\ UNCHANGED <<nonce, lastNonce, submitted, results, mpc, mnonce, mleft, msent>>
      /\ hpc' = [hpc EXCEPT ![h] = "confirm"]
      /\ hnonce' = [hnonce EXCEPT ![h] = nonce]
      /\ hreq' = [hreq EXCEPT ![h] = Required - Cardinality(submitted)]
      /\ hsent' = [hsent EXCEPT ![h] = 0]
  BY DEF HelperFetch, HelperRequired, HelperMayStart, Disciplined, vault, main
<1>2. /\ Cardinality(submitted) \in Nat /\ Required \in Nat
      /\ nonce \in Nat /\ lastNonce \in Nat /\ nonce <= lastNonce
      /\ hpc \in [Helpers -> {"idle", "confirm", "submit"}]
      /\ hnonce \in [Helpers -> Nat] /\ hreq \in [Helpers -> Nat]
      /\ hsent \in [Helpers -> Nat]
  BY FS_CardinalityType, RequiredAssumption DEF IInv, BelowThreshold, TypeOK
<1>3. \A g \in Helpers : hpc'[g] # "idle" => g = h
  BY <1>1, <1>2
<1>4. TurnTaking'
  BY <1>3 DEF TurnTaking
<1>5. NoncesKnown'
  BY <1>1, <1>2 DEF IInv, NoncesKnown
<1>6. ActiveBound'
  <2>1. hreq'[h] = Required - Cardinality(submitted) /\ hsent'[h] = 0
    BY <1>1, <1>2
  <2>2. Cardinality(submitted') + hreq'[h] <= Required + hsent'[h]
    BY <1>1, <1>2, <2>1
  <2> QED
    BY <1>3, <2>2 DEF ActiveBound, Active
<1>7. OwnKeysFirst' /\ FinalKeyIsLast' /\ FinalKeyByMain'
  BY <1>1 DEF IInv, OwnKeysFirst, MainsOperation, FinalKeyIsLast, FinalKeyByMain
<1> QED
  BY <1>4, <1>5, <1>6, <1>7 DEF IInv, TInv

\* A helper's other steps submit nothing and start nothing.
LEMMA CeremonyHelperReads ==
  ASSUME Disciplined, IInv, TInv', NEW h \in Helpers,
         \/ HelperAnswer(h) \/ HelperEnd(h) \/ HelperCrash(h)
         \/ HelperSubmit(h) /\ ~Accepts(hnonce[h])
  PROVE  IInv' /\ UNCHANGED vault
<1>1. /\ UNCHANGED <<nonce, lastNonce, submitted, results>>
      /\ UNCHANGED <<mpc, mnonce, mleft, msent>>
      /\ UNCHANGED <<hnonce, hreq, hsent>>
  BY DEF HelperAnswer, HelperEnd, HelperCrash, HelperSubmit, vault, main
<1>2. \A g \in Helpers : hpc'[g] # "idle" => hpc[g] # "idle"
  BY DEF HelperAnswer, HelperEnd, HelperCrash, HelperSubmit, IInv, TypeOK
<1>3. \A g \in Helpers : Active(g)' => Active(g)
  BY <1>1, <1>2 DEF Active
<1>4. NoncesKnown' /\ TurnTaking' /\ ActiveBound'
  BY <1>1, <1>2, <1>3 DEF IInv, NoncesKnown, TurnTaking, ActiveBound
<1>5. OwnKeysFirst' /\ FinalKeyIsLast' /\ FinalKeyByMain'
  BY <1>1, <1>3
     DEF IInv, OwnKeysFirst, MainsOperation, FinalKeyIsLast, Left, FinalKeyByMain
<1> QED
  BY <1>1, <1>4, <1>5 DEF IInv, TInv, vault

\* Main's next run, and operations of strangers, have nonces of their own.
LEMMA CeremonyBegins ==
  ASSUME Disciplined, IInv, TInv',
         MainCancel \/ MainBegin \/ StrangerBegins \/ VaultForgets
  PROVE  IInv' /\ results' = results
<1>1. CASE MainCancel \/ VaultForgets
  <2>1. /\ nonce' = 0 /\ UNCHANGED <<lastNonce, results, mnonce, hnonce, hpc>>
    BY <1>1 DEF MainCancel, VaultForgets, Cancel, main, helpers
  <2> QED
    BY <2>1, NoOperation DEF IInv, FinalKeyByMain, TurnTaking
<1>2. CASE StrangerBegins
  <2>1. Begin /\ UNCHANGED <<helpers, mnonce>>
    BY <1>2 DEF StrangerBegins, main
  <2> QED
    BY <2>1, FreshOperation DEF Disciplined, Begin
<1>3. CASE MainBegin
  <2>1. /\ lastNonce' = lastNonce + 1 /\ nonce' = lastNonce' /\ mnonce' = lastNonce'
        /\ submitted' = {} /\ results' = results /\ mpc' = "status1"
        /\ UNCHANGED <<hpc, hnonce, hreq, hsent>>
    BY <1>3 DEF Disciplined, MainBegin, Begin, helpers
  <2>2. \A h \in Helpers : hnonce[h] <= lastNonce /\ hnonce[h] \in Nat
    BY DEF IInv, NoncesKnown, TypeOK
  <2>3. lastNonce \in Nat
    BY DEF IInv, TypeOK
  <2>4. NoncesKnown' /\ \A h \in Helpers : ~Active(h)'
    BY <2>1, <2>2, <2>3 DEF NoncesKnown, Active
  <2>5. ActiveBound' /\ OwnKeysFirst'
    BY <2>1, <2>4 DEF ActiveBound, OwnKeysFirst
  <2> QED
    BY <2>1, <2>4, <2>5 DEF IInv, TInv, TurnTaking, FinalKeyByMain, FinalKeyIsLast
<1> QED
  BY <1>1, <1>2, <1>3

\* The steps of Main's play that are none of its submissions.
LEMMA CeremonyMainQuiet ==
  ASSUME Disciplined, IInv, TInv',
         \/ MainChecksSeal \/ MainBeginRefused \/ MainReadStatus \/ MainInitialDone
         \/ MainReadStatusAgain \/ MainSeesProgress \/ MainSeesOtherNonce
         \/ MainConfirm \/ MainCrash
         \/ MainSubmitInitial /\ ~Accepts(mnonce)
         \/ MainSubmitFinal /\ ~Accepts(mnonce)
  PROVE  IInv' /\ UNCHANGED vault
<1>1. UNCHANGED <<vault, helpers, mnonce>>
  BY DEF MainChecksSeal, MainBeginRefused, MainReadStatus, MainInitialDone,
         MainReadStatusAgain, MainSeesProgress, MainSeesOtherNonce, MainConfirm, MainCrash,
         MainSubmitInitial, MainSubmitFinal
<1> QED
  BY <1>1, CeremonyMainReads

\* The whole next-state relation keeps the invariant.
LEMMA CeremonyStep ==
  ASSUME Disciplined, IInv, [Next]_vars
  PROVE  IInv'
<1>1. TInv'
  BY IInvTypes, TypeStep
<1>2. CASE UNCHANGED vars
  BY <1>2 DEF vars, vault, main, helpers, IInv, TypeOK, BelowThreshold, NoncesKnown,
              TurnTaking, ActiveBound, Active, OwnKeysFirst, MainsOperation,
              FinalKeyByMain, FinalKeyIsLast, Left
<1>3. CASE MainStep
  BY <1>1, <1>3, CeremonyBegins, CeremonyMainQuiet, CeremonyMainInitial,
     CeremonyMainFinal DEF MainStep
<1>4. ASSUME NEW h \in Helpers, HelperFetch(h) \/ HelperStep(h) \/ HelperCrash(h)
      PROVE  IInv'
  BY <1>1, <1>4, CeremonyHelperFetch, CeremonyHelperReads, CeremonyHelperSubmit
     DEF HelperStep
<1>5. CASE StrangerBegins \/ VaultForgets \/ MainCrash
  BY <1>1, <1>5, CeremonyBegins, CeremonyMainQuiet
<1> QED
  BY <1>2, <1>3, <1>4, <1>5 DEF Next

LEMMA IInvHolds == ASSUME Disciplined PROVE Spec => []IInv
<1>1. IInv /\ [Next]_vars => IInv'
  BY CeremonyStep
<1> QED
  BY <1>1, CeremonyInit, PTL DEF Spec

\* The output of an operation goes to nobody but Main: with any number of
\* helpers holding any number of keys, through crashes, lost operations,
\* operations of strangers and unattended confirmations.
THEOREM FinalKeyIsMains == ASSUME Disciplined PROVE Spec => []FinalKeyByMain
<1>1. IInv => FinalKeyByMain
  BY DEF IInv
<1> QED
  BY <1>1, IInvHolds, PTL

\* Every output is the answer to the request Main's play registers.
THEOREM OutputIsRegistered == ASSUME Disciplined PROVE Spec => OutputRegistered
<1>1. ASSUME IInv, [Next]_vars
      PROVE  [results' # results => mpc = "final" /\ mpc' \in {"done", "confirm"}]_vars
  <2>1. TInv'
    BY <1>1, IInvTypes, TypeStep
  <2>2. CASE UNCHANGED vars
    BY <2>2
  <2>3. CASE MainStep
    BY <1>1, <2>1, <2>3, CeremonyBegins, CeremonyMainQuiet, CeremonyMainInitial,
       CeremonyMainFinal DEF MainStep, vault
  <2>4. ASSUME NEW h \in Helpers, HelperFetch(h) \/ HelperStep(h) \/ HelperCrash(h)
        PROVE  results' = results
    BY <1>1, <2>1, <2>4, CeremonyHelperReads, CeremonyHelperSubmit
       DEF HelperFetch, HelperStep, vault
  <2>5. CASE StrangerBegins \/ VaultForgets \/ MainCrash
    BY <1>1, <2>1, <2>5, CeremonyBegins, CeremonyMainQuiet DEF vault
  <2> QED
    BY <1>1, <2>2, <2>3, <2>4, <2>5 DEF Next
<1> QED
  BY <1>1, IInvHolds, PTL DEF Spec, OutputRegistered

\* When Main's play submits its final key, no other key is missing.
THEOREM FinalKeyIsTheLast == ASSUME Disciplined PROVE Spec => []FinalKeyIsLast
<1>1. IInv => FinalKeyIsLast
  BY DEF IInv
<1> QED
  BY <1>1, IInvHolds, PTL

\* The keys a helper still holds back leave the operation one key short.
THEOREM HelpersStayShort == ASSUME Disciplined PROVE Spec => []OutstandingBound
<1>1. IInv => OutstandingBound
  <2> SUFFICES ASSUME IInv, NEW h \in Helpers
               PROVE  Cardinality(submitted) + Outstanding(h) <= Required - 1
    BY DEF OutstandingBound
  <2>1. /\ Cardinality(submitted) \in Nat /\ Required \in Nat
        /\ Cardinality(submitted) < Required
        /\ hreq[h] \in Nat /\ hsent[h] \in Nat
    BY FS_CardinalityType, RequiredAssumption DEF IInv, BelowThreshold, TypeOK
  <2>2. CASE Active(h)
    BY <2>1, <2>2, AcceptsNonce
       DEF IInv, ActiveBound, Active, Outstanding, Disciplined
  <2>3. CASE ~Active(h)
    BY <2>1, <2>3, AcceptsNonce DEF Active, Outstanding, Disciplined
  <2> QED
    BY <2>2, <2>3
<1> QED
  BY <1>1, IInvHolds, PTL

(***************************************************************************)
(* The ceremony implements KeyCeremony.                                    *)
(***************************************************************************)
\* Main's submissions, and those that complete nothing, are steps of
\* KeyCeremony.
LEMMA SubmitRefines ==
  ASSUME TInv, NEW who \in Admins, NEW key \in Keys, Submit(who, key),
         nonce' = nonce \/ (who = Main /\ key[1] = Main)
  PROVE  [KC!Next]_(KC!vars)
<1>1. CASE nonce = 0
  BY <1>1 DEF Submit, Completes, vault, KC!vars
<1>2. CASE nonce # 0 /\ ~Completes(key)
  <2>1. ~(Cardinality(submitted \union {key}) >= Required)
    BY <1>2, FS_AddElement, FS_CardinalityType, RequiredAssumption
       DEF Completes, TInv, BelowThreshold
  <2>2. KC!Contribute(key)
    BY <1>2, <2>1 DEF Submit, KC!Contribute, Sufficient
  <2> QED
    BY <2>2 DEF KC!Next
<1>3. CASE nonce # 0 /\ Completes(key)
  <2>1. nonce' = 0 /\ who = Main /\ key[1] = Main
    BY <1>3 DEF Submit
  <2>2. KC!Complete(key)
    BY <1>3, <2>1 DEF Submit, Completes, KC!Complete, Sufficient, TInv, TypeOK
  <2> QED
    BY <2>2 DEF KC!Next
<1> QED
  BY <1>1, <1>2, <1>3

LEMMA CeremonyRefines ==
  ASSUME Disciplined, IInv, [Next]_vars
  PROVE  [KC!Next]_(KC!vars)
<1>1. TInv /\ TInv'
  BY IInvTypes, TypeStep
<1>2. CASE UNCHANGED vault
  BY <1>2 DEF vault, KC!vars
<1>3. CASE Begin
  BY <1>3 DEF Disciplined, Begin, KC!Open, KC!Next
<1>4. CASE Cancel
  BY <1>4 DEF Cancel, KC!Abandon, KC!Next
<1>5. CASE MainSubmitInitial /\ Accepts(mnonce)
  <2>1. Submit(Main, <<Main, msent + 1>>)
    BY <1>5 DEF MainSubmitInitial
  <2>2. <<Main, msent + 1>> \in Keys
    BY <1>1, <1>5, SharesAssumption, KeysOfAdmins
       DEF MainSubmitInitial, MayBeInitial, Admins, TInv, TypeOK
  <2> QED
    BY <1>1, <2>1, <2>2, SubmitRefines DEF Admins
<1>6. CASE MainSubmitFinal /\ Accepts(mnonce)
  <2>1. Submit(Main, LastKey) /\ LastKey[1] = Main
    BY <1>6 DEF MainSubmitFinal, LastKey
  <2> QED
    BY <1>1, <2>1, LastKeyIsKey, SubmitRefines DEF Admins
<1>7. ASSUME NEW h \in Helpers, HelperSubmit(h), Accepts(hnonce[h])
      PROVE  [KC!Next]_(KC!vars)
  <2>1. Submit(h, <<h, hsent[h] + 1>>)
    BY <1>7 DEF HelperSubmit
  <2>2. <<h, hsent[h] + 1>> \in Keys
    BY <1>1, <1>7, KeysOfAdmins
       DEF HelperSubmit, MaySubmit, Admins, TInv, TypeOK
  <2>3. nonce' = nonce
    BY <1>1, <1>7, CeremonyHelperSubmit
  <2> QED
    BY <1>1, <2>1, <2>2, <2>3, SubmitRefines DEF Admins
<1>8. CASE MainStep
  <2>1. CASE MainCancel \/ MainBegin
    BY <1>3, <1>4, <2>1 DEF MainCancel, MainBegin
  <2> QED
    BY <1>1, <1>2, <1>5, <1>6, <1>8, <2>1, CeremonyMainQuiet DEF MainStep
<1>9. ASSUME NEW h \in Helpers, HelperFetch(h) \/ HelperStep(h) \/ HelperCrash(h)
      PROVE  [KC!Next]_(KC!vars)
  BY <1>1, <1>2, <1>7, <1>9, CeremonyHelperReads DEF HelperFetch, HelperStep
<1>10. CASE StrangerBegins \/ VaultForgets \/ MainCrash \/ UNCHANGED vars
  BY <1>2, <1>3, <1>4, <1>10 DEF StrangerBegins, VaultForgets, MainCrash, vars
<1> QED
  BY <1>8, <1>9, <1>10 DEF Next

\* The roles keep what their documentation promises: everybody's requests
\* together behave like KeyCeremony, where Main alone completes an operation.
THEOREM CeremonyImplemented == ASSUME Disciplined PROVE Spec => Ceremony
<1>1. Init => KC!Init
  <2> SUFFICES ASSUME Init PROVE KC!Init
    OBVIOUS
  <2>1. nonce \in {0, 1}
    BY DEF Init
  <2>2. ~(Cardinality(submitted) >= Required)
    BY FS_CardinalityType, RequiredAssumption DEF Init
  <2> QED
    BY <2>1, <2>2 DEF Init, KC!Init, Sufficient
<1>2. IInv /\ [Next]_vars => [KC!Next]_(KC!vars)
  BY CeremonyRefines
<1> QED
  BY <1>1, <1>2, IInvHolds, PTL DEF Spec, Ceremony, KC!Spec

(***************************************************************************)
(* A colleague who compares nonces: no discipline is needed for this one,  *)
(* helpers may start whenever they like and at the same time.              *)
(***************************************************************************)
OpenedInv ==
  /\ HelperKeysOnlyForMain
  /\ mpc \notin {"idle", "begin", "failed"} => mnonce \in opened
  /\ mnonce = 0 \/ mnonce \in opened
  /\ \A h \in Helpers : /\ hpc[h] # "idle" => hnonce[h] # 0
                        /\ hpc[h] = "submit" => hnonce[h] \in opened

\* A submission adds a key to the operation in progress, or empties it.
LEMMA SubmitAdds ==
  ASSUME NEW who, NEW key, Submit(who, key)
  PROVE  submitted' = {} \/ (submitted' \subseteq submitted \union {key} /\ nonce' = nonce)
BY DEF Submit, vault

LEMMA OpenedStep ==
  ASSUME UsesNonce, ~SkipConfirmation, TypeOK, OpenedInv, [Next]_vars
  PROVE  OpenedInv'
<1> USE DEF OpenedInv, HelperKeysOnlyForMain
<1>1. CASE UNCHANGED vars
  BY <1>1 DEF vars, vault, main, helpers
<1>2. CASE MainCancel \/ MainChecksSeal \/ MainBeginRefused \/ MainReadStatus
             \/ MainInitialDone \/ MainReadStatusAgain \/ MainSeesProgress \/ MainSeesOtherNonce \/ MainConfirm
  BY <1>2 DEF MainCancel, Cancel, MainChecksSeal, MainBeginRefused, MainReadStatus, MainInitialDone,
     MainReadStatusAgain, MainSeesProgress, MainSeesOtherNonce, MainConfirm,
     vault, main, helpers
<1>3. CASE MainBegin
  BY <1>3 DEF MainBegin, Begin, helpers
<1>4. CASE MainSubmitInitial \/ MainSubmitFinal
  <2>1. /\ \/ UNCHANGED <<nonce, submitted>>
           \/ submitted' = {}
           \/ \E i : submitted' \subseteq submitted \union {<<Main, i>>} /\ nonce' = nonce
        /\ UNCHANGED <<opened, mnonce, helpers>>
        /\ mpc \in {"initial", "final"}
    BY <1>4, SubmitAdds DEF MainSubmitInitial, MainSubmitFinal, LastKey, vault
  <2> QED BY <2>1, AdminsAssumption DEF helpers
<1>5. ASSUME NEW h \in Helpers, HelperFetch(h) PROVE OpenedInv'
  BY <1>5 DEF HelperFetch, vault, main, TypeOK
<1>6. ASSUME NEW h \in Helpers, HelperAnswer(h) PROVE OpenedInv'
  <2>1. hpc'[h] = "submit" => hnonce[h] = mnonce /\ hnonce[h] # 0
    BY <1>6 DEF HelperAnswer, Agrees, TypeOK
  <2> QED BY <1>6, <2>1 DEF HelperAnswer, vault, main, TypeOK
<1>7. ASSUME NEW h \in Helpers, HelperSubmit(h) PROVE OpenedInv'
  <2>1. CASE Accepts(hnonce[h])
    <3>1. nonce \in opened
      BY <1>7, <2>1 DEF HelperSubmit, Accepts
    <3>2. submitted' = {} \/ nonce' = nonce
      BY <1>7, <2>1, SubmitAdds DEF HelperSubmit
    <3> QED BY <1>7, <2>1, <3>1, <3>2 DEF HelperSubmit, main
  <2>2. CASE ~Accepts(hnonce[h])
    BY <1>7, <2>2 DEF HelperSubmit, vault, main, TypeOK
  <2> QED BY <2>1, <2>2
<1>8. ASSUME NEW h \in Helpers, HelperEnd(h) \/ HelperCrash(h) PROVE OpenedInv'
  BY <1>8 DEF HelperEnd, HelperCrash, vault, main, TypeOK
<1>9. CASE StrangerBegins \/ VaultForgets \/ MainCrash
  BY <1>9 DEF StrangerBegins, Begin, VaultForgets, Cancel, MainCrash, vault, main, helpers
<1> QED
  BY <1>1, <1>2, <1>3, <1>4, <1>5, <1>6, <1>7, <1>8, <1>9 DEF Next, MainStep, HelperStep

\* With nonces that are compared, helpers' keys get into Main's operations only,
\* however stale what they fetched, through crashes and operations of strangers.
THEOREM HelperKeysAreForMain ==
  ASSUME UsesNonce, ~SkipConfirmation
  PROVE  Spec => []HelperKeysOnlyForMain
<1>1. Init => OpenedInv
  BY DEF Init, OpenedInv, HelperKeysOnlyForMain
<1>2. TypeOK /\ OpenedInv /\ [Next]_vars => OpenedInv'
  BY OpenedStep
<1>3. OpenedInv => HelperKeysOnlyForMain
  BY DEF OpenedInv
<1> QED BY <1>1, <1>2, <1>3, TypeCorrect, PTL DEF Spec
================================================================================
