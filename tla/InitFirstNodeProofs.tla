-------------------------- MODULE InitFirstNodeProofs --------------------------
(***************************************************************************)
(* Proofs about InitFirstNode, for any number of hosts and of playbooks at *)
(* once, and any limits.                                                   *)
(*                                                                         *)
(* That a cluster in use has no root token follows from the path its key   *)
(* file takes: a playbook that is about to rekey has revoked the token, so *)
(* the clusters rekeyed have none (NoneRooted); a playbook that is about   *)
(* to save has rekeyed; files are of rekeyed clusters, and only clusters   *)
(* that files open get into use.  No later initialisation brings a token   *)
(* back, since each makes a cluster that was not there before.             *)
(***************************************************************************)
EXTENDS InitFirstNode, FiniteSetTheorems, TLAPS

FilesOfRekeyed == \A h \in Hosts : files[h] \in rekeyed \cup {0}
NoneRooted == rekeyed \cap rooted = {}
RevokedFirst == \A p \in Plays : pc[p] = "rekey" => mine[p] \in (1..made) \ rooted
RekeyedFirst == \A p \in Plays : pc[p] = "save" => mine[p] \in rekeyed

\* The inductive invariant.
IInv ==
  /\ TypeOK
  /\ FilesOfRekeyed /\ NoneRooted /\ RevokedFirst /\ RekeyedFirst

LEMMA InitIInv == Init => IInv
<1> SUFFICES ASSUME Init PROVE IInv
  OBVIOUS
<1> USE DEF Init
<1>1. TypeOK
  BY HostsAssumption, BoundsAssumption DEF TypeOK, Answering, Hosts, Steps
<1>2. FilesOfRekeyed /\ NoneRooted /\ RevokedFirst /\ RekeyedFirst
  BY DEF FilesOfRekeyed, NoneRooted, RevokedFirst, RekeyedFirst
<1> QED  BY <1>1, <1>2 DEF IInv

\* Where a play goes.
LEMMA Goes ==
  ASSUME pc \in [Plays -> Steps], NEW p \in Plays, NEW s \in Steps, pc' = [pc EXCEPT ![p] = s]
  PROVE  /\ pc' \in [Plays -> Steps]
         /\ pc'[p] = s
         /\ \A q \in Plays \ {p} : pc'[q] = pc[q]
OBVIOUS

LEMMA GoesElsewhere ==
  ASSUME IInv, NEW p \in Plays, NEW s \in Steps, s # "rekey", s # "save",
         pc' = [pc EXCEPT ![p] = s]
  PROVE  /\ pc' \in [Plays -> Steps]
         /\ \A q \in Plays : pc'[q] \in {"rekey", "save"} => pc'[q] = pc[q]
<1>1. pc \in [Plays -> Steps]
  BY DEF IInv, TypeOK
<1> QED  BY <1>1, Goes DEF Steps

\* Where a play goes after a task of the block.
LEMMA AnsweredGoes ==
  ASSUME IInv, NEW p \in Plays, NEW next \in Steps,
         pc' = [pc EXCEPT ![p] = next] \/ pc' = [pc EXCEPT ![p] = "stop"]
  PROVE  /\ pc' \in [Plays -> Steps]
         /\ \A q \in Plays \ {p} : pc'[q] = pc[q]
         /\ pc'[p] = next \/ pc'[p] = "stop"
<1>1. pc \in [Plays -> Steps]
  BY DEF IInv, TypeOK
<1> QED  BY <1>1, Goes DEF Steps

\* Steps that leave Vault's keys and tokens, the files and the plays' clusters alone
\* and lead no play to a rekeying or a saving.
LEMMA OtherStep ==
  ASSUME IInv, TypeOK', pc' \in [Plays -> Steps],
         UNCHANGED <<made, rekeyed, rooted, files, mine>>,
         \A p \in Plays : pc'[p] \in {"rekey", "save"} => pc'[p] = pc[p]
  PROVE  IInv'
BY DEF IInv, FilesOfRekeyed, NoneRooted, RevokedFirst, RekeyedFirst

LEMMA BeginStep ==
  ASSUME IInv, NEW p \in Plays, Begin(p)  PROVE IInv'
<1>1. /\ pc' \in [Plays -> Steps]
      /\ \A q \in Plays : pc'[q] \in {"rekey", "save"} => pc'[q] = pc[q]
  BY GoesElsewhere DEF Begin, Goto, Steps
<1>2. TypeOK'
  BY <1>1, HostsAssumption DEF IInv, TypeOK, Begin, Goto, Answering
<1> QED  BY <1>2, <1>1, OtherStep DEF Begin

LEMMA CountStep ==
  ASSUME IInv, NEW p \in Plays, Count(p)  PROVE IInv'
<1> DEFINE known == hosts[p] \cap Answering
<1>1. \/ Goto(p, "ended") \/ Goto(p, "using") \/ Goto(p, "init")
  BY DEF Count
<1>2. /\ pc' \in [Plays -> Steps]
      /\ \A q \in Plays : pc'[q] \in {"rekey", "save"} => pc'[q] = pc[q]
  BY <1>1, GoesElsewhere DEF Goto, Steps
<1>3. TypeOK'
  BY <1>2 DEF IInv, TypeOK, Count, vault, Answering
<1> QED  BY <1>3, <1>2, OtherStep DEF Count, vault

LEMMA InitServerStep ==
  ASSUME IInv, NEW p \in Plays, InitServer(p)  PROVE IInv'
<1>1. made' = made + 1 /\ made \in Nat /\ made' \in 0..MaxMade
  BY BoundsAssumption DEF IInv, InitServer, TypeOK
<1>2. /\ pc' \in [Plays -> Steps]
      /\ \A q \in Plays \ {p} : pc'[q] = pc[q]
      /\ pc'[p] = "unseal" \/ pc'[p] = "stop"
  BY AnsweredGoes DEF InitServer, Answered, Rescued, Goto, Steps
<1>3. TypeOK'
  <2>1. 0..made \subseteq 0..made' /\ 1..made \subseteq 1..made' /\ made' \in 0..made' \cap 1..made'
    BY <1>1
  <2>2. data' \in [Hosts -> 0..made'] /\ files' \in [Hosts -> 0..made']
    BY <2>1 DEF IInv, InitServer, TypeOK
  <2>3. mine' \in [Plays -> 0..made']
    BY <2>1 DEF IInv, InitServer, TypeOK
  <2>4. rekeyed' \subseteq 1..made' /\ rooted' \subseteq 1..made'
    BY <2>1 DEF IInv, InitServer, TypeOK
  <2> QED  BY <1>1, <1>2, <2>2, <2>3, <2>4 DEF IInv, InitServer, TypeOK, Answering
<1>4. rooted' = rooted \cup {made + 1} /\ made + 1 \notin 1..made
  BY <1>1 DEF IInv, InitServer
<1>5. FilesOfRekeyed' /\ NoneRooted'
  BY <1>4 DEF IInv, InitServer, FilesOfRekeyed, NoneRooted, TypeOK
<1>6. \A q \in Plays \ {p} : mine'[q] = mine[q]
  BY DEF IInv, InitServer, TypeOK
<1>7. RevokedFirst'
  BY <1>1, <1>2, <1>4, <1>6 DEF IInv, RevokedFirst
<1>8. RekeyedFirst'
  BY <1>2, <1>6 DEF IInv, RekeyedFirst, InitServer
<1> QED  BY <1>3, <1>2, <1>5, <1>7, <1>8 DEF IInv

LEMMA UnsealStep ==
  ASSUME IInv, NEW p \in Plays, Unseal(p)  PROVE IInv'
<1>1. /\ pc' \in [Plays -> Steps]
      /\ \A q \in Plays \ {p} : pc'[q] = pc[q]
      /\ pc'[p] = "revoke" \/ pc'[p] = "stop"
  BY AnsweredGoes DEF Unseal, Answered, Rescued, Goto, Steps
<1>2. TypeOK'
  BY <1>1 DEF IInv, TypeOK, Unseal, Possible, Answering
<1>3. \A q \in Plays : pc'[q] \in {"rekey", "save"} => pc'[q] = pc[q]
  BY <1>1
<1> QED  BY <1>2, <1>1, <1>3, OtherStep DEF Unseal

LEMMA RevokeStep ==
  ASSUME IInv, NEW p \in Plays, Revoke(p)  PROVE IInv'
<1>1. /\ pc' \in [Plays -> Steps]
      /\ \A q \in Plays \ {p} : pc'[q] = pc[q]
      /\ pc'[p] = "rekey" \/ pc'[p] = "stop"
  BY AnsweredGoes DEF Revoke, Answered, Rescued, Goto, Steps
<1>2. TypeOK'
  BY <1>1 DEF IInv, TypeOK, Revoke, Answering
<1>3. FilesOfRekeyed' /\ NoneRooted'
  BY DEF IInv, Revoke, FilesOfRekeyed, NoneRooted
<1>4. mine[p] \in rooted /\ rooted \subseteq 1..made
  BY DEF IInv, Revoke, Possible, TypeOK
<1>5. RevokedFirst'
  BY <1>1, <1>4 DEF IInv, RevokedFirst, Revoke
<1>6. RekeyedFirst'
  BY <1>1 DEF IInv, RekeyedFirst, Revoke
<1> QED  BY <1>2, <1>1, <1>3, <1>5, <1>6 DEF IInv

LEMMA RekeyStep ==
  ASSUME IInv, NEW p \in Plays, Rekey(p)  PROVE IInv'
<1>1. mine[p] \in (1..made) \ rooted
  BY DEF IInv, Rekey, RevokedFirst
<1>2. /\ pc' \in [Plays -> Steps]
      /\ \A q \in Plays \ {p} : pc'[q] = pc[q]
      /\ pc'[p] = "save" \/ pc'[p] = "stop"
  BY AnsweredGoes DEF Rekey, Answered, Rescued, Goto, Steps
<1>3. TypeOK'
  BY <1>1, <1>2 DEF IInv, TypeOK, Rekey, Answering
<1>4. FilesOfRekeyed' /\ NoneRooted'
  BY <1>1 DEF IInv, Rekey, FilesOfRekeyed, NoneRooted
<1>5. RevokedFirst' /\ RekeyedFirst'
  BY <1>2 DEF IInv, RevokedFirst, RekeyedFirst, Rekey
<1> QED  BY <1>3, <1>2, <1>4, <1>5 DEF IInv

LEMMA SaveStep ==
  ASSUME IInv, NEW p \in Plays, Save(p)  PROVE IInv'
<1>1. mine[p] \in rekeyed /\ mine[p] \in 0..made
  BY DEF IInv, Save, RekeyedFirst, TypeOK
<1>2. PICK done \in SUBSET hosts[p] :
        files' = [h \in Hosts |-> IF h \in done THEN mine[p] ELSE files[h]]
  BY DEF IInv, Save
<1>3. Goto(p, "using") \/ Goto(p, "stop")
  BY DEF IInv, Save, Rescued
<1>4. /\ pc' \in [Plays -> Steps]
      /\ \A q \in Plays : pc'[q] \in {"rekey", "save"} => pc'[q] = pc[q]
  BY <1>3, GoesElsewhere DEF Goto, Steps
<1>5. TypeOK'
  BY <1>4, <1>1, <1>2 DEF IInv, TypeOK, Save, vault, Answering
<1>6. FilesOfRekeyed' /\ NoneRooted'
  BY <1>1, <1>2 DEF IInv, FilesOfRekeyed, NoneRooted, Save, vault
<1>7. RevokedFirst' /\ RekeyedFirst'
  BY <1>4 DEF IInv, RevokedFirst, RekeyedFirst, Save, vault
<1> QED  BY <1>5, <1>4, <1>6, <1>7 DEF IInv

LEMMA FailStep ==
  ASSUME IInv, NEW p \in Plays, Fail(p)  PROVE IInv'
<1>1. /\ pc' \in [Plays -> Steps]
      /\ \A q \in Plays : pc'[q] \in {"rekey", "save"} => pc'[q] = pc[q]
  BY GoesElsewhere DEF Fail, Rescued, Goto, Steps
<1>2. TypeOK'
  BY <1>1 DEF IInv, TypeOK, Fail, vault, Answering
<1> QED  BY <1>2, <1>1, OtherStep DEF Fail, vault

LEMMA StopStep ==
  ASSUME IInv, NEW p \in Plays, Stop(p)  PROVE IInv'
<1>1. /\ pc' \in [Plays -> Steps]
      /\ \A q \in Plays : pc'[q] \in {"rekey", "save"} => pc'[q] = pc[q]
  BY GoesElsewhere DEF Stop, Goto, Steps
<1>2. TypeOK'
  BY <1>1 DEF IInv, TypeOK, Stop, Deleted, Answering
<1> QED  BY <1>2, <1>1, OtherStep DEF Stop

\* A function keeps its type when one of its values is replaced.
LEMMA Overridden ==
  ASSUME NEW D, NEW S, NEW f \in [D -> S], NEW x, NEW y \in S
  PROVE  [f EXCEPT ![x] = y] \in [D -> S]
OBVIOUS

LEMMA DeleteStep ==
  ASSUME IInv, NEW p \in Plays, Delete(p)  PROVE IInv'
<1>1. PICK h \in left[p] :
        /\ data' = [data EXCEPT ![h] = 0]
        /\ left' = [left EXCEPT ![p] = @ \ {h}]
        /\ IF left[p] = {h} THEN Goto(p, "start") ELSE UNCHANGED pc
  BY DEF Delete
<1>2. /\ pc' \in [Plays -> Steps]
      /\ \A q \in Plays : pc'[q] \in {"rekey", "save"} => pc'[q] = pc[q]
  <2>1. CASE Goto(p, "start")
    BY <2>1, GoesElsewhere DEF Goto, Steps
  <2>2. CASE UNCHANGED pc
    BY <2>2 DEF IInv, TypeOK
  <2> QED  BY <2>1, <2>2, <1>1
<1>3. TypeOK'
  <2>1. left[p] \subseteq Hosts
    BY DEF IInv, TypeOK
  <2>2. data' \in [Hosts -> 0..made]
    <3>1. 0 \in 0..made
      BY BoundsAssumption DEF IInv, TypeOK
    <3>2. data \in [Hosts -> 0..made]
      BY DEF IInv, TypeOK
    <3>3. [data EXCEPT ![h] = 0] \in [Hosts -> 0..made]
      BY <3>1, <3>2, Overridden
    <3> QED  BY <3>3, <1>1
  <2>3. left' \in [Plays -> SUBSET Hosts]
    BY <2>1, <1>1 DEF IInv, TypeOK
  <2> QED  BY <2>2, <2>3, <1>2 DEF IInv, TypeOK, Delete, Answering
<1> QED  BY <1>3, <1>2, OtherStep DEF Delete

LEMMA StartStep ==
  ASSUME IInv, NEW p \in Plays, Start(p)  PROVE IInv'
<1>1. /\ pc' \in [Plays -> Steps]
      /\ \A q \in Plays : pc'[q] \in {"rekey", "save"} => pc'[q] = pc[q]
  BY GoesElsewhere DEF Start, Goto, Steps
<1>2. TypeOK'
  BY <1>1 DEF IInv, TypeOK, Start, Answering
<1> QED  BY <1>2, <1>1, OtherStep DEF Start

LEMMA ContinueStep ==
  ASSUME IInv, NEW p \in Plays, Continue(p)  PROVE IInv'
<1>1. PICK c \in Fetched(p) :
        /\ unsealed' = unsealed \cup {h \in hosts[p] \cap Answering : data[h] = c}
        /\ inUse' = inUse \cup {c}
  BY DEF IInv, Continue
<1>2. c \in rekeyed
  BY DEF IInv, Fetched, FilesOfRekeyed, TypeOK
<1>3. /\ pc' \in [Plays -> Steps]
      /\ \A q \in Plays : pc'[q] \in {"rekey", "save"} => pc'[q] = pc[q]
  BY GoesElsewhere DEF Continue, Goto, Steps
<1>4. TypeOK'
  BY <1>3, <1>1, <1>2 DEF IInv, TypeOK, Continue, Answering
<1> QED  BY <1>4, <1>3, OtherStep DEF Continue

LEMMA EndStep ==
  ASSUME IInv, NEW p \in Plays, GiveUp(p) \/ Cut(p)  PROVE IInv'
<1>1. /\ pc' \in [Plays -> Steps]
      /\ \A q \in Plays : pc'[q] \in {"rekey", "save"} => pc'[q] = pc[q]
  BY GoesElsewhere DEF GiveUp, Cut, Goto, Steps
<1>2. TypeOK'
  BY <1>1 DEF IInv, TypeOK, GiveUp, Cut, vault, Answering
<1> QED  BY <1>2, <1>1, OtherStep DEF GiveUp, Cut, vault

LEMMA HostStep ==
  ASSUME IInv, NEW h \in Hosts, Join(h) \/ HostDown(h) \/ HostUp(h)  PROVE IInv'
<1>1. TypeOK'
  <2>1. CASE Join(h)
    BY <2>1 DEF IInv, TypeOK, Join, play, Answering
  <2>2. CASE HostDown(h)
    BY <2>2 DEF IInv, TypeOK, HostDown, play, Answering
  <2>3. CASE HostUp(h)
    BY <2>3 DEF IInv, TypeOK, HostUp, play, Answering
  <2> QED  BY <2>1, <2>2, <2>3
<1>2. UNCHANGED <<made, rekeyed, rooted, files, mine, pc>>
  BY DEF Join, HostDown, HostUp, play
<1> QED  BY <1>1, <1>2, OtherStep DEF IInv, TypeOK

LEMMA NextIInv == IInv /\ [Next]_vars => IInv'
<1> SUFFICES ASSUME IInv, [Next]_vars PROVE IInv'
  OBVIOUS
<1>1. ASSUME NEW p \in Plays, Runs(p) \/ Cut(p) PROVE IInv'
  BY <1>1, BeginStep, CountStep, InitServerStep, UnsealStep, RevokeStep, RekeyStep, SaveStep,
     FailStep, StopStep, DeleteStep, StartStep, ContinueStep, EndStep DEF Runs
<1>2. ASSUME NEW h \in Hosts, Join(h) \/ HostDown(h) \/ HostUp(h) PROVE IInv'
  BY <1>2, HostStep
<1>3. CASE UNCHANGED vars
  BY <1>3 DEF vars, vault, play, IInv, TypeOK, Answering, FilesOfRekeyed, NoneRooted,
     RevokedFirst, RekeyedFirst
<1> QED  BY <1>1, <1>2, <1>3 DEF Next

\* The variables have their types, and only clusters with the administrators' keys
\* get into use.
THEOREM TypeCorrect == Spec => []TypeOK
<1>1. Spec => []IInv
  BY InitIInv, NextIInv, PTL DEF Spec
<1>2. IInv => TypeOK
  BY DEF IInv
<1> QED  BY <1>1, <1>2, PTL

\* Whatever playbooks do at the same time, and wherever they fail or are killed,
\* nothing is stored in a cluster that has the root token of its initialisation.
THEOREM TokenGoneBeforeUse == Spec => []NoRootTokenInUse
<1>1. Spec => []IInv
  BY InitIInv, NextIInv, PTL DEF Spec
<1>2. IInv => NoRootTokenInUse
  BY DEF IInv, TypeOK, NoneRooted, NoRootTokenInUse
<1> QED  BY <1>1, <1>2, PTL

(***************************************************************************)
(* One playbook at a time, the check that all hosts were counted on: what  *)
(* it initialises is the only cluster there is, and all it deletes is what *)
(* it initialised.                                                         *)
(***************************************************************************)
Alone == \A p, q \in Plays : p = q

OneCluster == \A h, k \in Initialised(Hosts) : data[h] = data[k]

\* A play initialises when no host is initialised.  From then on there is its
\* cluster alone, and nothing in it; as it deletes, no host is left to join.
OnlyItsOwn(p) ==
  /\ pc[p] = "init" => \A h \in Hosts : data[h] = 0
  /\ pc[p] = "init" \/ Initialising(p) => hosts[p] = Hosts /\ inUse = {}
  /\ Initialising(p) => \A h \in Hosts : data[h] \in {0, mine[p]}
  /\ pc[p] = "delete" => stopped = Hosts /\ \A h \in Hosts \ left[p] : data[h] = 0

UsedIsThere == \A c \in inUse : \E h \in Hosts : data[h] = c

AloneInv ==
  /\ OneCluster /\ UsedIsThere /\ DeletedUnlessSavedIfUncut /\ cuts \in Nat
  /\ \A p \in Plays : OnlyItsOwn(p)

LEMMA AloneInit == Init => AloneInv
  BY DEF Init, AloneInv, OneCluster, UsedIsThere, DeletedUnlessSavedIfUncut, OnlyItsOwn,
         Initialised, Initialising

\* A step that initialises, deletes and saves nothing keeps it, if the play that takes it
\* gives up nothing that is its own to delete.
LEMMA NothingMade ==
  ASSUME Alone, AloneInv, NEW p \in Plays, OnlyItsOwn(p)',
         UNCHANGED <<data, files, rekeyed, inUse, cuts>>,
         Initialising(p) => Initialising(p)'
  PROVE  AloneInv'
  BY DEF Alone, AloneInv, OneCluster, UsedIsThere, DeletedUnlessSavedIfUncut, Initialised,
         Saved

\* While a play initialises, the promise to delete is still to be kept.
LEMMA NotYetOver ==
  ASSUME Alone, NEW p \in Plays, Initialising(p)', OneCluster', UsedIsThere', OnlyItsOwn(p)',
         cuts' \in Nat
  PROVE  AloneInv'
  BY DEF Alone, AloneInv, DeletedUnlessSavedIfUncut

LEMMA BeginAlone ==
  ASSUME IInv, Alone, AloneInv, NEW p \in Plays, Begin(p)  PROVE AloneInv'
<1>1. pc'[p] = "count" /\ pc[p] \in {"out", "ended"}
  BY DEF Begin, Goto, IInv, TypeOK
<1>2. OnlyItsOwn(p)' /\ ~Initialising(p)
  BY <1>1 DEF OnlyItsOwn, Initialising
<1> QED  BY <1>2, NothingMade DEF Begin

LEMMA CountAlone ==
  ASSUME SkipCheck = FALSE, IInv, Alone, AloneInv, NEW p \in Plays, Count(p)  PROVE AloneInv'
<1>1. pc[p] = "count" /\ UNCHANGED <<data, files, rekeyed, inUse, cuts, mine, stopped, left>>
  BY DEF Count, vault
<1>2. CASE pc'[p] \in {"ended", "using"}
  <2>1. OnlyItsOwn(p)' /\ ~Initialising(p)
    BY <1>1, <1>2 DEF OnlyItsOwn, Initialising
  <2> QED  BY <1>1, <2>1, NothingMade
<1>3. CASE pc'[p] \notin {"ended", "using"}
  <2> DEFINE known == hosts[p] \cap Answering
  <2>1. pc'[p] = "init" /\ hosts'[p] = known /\ NoneInitialised(known) /\ AllCounted(known)
    BY <1>3 DEF Count, Goto, IInv, TypeOK
  <2>2. hosts'[p] = Hosts /\ \A h \in Hosts : data[h] = 0
    BY <2>1 DEF NoneInitialised, AllCounted, Initialised
  <2>3. inUse = {}
    <3>1. \A c \in inUse : c # 0
      BY DEF IInv, TypeOK
    <3> QED  BY <2>2, <3>1 DEF AloneInv, UsedIsThere
  <2>4. OnlyItsOwn(p)' /\ ~Initialising(p)
    BY <1>1, <2>1, <2>2, <2>3 DEF OnlyItsOwn, Initialising
  <2> QED  BY <1>1, <2>4, NothingMade
<1> QED  BY <1>2, <1>3

LEMMA InitServerAlone ==
  ASSUME IInv, Alone, AloneInv, NEW p \in Plays, InitServer(p)  PROVE AloneInv'
<1>1. /\ \A h \in Hosts : data[h] = 0 /\ data'[h] \in {0, made'}
      /\ mine'[p] = made'
      /\ hosts'[p] = Hosts /\ inUse' = {}
      /\ UNCHANGED cuts
  BY DEF InitServer, IInv, TypeOK, AloneInv, OnlyItsOwn
<1>2. pc'[p] = "unseal" \/ pc'[p] = "stop"
  BY DEF InitServer, Answered, Rescued, Goto, IInv, TypeOK
<1>3. OnlyItsOwn(p)' /\ Initialising(p)' /\ OneCluster' /\ UsedIsThere'
  BY <1>1, <1>2 DEF OnlyItsOwn, Initialising, OneCluster, Initialised, UsedIsThere
<1> QED  BY <1>1, <1>3, NotYetOver DEF AloneInv

\* The tasks of the block between the initialisation and the saving of the keys.
LEMMA BlockAlone ==
  ASSUME IInv, Alone, AloneInv, NEW p \in Plays,
         Unseal(p) \/ Revoke(p) \/ Rekey(p) \/ Fail(p)
  PROVE  AloneInv'
<1>1. /\ pc[p] \in {"init", "unseal", "revoke", "rekey"}
      /\ pc'[p] \in {"revoke", "rekey", "save", "stop"}
      /\ UNCHANGED <<data, inUse, hosts, mine, stopped, left, cuts>>
  BY DEF Unseal, Revoke, Rekey, Fail, Answered, Rescued, Goto, IInv, TypeOK, vault
<1>2. OnlyItsOwn(p)' /\ Initialising(p)'
  BY <1>1 DEF AloneInv, OnlyItsOwn, Initialising
<1>3. OneCluster' /\ UsedIsThere'
  BY <1>1 DEF AloneInv, OneCluster, UsedIsThere, Initialised
<1> QED  BY <1>1, <1>2, <1>3, NotYetOver DEF AloneInv

\* Keys that are on all hosts are saved; otherwise all is still to be deleted.
LEMMA SaveAlone ==
  ASSUME IInv, Alone, AloneInv, NEW p \in Plays, Save(p)  PROVE AloneInv'
<1>1. /\ pc[p] = "save" /\ hosts[p] = Hosts /\ inUse = {}
      /\ \A h \in Hosts : data[h] \in {0, mine[p]}
      /\ UNCHANGED <<data, rekeyed, stopped, inUse, hosts, left, mine, cuts>>
  BY DEF Save, vault, AloneInv, OnlyItsOwn, Initialising
<1>2. OneCluster' /\ UsedIsThere'
  BY <1>1 DEF AloneInv, OneCluster, UsedIsThere, Initialised
<1>3. CASE pc'[p] = "using"
  <2>1. \A h \in Hosts : files'[h] = mine[p]
    BY <1>1, <1>3 DEF Save, Goto, Rescued, IInv, TypeOK
  <2>2. mine[p] \in rekeyed
    BY <1>1 DEF IInv, RekeyedFirst
  <2>3. DeletedUnlessSavedIfUncut'
    BY <1>1, <2>1, <2>2 DEF DeletedUnlessSavedIfUncut, Saved, Initialised
  <2>4. OnlyItsOwn(p)'
    BY <1>3 DEF OnlyItsOwn, Initialising
  <2> QED  BY <1>1, <1>2, <2>3, <2>4 DEF Alone, AloneInv
<1>4. CASE pc'[p] # "using"
  <2>1. pc'[p] = "stop"
    BY <1>4 DEF Save, Goto, Rescued, IInv, TypeOK
  <2>2. OnlyItsOwn(p)' /\ Initialising(p)'
    BY <1>1, <2>1 DEF OnlyItsOwn, Initialising
  <2> QED  BY <1>1, <1>2, <2>2, NotYetOver DEF AloneInv
<1> QED  BY <1>3, <1>4

\* The rescue section: every host is stopped, then every host's data deleted.
LEMMA StopAlone ==
  ASSUME IInv, Alone, AloneInv, NEW p \in Plays, Stop(p)  PROVE AloneInv'
<1>1. /\ pc[p] = "stop" /\ hosts[p] = Hosts /\ inUse = {}
      /\ \A h \in Hosts : data[h] \in {0, mine[p]}
      /\ pc'[p] = "delete" /\ left'[p] = Hosts /\ stopped' = Hosts
      /\ UNCHANGED <<data, inUse, hosts, mine, cuts>>
  BY DEF Stop, Deleted, Goto, AloneInv, OnlyItsOwn, Initialising, IInv, TypeOK
<1>2. OnlyItsOwn(p)' /\ Initialising(p)' /\ OneCluster' /\ UsedIsThere'
  BY <1>1 DEF OnlyItsOwn, Initialising, OneCluster, UsedIsThere, Initialised
<1> QED  BY <1>1, <1>2, NotYetOver DEF AloneInv

LEMMA DeleteAlone ==
  ASSUME IInv, Alone, AloneInv, NEW p \in Plays, Delete(p)  PROVE AloneInv'
<1>1. PICK h \in left[p] :
        /\ data' = [data EXCEPT ![h] = 0]
        /\ left' = [left EXCEPT ![p] = @ \ {h}]
        /\ IF left[p] = {h} THEN Goto(p, "start") ELSE UNCHANGED pc
  BY DEF Delete
<1>2. /\ pc[p] = "delete" /\ hosts[p] = Hosts /\ inUse = {} /\ stopped = Hosts
      /\ \A k \in Hosts : data[k] \in {0, mine[p]}
      /\ \A k \in Hosts \ left[p] : data[k] = 0
      /\ UNCHANGED <<stopped, inUse, hosts, mine, cuts>>
  BY DEF Delete, AloneInv, OnlyItsOwn, Initialising
<1>3. /\ \A k \in Hosts : data'[k] \in {0, mine[p]}
      /\ \A k \in Hosts \ left'[p] : data'[k] = 0
  BY <1>1, <1>2 DEF IInv, TypeOK
<1>4. OneCluster' /\ UsedIsThere'
  BY <1>2, <1>3 DEF OneCluster, UsedIsThere, Initialised
<1>5. CASE left[p] = {h}
  <2>1. pc'[p] = "start" /\ left'[p] = {}
    BY <1>1, <1>5 DEF Goto, IInv, TypeOK
  <2>2. OnlyItsOwn(p)' /\ DeletedUnlessSavedIfUncut'
    BY <1>3, <2>1 DEF OnlyItsOwn, Initialising, DeletedUnlessSavedIfUncut, Initialised
  <2> QED  BY <1>2, <1>4, <2>2 DEF Alone, AloneInv
<1>6. CASE left[p] # {h}
  <2>1. OnlyItsOwn(p)' /\ Initialising(p)'
    BY <1>1, <1>2, <1>3, <1>6 DEF OnlyItsOwn, Initialising
  <2> QED  BY <1>2, <1>4, <2>1, NotYetOver DEF AloneInv
<1> QED  BY <1>5, <1>6

\* A playbook ends, killed or not, or gets a cluster into use that is there.
LEMMA EndAlone ==
  ASSUME IInv, Alone, AloneInv, NEW p \in Plays,
         Start(p) \/ Continue(p) \/ GiveUp(p) \/ Cut(p)
  PROVE  AloneInv'
<1>1. pc'[p] = "ended" /\ UNCHANGED <<data, files, rekeyed>>
  BY DEF Start, Continue, GiveUp, Cut, Goto, IInv, TypeOK, vault
<1>2. OnlyItsOwn(p)' /\ OneCluster'
  BY <1>1 DEF AloneInv, OnlyItsOwn, Initialising, OneCluster, Initialised
<1>3. UsedIsThere'
  <2>1. CASE Continue(p)
    BY <1>1, <2>1 DEF Continue, Opens, AloneInv, UsedIsThere, IInv, TypeOK
  <2>2. CASE Start(p) \/ GiveUp(p) \/ Cut(p)
    BY <1>1, <2>2 DEF Start, GiveUp, Cut, AloneInv, UsedIsThere
  <2> QED  BY <2>1, <2>2
<1>4. DeletedUnlessSavedIfUncut' /\ cuts' \in Nat
  <2>1. CASE Cut(p)
    BY <2>1 DEF Cut, AloneInv, DeletedUnlessSavedIfUncut
  <2>2. CASE Start(p) \/ Continue(p) \/ GiveUp(p)
    <3>1. ~Initialising(p) /\ UNCHANGED cuts
      BY <2>2 DEF Start, Continue, GiveUp, Initialising
    <3> QED  BY <1>1, <3>1
             DEF Alone, AloneInv, DeletedUnlessSavedIfUncut, Initialised, Saved
  <2> QED  BY <2>1, <2>2
<1> QED  BY <1>2, <1>3, <1>4 DEF Alone, AloneInv

\* A server joins the cluster there is; none is left to join one that is being deleted.
LEMMA HostAlone ==
  ASSUME IInv, Alone, AloneInv, NEW h \in Hosts, Join(h) \/ HostDown(h) \/ HostUp(h)
  PROVE  AloneInv'
<1>1. CASE Join(h)
  <2>1. PICK g \in unsealed \cap Answering : data' = [data EXCEPT ![h] = data[g]]
    BY <1>1 DEF Join
  <2>2. /\ g \in Hosts /\ g \notin stopped /\ data[h] = 0
        /\ UNCHANGED <<stopped, rekeyed, files, inUse, pc, hosts, left, mine, cuts>>
    BY <1>1 DEF Join, play, Answering
  <2>3. \A k \in Hosts : data'[k] = IF k = h THEN data[g] ELSE data[k]
    BY <2>1 DEF IInv, TypeOK
  <2>4. OneCluster'
    BY <2>2, <2>3 DEF AloneInv, OneCluster, Initialised
  <2>5. UsedIsThere'
    <3>1. \A c \in inUse : c # 0
      BY DEF IInv, TypeOK
    <3> QED  BY <2>2, <2>3, <3>1 DEF AloneInv, UsedIsThere
  <2>6. ASSUME NEW p \in Plays PROVE OnlyItsOwn(p)'
    BY <2>2, <2>3 DEF AloneInv, OnlyItsOwn, Initialising
  <2>7. DeletedUnlessSavedIfUncut'
    BY <2>2, <2>3 DEF AloneInv, DeletedUnlessSavedIfUncut, Initialised, Initialising, Saved
  <2> QED  BY <2>2, <2>4, <2>5, <2>6, <2>7 DEF AloneInv
<1>2. CASE HostDown(h) \/ HostUp(h)
  <2>1. UNCHANGED <<data, stopped, rekeyed, files, inUse, pc, hosts, left, mine, cuts>>
    BY <1>2 DEF HostDown, HostUp, play
  <2> QED  BY <2>1 DEF AloneInv, OneCluster, UsedIsThere, OnlyItsOwn, Initialised,
              Initialising, DeletedUnlessSavedIfUncut, Saved
<1> QED  BY <1>1, <1>2

LEMMA AloneStep ==
  ASSUME SkipCheck = FALSE, Alone, IInv, AloneInv, [Next]_vars  PROVE AloneInv'
<1>1. ASSUME NEW p \in Plays, Runs(p) \/ Cut(p) PROVE AloneInv'
  BY <1>1, BeginAlone, CountAlone, InitServerAlone, BlockAlone, SaveAlone, StopAlone,
     DeleteAlone, EndAlone DEF Runs
<1>2. ASSUME NEW h \in Hosts, Join(h) \/ HostDown(h) \/ HostUp(h) PROVE AloneInv'
  BY <1>2, HostAlone
<1>3. CASE UNCHANGED vars
  BY <1>3 DEF vars, vault, play, AloneInv, OneCluster, UsedIsThere, OnlyItsOwn, Initialised,
     Initialising, DeletedUnlessSavedIfUncut, Saved
<1> QED  BY <1>1, <1>2, <1>3 DEF Next

THEOREM AloneHolds ==
  ASSUME SkipCheck = FALSE, Alone
  PROVE  Spec => []AloneInv
<1>1. Spec => []IInv
  BY InitIInv, NextIInv, PTL DEF Spec
<1>2. IInv /\ AloneInv /\ [Next]_vars => AloneInv'
  BY AloneStep
<1> QED  BY <1>1, <1>2, AloneInit, PTL DEF Spec

\* For any number of hosts, limits, failures and kills at any point, playbooks that run
\* one after another never make a second cluster beside the first.
THEOREM OneClusterOnly ==
  ASSUME SkipCheck = FALSE, Alone
  PROVE  Spec => []NoSecondCluster
<1>1. AloneInv => NoSecondCluster
  <2> SUFFICES ASSUME AloneInv PROVE Cardinality({data[h] : h \in Initialised(Hosts)}) <= 1
    BY DEF NoSecondCluster
  <2> DEFINE clusters == {data[h] : h \in Initialised(Hosts)}
  <2>1. CASE clusters = {}
    <3>1. Cardinality(clusters) = 0
      BY <2>1, FS_EmptySet
    <3> QED  BY <3>1
  <2>2. CASE clusters # {}
    <3>1. PICK h \in Initialised(Hosts) : TRUE
      BY <2>2
    <3>2. clusters = {data[h]}
      BY <3>1 DEF AloneInv, OneCluster
    <3>3. Cardinality(clusters) = 1
      BY <3>2, FS_Singleton
    <3> QED  BY <3>3
  <2> QED  BY <2>1, <2>2
<1> QED  BY <1>1, AloneHolds, PTL

\* The promise of the rescue section: unless a playbook was killed, no cluster is left
\* whose keys are on no host, however often and wherever initialising fails.
THEOREM DeletedUnlessSaved ==
  ASSUME SkipCheck = FALSE, Alone
  PROVE  Spec => []DeletedUnlessSavedIfUncut
<1>1. AloneInv => DeletedUnlessSavedIfUncut
  BY DEF AloneInv
<1> QED  BY <1>1, AloneHolds, PTL

\* The rescue section deletes only what its own playbook initialised: a cluster in use
\* stays.
THEOREM UsedIsKept ==
  ASSUME SkipCheck = FALSE, Alone
  PROVE  Spec => InUseKept
<1>1. IInv /\ AloneInv /\ AloneInv' /\ [Next]_vars
        => [\A c \in inUse : \E h \in Hosts : data'[h] = c]_vars
  <2> SUFFICES ASSUME AloneInv', Next, NEW c \in inUse PROVE \E h \in Hosts : data'[h] = c
    OBVIOUS
  <2>1. inUse \subseteq inUse'
    <3>1. ASSUME NEW p \in Plays, Runs(p) \/ Cut(p) PROVE inUse \subseteq inUse'
      BY <3>1 DEF Runs, Begin, Count, InitServer, Unseal, Revoke, Rekey, Save, Fail, Stop,
         Delete, Start, Continue, GiveUp, Cut
    <3>2. ASSUME NEW h \in Hosts, Join(h) \/ HostDown(h) \/ HostUp(h)
          PROVE  inUse \subseteq inUse'
      BY <3>2 DEF Join, HostDown, HostUp
    <3> QED  BY <3>1, <3>2 DEF Next
  <2> QED  BY <2>1 DEF AloneInv, UsedIsThere
<1>2. Spec => []IInv
  BY InitIInv, NextIInv, PTL DEF Spec
<1> QED  BY <1>1, <1>2, AloneHolds, PTL DEF Spec, InUseKept
================================================================================
