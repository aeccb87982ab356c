------------------------- MODULE DisasterRecoveryProofs -------------------------
(***************************************************************************)
(* Proofs about DisasterRecovery, for any number of scripts, of other      *)
(* servers on the port, and of polls before a script gives up; and about   *)
(* VaultBackup, for any number of zips to keep and of changes of keys.     *)
(***************************************************************************)
EXTENDS DisasterRecovery, VaultBackup, FiniteSetTheorems, TLAPS

USE DisjointAssumption, SnapshotAssumption, TimeoutAssumption
USE DEF Servers, server, script, Goto, Raise

Pcs == {"start", "poll", "init", "reset", "unseal", "cluster", "restore", "serving",
        "kill", "remove", "ended"}

\* A script's server has not run before, is killed only on the way out, and keeps
\* the port for as long as the script talks to it, unless it crashes.
NotYetLaunched == \A s \in Scripts : pc[s] = "start" => process[s] = "off"
KilledOnTheWayOut ==
  \A s \in Scripts : process[s] = "killed" => pc[s] \in {"remove", "ended"}
KeysFirst == \A s \in Scripts : pc[s] \in {"reset", "unseal"} => keysOf[s] # None
OwnKeepsPort ==
  \A s \in Scripts :
    pc[s] \in {"reset", "unseal"} /\ keysOf[s] = s /\ process[s] # "dead" => port = s

\* Only a request waits for an answer, and one of either loop may still be counted.
Asking ==
  \A s \in Scripts :
    asking[s] # "no" =>
      /\ pc[s] \in {"poll", "init", "reset", "unseal", "cluster", "restore"}
      /\ pc[s] \in {"poll", "cluster"} => polls[s] < Timeout

Rests ==
  /\ NotYetLaunched /\ KilledOnTheWayOut /\ KeysFirst /\ OwnKeepsPort
  /\ Asking

DInv == TypeOK /\ pc \in [Scripts -> Pcs] /\ Rests

LEMMA DInvInit == Init => DInv
BY DEF Init, DInv, TypeOK, Pcs, Rests, NotYetLaunched, KilledOnTheWayOut, KeysFirst,
   OwnKeepsPort, Asking

\* Of the other variables the invariant only has types.
Typed ==
  /\ initialised \in [Servers -> BOOLEAN] /\ sealed \in [Servers -> BOOLEAN]
  /\ submitted \in [Servers -> BOOLEAN]
  /\ holds \in [Servers -> Scripts \cup {None}]
  /\ data \subseteq Servers

LEMMA TypedStep ==
  ASSUME TypeOK, Next PROVE Typed'
<1> USE DEF TypeOK, Typed
<1>1. ASSUME NEW x \in Servers, Bind(x) \/ Die(x) \/ Crash(x) PROVE Typed'
  BY <1>1 DEF Bind, Die, Crash
<1>2. ASSUME NEW x \in Others,
             OtherStarts(x) \/ OtherStops(x) \/ OtherInitialised(x) \/ OtherSubmits(x)
      PROVE  Typed'
  <2>1. CASE OtherStarts(x)
    BY <2>1 DEF OtherStarts
  <2>2. CASE OtherStops(x) \/ OtherInitialised(x)
    BY <2>2 DEF OtherStops, OtherInitialised
  <2>3. CASE OtherSubmits(x)
    BY <2>3 DEF OtherSubmits
  <2> QED BY <1>2, <2>1, <2>2, <2>3
<1>3. ASSUME NEW s \in Scripts,
             \/ Launch(s) \/ Asks(s) \/ ConnectionLost(s) \/ Poll(s) \/ PollsOut(s)
             \/ WaitForCluster(s) \/ ClusterTimesOut(s) \/ Kill(s) \/ RemoveData(s)
             \/ Finish(s) \/ Hangup(s)
      PROVE  Typed'
  BY <1>3 DEF Launch, Asks, ConnectionLost, Poll, PollsOut, WaitForCluster, ClusterTimesOut, Kill, RemoveData,
     Finish, Hangup
<1>4. ASSUME NEW s \in Scripts,
             VaultInit(s) \/ Reset(s) \/ Unseal(s) \/ Restore(s) \/ Use(s)
      PROVE  Typed'
  <2>1. CASE VaultInit(s)
    BY <2>1 DEF VaultInit
  <2>2. CASE Reset(s)
    BY <2>2 DEF Reset
  <2>3. CASE Unseal(s)
    <3>1. /\ UNCHANGED <<initialised, holds, data>> /\ sealed' \in [Servers -> BOOLEAN]
          /\ \/ UNCHANGED submitted
             \/ submitted' = [x \in Servers |->
                  IF x = port /\ x \in Others /\ initialised[x] THEN ~submitted[x] ELSE submitted[x]]
      BY <2>3 DEF Unseal
    <3> QED BY <3>1
  <2>4. CASE Restore(s)
    <3>1. CASE UNCHANGED <<holds, sealed>>
      BY <2>4, <3>1 DEF Restore
    <3>2. CASE /\ holds' = [holds EXCEPT ![port] = s]
               /\ sealed' = [sealed EXCEPT ![port] = TRUE]
      BY <2>4, <3>2 DEF Restore
    <3> QED BY <2>4, <3>1, <3>2 DEF Restore
  <2>5. CASE Use(s)
    BY <2>5 DEF Use
  <2> QED BY <1>4, <2>1, <2>2, <2>3, <2>4, <2>5
<1> QED BY <1>1, <1>2, <1>3, <1>4 DEF Next, Works

\* Whose process runs, who has the port, and where scripts are.
Running ==
  /\ port \in Servers \cup {None}
  /\ process \in [Servers -> {"off", "starting", "up", "mute", "killed", "dead"}]
  /\ port # None => process[port] \in {"up", "mute", "killed"}
  /\ polls \in [Scripts -> 0..Timeout] /\ keysOf \in [Scripts -> Servers \cup {None}]
  /\ asking \in [Scripts -> {"no", "waiting", "lost"}]
  /\ pc \in [Scripts -> Pcs]
  /\ Rests

LEMMA ProcessStep ==
  ASSUME Running, NEW x \in Servers,
         \/ Bind(x) \/ Die(x) \/ Crash(x) \/ OtherStarts(x) \/ OtherStops(x)
         \/ OtherInitialised(x) \/ OtherSubmits(x)
  PROVE  Running'
<1> USE DEF Running, Rests, NotYetLaunched, KilledOnTheWayOut, KeysFirst, OwnKeepsPort,
        Asking
<1>1. CASE Bind(x)
  BY <1>1 DEF Bind
<1>2. CASE Die(x)
  BY <1>2 DEF Die
<1>3. CASE OtherStarts(x)
  BY <1>3 DEF OtherStarts
<1>4. CASE OtherStops(x)
  BY <1>4 DEF OtherStops
<1>5. CASE OtherInitialised(x) \/ OtherSubmits(x)
  BY <1>5 DEF OtherInitialised, OtherSubmits
<1>6. CASE Crash(x)
  BY <1>6 DEF Crash
<1> QED BY <1>1, <1>2, <1>3, <1>4, <1>5, <1>6

LEMMA ScriptStep ==
  ASSUME Running, NEW s \in Scripts, Works(s) \/ Use(s) \/ Finish(s) \/ Hangup(s)
  PROVE  Running'
<1> USE DEF Running, Rests, NotYetLaunched, KilledOnTheWayOut, KeysFirst, OwnKeepsPort,
        Asking, Requests, Pcs
<1>1. CASE Launch(s)
  BY <1>1 DEF Launch
<1>2. CASE Poll(s)
  BY <1>2 DEF Poll, Count, MayPoll
<1>3. CASE PollsOut(s)
  BY <1>3 DEF PollsOut, MayPoll
<1>4. CASE VaultInit(s)
  BY <1>4 DEF VaultInit, Refusal
<1>5. CASE Reset(s)
  BY <1>5 DEF Reset
<1>6. CASE Unseal(s)
  BY <1>6 DEF Unseal
<1>7. CASE WaitForCluster(s)
  BY <1>7 DEF WaitForCluster, Count, MayPoll
<1>8. CASE ClusterTimesOut(s)
  BY <1>8 DEF ClusterTimesOut, MayPoll
<1>9. CASE Restore(s)
  <2>1. pc[s] = "restore" /\ asking[s] = "no"
        /\ UNCHANGED <<port, process, polls, asking, keysOf>>
        /\ \E p \in {"serving", "kill"} : pc' = [pc EXCEPT ![s] = p]
    BY <1>9 DEF Restore
  <2> QED BY <1>9, <2>1
<1>10. CASE Kill(s)
  BY <1>10 DEF Kill, Killed
<1>11. CASE RemoveData(s)
  BY <1>11 DEF RemoveData
<1>12. CASE Use(s)
  BY <1>12 DEF Use
<1>13. CASE Finish(s)
  BY <1>13 DEF Finish, Fails, Count
<1>14. CASE Hangup(s)
  BY <1>14 DEF Hangup
<1>15. CASE Asks(s)
  BY <1>15 DEF Asks, MayPoll
<1>16. CASE ConnectionLost(s)
  <2>1. CASE pc[s] \in {"poll", "cluster"}
    BY <1>16, <2>1 DEF ConnectionLost, Fails, Count
  <2>2. CASE pc[s] \notin {"poll", "cluster"}
    <3>1. /\ asking' = [asking EXCEPT ![s] = "no"] /\ pc' = [pc EXCEPT ![s] = "kill"]
          /\ UNCHANGED <<port, process, polls, keysOf>>
      BY <1>16, <2>2 DEF ConnectionLost, Fails
    <3>2. process[s] # "killed" /\ pc[s] # "start"
      BY <1>16 DEF ConnectionLost
    <3>3. NotYetLaunched' /\ KilledOnTheWayOut'
      BY <3>1, <3>2
    <3>4. KeysFirst' /\ OwnKeepsPort' /\ Asking'
      BY <3>1
    <3> QED BY <3>1, <3>3, <3>4
  <2> QED BY <2>1, <2>2
<1> QED
  BY <1>1, <1>2, <1>3, <1>4, <1>5, <1>6, <1>7, <1>8, <1>9, <1>10, <1>11, <1>12,
     <1>13, <1>14, <1>15, <1>16 DEF Works

LEMMA DInvNext == DInv /\ [Next]_vars => DInv'
<1>1. DInv /\ UNCHANGED vars => DInv'
  BY DEF vars, DInv, TypeOK, Rests, NotYetLaunched, KilledOnTheWayOut, KeysFirst,
     OwnKeepsPort, Asking
<1>2. DInv => TypeOK /\ Running
  BY DEF DInv, TypeOK, Running
<1>3. Typed' /\ Running' => DInv'
  BY DEF DInv, TypeOK, Typed, Running
<1> QED BY <1>1, <1>2, <1>3, TypedStep, ProcessStep, ScriptStep DEF Next

LEMMA DInductive == Spec => []DInv
BY DInvInit, DInvNext, PTL DEF Spec

(***************************************************************************)
(* What follows from it.                                                   *)
(***************************************************************************)
\* The types of the variables; whoever has the port is running.
THEOREM TypeCorrect == Spec => []TypeOK
<1>1. DInv => TypeOK
  BY DEF DInv
<1> QED BY <1>1, DInductive, PTL

\* No order in which servers come and go on the port makes a script load a snapshot
\* into one that others initialised, or unseal it; nor reset its unsealing, while
\* every script that gives a key talks to the server it has the key of.
THEOREM InitialisedAreSpared == Spec => SparesInitialised
<1>1. ASSUME DInv, Next, NEW x \in Others
      PROVE  /\ (\A s \in Scripts : keysOf[s] # x)
                  => /\ holds'[x] = holds[x]
                     /\ pc' # pc => sealed'[x] = sealed[x]
             /\ (\A s \in Scripts : ~Astray(s)) /\ pc' # pc => submitted'[x] = submitted[x]
  <2> USE DEF Requests
  <2>1. ASSUME NEW y \in Servers,
               \/ Bind(y) \/ Die(y) \/ Crash(y) \/ OtherStarts(y) \/ OtherStops(y)
               \/ OtherInitialised(y) \/ OtherSubmits(y)
        PROVE  UNCHANGED <<holds, pc>>
    BY <2>1 DEF Bind, Die, Crash, OtherStarts, OtherStops, OtherInitialised, OtherSubmits
  <2>2. ASSUME NEW s \in Scripts, Restore(s)
        PROVE  /\ UNCHANGED submitted
               /\ keysOf[s] # x => holds'[x] = holds[x] /\ sealed'[x] = sealed[x]
    BY <1>1, <2>2 DEF Restore, TokenValid, DInv, TypeOK
  <2>3. ASSUME NEW s \in Scripts, pc[s] \in {"reset", "unseal"}, ~Astray(s)
        PROVE  port = s
    BY <1>1, <2>3 DEF Astray, DInv, Rests, KeysFirst, OwnKeepsPort
  <2>4. ASSUME NEW s \in Scripts, Reset(s)
        PROVE  UNCHANGED <<holds, sealed>> /\ (~Astray(s) => submitted'[x] = submitted[x])
    BY <1>1, <2>3, <2>4 DEF Reset, DInv, TypeOK
  <2>5. ASSUME NEW s \in Scripts, Unseal(s)
        PROVE  /\ UNCHANGED holds
               /\ keysOf[s] # x => sealed'[x] = sealed[x]
               /\ ~Astray(s) => submitted'[x] = submitted[x]
    <3>1. CASE port # None /\ (keysOf[s] = port \/ ~sealed[port])
      <4>1. /\ sealed' = [sealed EXCEPT ![port] = FALSE]
            /\ UNCHANGED <<holds, submitted>>
        BY <2>5, <3>1 DEF Unseal
      <4> QED BY <1>1, <3>1, <4>1 DEF DInv, TypeOK
    <3>2. CASE ~(port # None /\ (keysOf[s] = port \/ ~sealed[port]))
      <4>1. /\ pc[s] = "unseal" /\ UNCHANGED <<holds, sealed>>
            /\ submitted'[x] =
                 IF x = port /\ x \in Others /\ initialised[x] THEN ~submitted[x] ELSE submitted[x]
        BY <2>5, <3>2 DEF Unseal
      <4>2. ~Astray(s) => x # port
        BY <2>3, <4>1
      <4> QED BY <4>1, <4>2
    <3> QED BY <3>1, <3>2
  <2>6. ASSUME NEW s \in Scripts,
               \/ Launch(s) \/ Asks(s) \/ ConnectionLost(s) \/ Poll(s) \/ PollsOut(s)
               \/ VaultInit(s) \/ WaitForCluster(s) \/ ClusterTimesOut(s) \/ Kill(s)
               \/ RemoveData(s) \/ Finish(s) \/ Hangup(s)
        PROVE  UNCHANGED <<holds, sealed, submitted>>
    BY <2>6 DEF Launch, Asks, ConnectionLost, Poll, PollsOut, VaultInit, WaitForCluster,
       ClusterTimesOut, Kill, RemoveData, Finish, Hangup
  <2>7. ASSUME NEW s \in Scripts, Use(s) PROVE UNCHANGED <<holds, pc>>
    BY <2>7 DEF Use
  <2> QED BY <1>1, <2>1, <2>2, <2>4, <2>5, <2>6, <2>7 DEF Next, Works
<1>2. DInv /\ [Next]_vars =>
        [\A x \in Others : initialised[x] =>
           /\ (\A s \in Scripts : keysOf[s] # x)
                => /\ holds'[x] = holds[x]
                   /\ pc' # pc => sealed'[x] = sealed[x]
           /\ (\A s \in Scripts : ~Astray(s)) /\ pc' # pc
                => submitted'[x] = submitted[x]]_vars
  BY <1>1
<1> QED BY <1>2, DInductive, PTL DEF Spec, SparesInitialised

(***************************************************************************)
(* VaultBackup, which makes the snapshots that these scripts are given.    *)
(* What follows supposes that it does not run twice at a time.             *)
(***************************************************************************)
USE NumBackupsAssumption

\* Types, and that the file has no keys that Vault has not.
ArchiveTyped ==
  /\ time \in Nat /\ made \in Nat /\ setBacks \in Nat
  /\ vaultKeys \in Nat /\ fileKeys \in Nat /\ fileKeys <= vaultKeys
  /\ zips \subseteq [name : Nat, db : Nat, keys : Nat, whole : BOOLEAN, seq : 1..made]
  /\ stage \in [Backups -> {"idle", "done", "snapshot", "check", "copy", "zip",
                         "list", "remove"}]
  /\ DOMAIN token = Backups
  /\ snapshot \in [Backups -> [db : Nat, whole : BOOLEAN]]
  /\ copied \in [Backups -> Nat]
  /\ \A s \in Backups : copied[s] <= fileKeys
  /\ DOMAIN doomed = Backups

Making(s) == stage[s] \in {"snapshot", "check", "copy", "zip"}

\* The names of the zips, and that of one in the making, are in the order of their making;
\* the most recent are there and whole, and none of them is about to be deleted.
Named ==
  /\ \A y, z \in zips : /\ y.seq < z.seq => y.name < z.name
                        /\ y.seq = z.seq => y = z
  /\ \A z \in zips : z.name <= time /\ z.whole
  /\ \A s \in Backups : Making(s) => \A z \in zips : z.name < time
  /\ \A s \in Backups : stage[s] \in {"copy", "zip"} => snapshot[s].whole

Spared(n) == NumBackups = 0 \/ n + NumBackups > made

Retained ==
  /\ \A n \in 1..made : Spared(n) => \E z \in zips : z.seq = n
  /\ \A s \in Backups : stage[s] \in {"list", "remove"} => NumBackups # 0
  /\ \A s \in Backups : stage[s] = "remove" =>
       \A z \in zips : z.name \in doomed[s] => ~Spared(z.seq)

\* What is in the making, if anything, will match.
Settled ==
  /\ fileKeys = vaultKeys
  /\ \A s \in Backups : /\ stage[s] \in {"check", "copy", "zip"} => snapshot[s].db = vaultKeys
                        /\ stage[s] = "zip" => copied[s] = vaultKeys

Matched(n) == \A z \in zips : z.seq = n => z.db = z.keys

\* At most one zip that does not match is made after keys have changed.
OneMismatch ==
  /\ made > 1 /\ Matched(made - 1) /\ ~fresh
  /\ \/ Settled
     \/ (\A s \in Backups : ~Making(s)) /\ \A z \in Latest : z.name = time

Opening ==
  /\ fresh => made # 0 /\ Matched(made)
  /\ fresh \/ made = 0 => Settled
  /\ Matched(made) \/ OneMismatch

VInv == ArchiveTyped /\ (setBacks = 0 => Named /\ Retained)
KInv == setBacks = 0 => Opening

LEMMA VInvInit == BackupInit => VInv
<1> SUFFICES ASSUME BackupInit PROVE VInv
  OBVIOUS
<1>1. ArchiveTyped
  BY DEF BackupInit, ArchiveTyped, Nothing
<1>2. Named /\ Retained
  BY DEF BackupInit, Named, Retained, Making
<1> QED BY <1>1, <1>2 DEF VInv

LEMMA KInvInit == BackupInit => KInv
BY DEF BackupInit, KInv, Opening, Settled, Matched

LEMMA ArchiveStep == ArchiveTyped /\ [BackupNext]_backupVars => ArchiveTyped'
<1> SUFFICES ASSUME ArchiveTyped, [BackupNext]_backupVars PROVE ArchiveTyped'
  OBVIOUS
<1> USE DEF ArchiveTyped
<1>1. ASSUME NEW s \in Backups, Begin(s) \/ Download(s) \/ CopyKeys(s) \/ List(s)
      PROVE  ArchiveTyped'
  <2>1. CASE Begin(s)
    BY <2>1 DEF Begin, env
  <2>2. CASE Download(s)
    <3>1. PICK whole \in BOOLEAN :
            snapshot' = [snapshot EXCEPT ![s] = [db |-> vaultKeys, whole |-> whole]]
      BY <2>2 DEF Download
    <3>2. snapshot' \in [Backups -> [db : Nat, whole : BOOLEAN]]
      BY <3>1
    <3> QED BY <2>2, <3>2 DEF Download, env
  <2>3. CASE CopyKeys(s) \/ List(s)
    BY <2>3 DEF CopyKeys, List, env
  <2> QED BY <1>1, <2>1, <2>2, <2>3
<1>2. ASSUME NEW s \in Backups, NEW how \in {"idle", "done"}, End(s, how)
      PROVE  /\ DOMAIN token' = Backups /\ DOMAIN doomed' = Backups
             /\ snapshot' \in [Backups -> [db : Nat, whole : BOOLEAN]]
             /\ copied' \in [Backups -> Nat]
             /\ \A r \in Backups : copied'[r] <= copied[r]
             /\ stage' \in [Backups -> {"idle", "done", "snapshot", "check", "copy", "zip",
                                     "list", "remove"}]
  BY <1>2 DEF End, Nothing
<1>3. ASSUME NEW s \in Backups, Check(s) \/ FinishBackup(s) \/ Fail(s) PROVE ArchiveTyped'
  <2>1. CASE End(s, "idle") \/ End(s, "done")
    BY <1>2, <1>3, <2>1 DEF Check, FinishBackup, Fail, env
  <2>2. CASE Check(s) /\ Acceptable(s)
    BY <2>2 DEF Check, env
  <2> QED BY <1>3, <2>1, <2>2 DEF Check, FinishBackup, Fail
<1>4. ASSUME NEW s \in Backups, Zip(s) PROVE ArchiveTyped'
  <2>1. zips' \subseteq [name : Nat, db : Nat, keys : Nat, whole : BOOLEAN, seq : 1..made']
        /\ made' \in Nat
    BY <1>4 DEF Zip, Zipped
  <2>2. CASE End(s, "done")
    BY <1>2, <1>4, <2>1, <2>2 DEF Zip, env
  <2>3. CASE /\ stage' = [stage EXCEPT ![s] = "list"]
             /\ UNCHANGED <<token, snapshot, copied, doomed>>
    BY <1>4, <2>1, <2>3 DEF Zip, env
  <2> QED BY <1>4, <2>2, <2>3 DEF Zip
<1>5. ASSUME NEW s \in Backups, Remove(s) PROVE ArchiveTyped'
  BY <1>5 DEF Remove, env
<1>6. CASE Rekey \/ MakeLive \/ Tick \/ SetBack
  BY <1>6 DEF Rekey, MakeLive, Tick, SetBack, work
<1>7. CASE UNCHANGED backupVars
  BY <1>7 DEF backupVars, env, work
<1> QED BY <1>1, <1>3, <1>4, <1>5, <1>6, <1>7 DEF BackupNext

\* A name with N newer ones has been made at least N zips ago.
LEMMA DoomedAreOld ==
  ASSUME ArchiveTyped, Named, NEW z \in zips, z.name \in Doomed
  PROVE  z.seq + NumBackups <= made
<1>1. PICK x \in zips : x.name = z.name /\ Cardinality(Newer(x)) >= NumBackups
  BY DEF Doomed
<1> DEFINE f == [y \in Newer(x) |-> y.seq]
           T == (x.seq + 1)..made
<1>2. /\ made \in Nat /\ \A y \in zips : y.seq \in 1..made /\ y.name \in Nat
  BY DEF ArchiveTyped
<1>3. \A y \in Newer(x) : y \in zips /\ y.name > x.name
  BY DEF Newer
<1>4. \A y \in Newer(x) : y.seq \in T
  BY <1>1, <1>2, <1>3 DEF Named
<1>5. f \in Injection(Newer(x), T)
  BY <1>3, <1>4 DEF Injection, IsInjective, Named
<1>6. IsFiniteSet(T) /\ Cardinality(T) = IF x.seq + 1 > made THEN 0 ELSE made - (x.seq + 1) + 1
  <2>1. x.seq + 1 \in Int /\ made \in Int
    BY <1>1, <1>2
  <2> QED BY <2>1, FS_Interval
<1>7. Cardinality(Newer(x)) <= Cardinality(T) /\ Cardinality(Newer(x)) \in Nat
  BY <1>5, <1>6, FS_Injection, FS_CardinalityType
<1>8. x = z
  BY <1>1, <1>2 DEF Named
<1> HIDE DEF T
<1> QED BY <1>1, <1>2, <1>6, <1>7, <1>8

\* The service does not run twice at a time.
Alone == \A s, t \in Backups : s = t

\* A zip made now has a name after those of all others, and replaces none.
LEMMA ZipAdds ==
  ASSUME ArchiveTyped, Named, NEW s \in Backups, Zip(s)
  PROVE  \E z : /\ zips' = zips \cup {z} /\ z.name = time /\ z.seq = made + 1 /\ z.whole
                /\ z.db = snapshot[s].db /\ z.keys = copied[s] /\ made' = made + 1
                /\ \A y \in zips : y.name < time /\ y.seq <= made
<1> DEFINE z == [name |-> time, db |-> snapshot[s].db, keys |-> copied[s],
                 whole |-> snapshot[s].whole, seq |-> made + 1]
<1>1. /\ stage[s] = "zip" /\ made' = made + 1 /\ zips' = Zipped(z)
  BY DEF Zip
<1>2. \A y \in zips : y.name < time /\ y.seq \in 1..made /\ y.name \in Nat
  BY <1>1 DEF Named, Making, ArchiveTyped
<1>3. snapshot[s].whole
  BY <1>1 DEF Named
<1>4. Zipped(z) = zips \cup {z}
  BY <1>2 DEF Zipped, ArchiveTyped
<1>5. \A y \in zips : y.name < time /\ y.seq <= made
  BY <1>2 DEF ArchiveTyped
<1>6. /\ z.name = time /\ z.seq = made + 1 /\ z.whole = snapshot[s].whole
      /\ z.db = snapshot[s].db /\ z.keys = copied[s]
  OBVIOUS
<1> HIDE DEF z
<1> QED BY <1>1, <1>3, <1>4, <1>5, <1>6

\* The last zip is there, so that one in the making is not the second of its name.
LEMMA BegunLater ==
  ASSUME ArchiveTyped, Named, Retained, NEW s \in Backups, Begin(s)
  PROVE  \A z \in zips : z.name < time
<1>0. made \in Nat /\ time \in Nat /\ \A z \in zips : z.seq \in 1..made /\ z.name \in Nat
  BY DEF ArchiveTyped
<1> SUFFICES ASSUME NEW z \in zips PROVE z.name < time
  OBVIOUS
<1>1. made \in 1..made /\ Spared(made)
  BY <1>0 DEF Spared
<1>2. PICK y \in zips : y.seq = made
  BY <1>1 DEF Retained
<1>3. y.name # time /\ y.name <= time
  BY <1>2 DEF Begin, Latest, Named
<1>4. z.seq < y.seq \/ z.seq = y.seq
  BY <1>0, <1>2
<1> QED BY <1>0, <1>3, <1>4 DEF Named

LEMMA VInvStep ==
  ASSUME Alone, VInv, [BackupNext]_backupVars
  PROVE  VInv'
<1>1. ArchiveTyped'
  BY ArchiveStep DEF VInv
<1> SUFFICES ASSUME setBacks' = 0 PROVE Named' /\ Retained'
  BY <1>1 DEF VInv
<1>2. setBacks = 0 /\ ~SetBack
  <2>1. setBacks' = setBacks \/ SetBack
    BY DEF BackupNext, backupVars, env, Begin, Download, Check, CopyKeys, Zip, List, Remove,
       FinishBackup, Fail, Rekey, MakeLive, Tick
  <2>2. ~SetBack
    BY DEF SetBack, VInv, ArchiveTyped
  <2> QED BY <2>1, <2>2
<1>3. ArchiveTyped /\ Named /\ Retained
  BY <1>2 DEF VInv
<1>t. /\ made \in Nat /\ time \in Nat /\ \A z \in zips : z.seq \in 1..made /\ z.name \in Nat
      /\ DOMAIN stage = Backups /\ DOMAIN doomed = Backups /\ DOMAIN snapshot = Backups
      /\ zips \subseteq [name : Nat, db : Nat, keys : Nat, whole : BOOLEAN, seq : 1..made]
  BY <1>3 DEF ArchiveTyped
\* Steps that leave the zips alone.
<1>4. ASSUME UNCHANGED <<zips, made>>, time' \in Nat, time <= time',
             \A s \in Backups :
               /\ Making(s)' => Making(s) \/ \A z \in zips : z.name < time
               /\ stage'[s] \in {"copy", "zip"} => snapshot'[s].whole
               /\ stage'[s] \in {"list", "remove"} => NumBackups # 0
               /\ stage'[s] = "remove" =>
                    \A z \in zips : z.name \in doomed'[s] => ~Spared(z.seq)
      PROVE  Named' /\ Retained'
  <2>1. \A z \in zips : z.name <= time' /\ z.whole
    BY <1>3, <1>4, <1>t DEF Named
  <2>2. \A s \in Backups : Making(s)' => \A z \in zips : z.name < time'
    BY <1>3, <1>4, <1>t DEF Named
  <2>3. Named'
    BY <1>3, <1>4, <2>1, <2>2 DEF Named
  <2> QED BY <1>3, <1>4, <2>3 DEF Retained, Spared
<1>5. ASSUME NEW s \in Backups, Begin(s) PROVE Named' /\ Retained'
  <2>1. \A z \in zips : z.name < time
    BY <1>3, <1>5, BegunLater
  <2>2. stage'[s] = "snapshot"
    BY <1>5, <1>t DEF Begin
  <2> QED BY <1>3, <1>4, <1>5, <1>t, <2>1, <2>2 DEF Begin, env, Alone
<1>6. ASSUME NEW s \in Backups, Download(s) PROVE Named' /\ Retained'
  <2>1. stage[s] = "snapshot" /\ stage'[s] = "check"
    BY <1>6, <1>t DEF Download
  <2> QED BY <1>4, <1>6, <1>t, <2>1 DEF Download, env, Alone, Making
<1>7. ASSUME NEW s \in Backups, Check(s), Acceptable(s) PROVE Named' /\ Retained'
  <2>1. stage[s] = "check" /\ stage'[s] = "copy"
    BY <1>7, <1>t DEF Check
  <2> QED BY <1>4, <1>7, <1>t, <2>1 DEF Check, env, Alone, Making, Acceptable
<1>8. ASSUME NEW s \in Backups, CopyKeys(s) PROVE Named' /\ Retained'
  <2>1. stage[s] = "copy" /\ stage'[s] = "zip"
    BY <1>8, <1>t DEF CopyKeys
  <2> QED BY <1>3, <1>4, <1>8, <1>t, <2>1 DEF CopyKeys, env, Alone, Making, Named
<1>9. ASSUME NEW s \in Backups, Zip(s) PROVE Named' /\ Retained'
  <2>1. PICK z : /\ zips' = zips \cup {z} /\ z.name = time /\ z.seq = made + 1 /\ z.whole
                 /\ made' = made + 1
                 /\ \A y \in zips : y.name < time /\ y.seq <= made
    BY <1>3, <1>9, ZipAdds
  <2>2. /\ time' = time /\ stage'[s] \in {"list", "done"}
        /\ stage'[s] = "list" => NumBackups > 0
    BY <1>9, <1>t DEF Zip, End, env
  <2>3. Named'
    <3>1. \A x, y \in zips' : /\ x.seq < y.seq => x.name < y.name
                              /\ x.seq = y.seq => x = y
      BY <1>3, <1>t, <2>1 DEF Named
    <3>2. \A x \in zips' : x.name <= time' /\ x.whole
      BY <1>3, <1>t, <2>1, <2>2 DEF Named
    <3> QED BY <2>2, <3>1, <3>2 DEF Named, Making, Alone
  <2>4. ASSUME NEW n \in 1..made', Spared(n)' PROVE \E y \in zips' : y.seq = n
    <3>1. CASE n = made + 1
      BY <2>1, <3>1
    <3>2. CASE n # made + 1
      <4>1. n \in 1..made /\ Spared(n)
        BY <1>t, <2>1, <2>4, <3>2 DEF Spared
      <4> QED BY <1>3, <2>1, <4>1 DEF Retained
    <3> QED BY <3>1, <3>2
  <2> QED BY <2>2, <2>3, <2>4 DEF Retained, Alone
<1>10. ASSUME NEW s \in Backups, List(s) PROVE Named' /\ Retained'
  <2>1. stage[s] = "list" /\ stage'[s] = "remove" /\ doomed'[s] = Doomed /\ NumBackups # 0
    BY <1>3, <1>10, <1>t DEF List, Retained
  <2>2. \A z \in zips : z.name \in Doomed => ~Spared(z.seq)
    BY <1>3, <1>t, <2>1, DoomedAreOld DEF Spared
  <2>3. UNCHANGED <<zips, made, time>> /\ \A r \in Backups : stage'[r] = "remove" /\ r = s
    BY <1>10, <2>1 DEF List, env, Alone
  <2> QED BY <1>4, <1>t, <2>1, <2>2, <2>3 DEF Making
<1>11. ASSUME NEW s \in Backups, Remove(s) PROVE Named' /\ Retained'
  <2>1. PICK n \in doomed[s] : /\ zips' = {z \in zips : z.name # n}
                               /\ doomed' = [doomed EXCEPT ![s] = @ \ {n}]
    BY <1>11 DEF Remove
  <2>2. /\ stage[s] = "remove" /\ UNCHANGED <<stage, made, time, snapshot>>
        /\ \A z \in zips : z.name = n => ~Spared(z.seq)
    BY <1>3, <1>11 DEF Remove, env, Retained
  <2>3. Named'
    BY <1>3, <2>1, <2>2 DEF Named, Making
  <2>4. doomed'[s] \subseteq doomed[s]
    BY <1>t, <2>1
  <2>5. \A m \in 1..made : Spared(m) => \E z \in zips' : z.seq = m
    BY <1>3, <2>1, <2>2 DEF Retained
  <2> QED BY <1>3, <2>1, <2>2, <2>3, <2>4, <2>5 DEF Retained, Spared, Alone
<1>12. ASSUME NEW s \in Backups, (Check(s) /\ ~Acceptable(s)) \/ FinishBackup(s) \/ Fail(s)
       PROVE  Named' /\ Retained'
  <2>1. stage'[s] \in {"idle", "done"}
    BY <1>12, <1>t DEF Check, FinishBackup, Fail, End
  <2>2. UNCHANGED <<zips, made, time>>
    BY <1>12 DEF Check, FinishBackup, Fail, env
  <2> QED BY <1>4, <1>t, <2>1, <2>2 DEF Alone, Making
<1>13. CASE Rekey \/ MakeLive \/ Tick \/ UNCHANGED backupVars
  <2>1. UNCHANGED <<zips, made, stage, snapshot, doomed>> /\ time <= time' /\ time' \in Nat
    BY <1>13, <1>t DEF Rekey, MakeLive, Tick, backupVars, env, work
  <2> QED BY <1>3, <1>4, <2>1 DEF Named, Retained, Making
<1> QED BY <1>2, <1>5, <1>6, <1>7, <1>8, <1>9, <1>10, <1>11, <1>12, <1>13 DEF BackupNext

\* Of the steps that make no zip, Rekey alone can spoil what is in the making.
LEMMA KInvStep ==
  ASSUME Alone, Frequent, VInv, KInv, [BackupNext]_backupVars
  PROVE  KInv'
<1> SUFFICES ASSUME setBacks' = 0 PROVE Opening'
  BY DEF KInv
<1>2. setBacks = 0 /\ ~SetBack
  <2>1. setBacks' = setBacks \/ SetBack
    BY DEF BackupNext, backupVars, env, Begin, Download, Check, CopyKeys, Zip, List, Remove,
       FinishBackup, Fail, Rekey, MakeLive, Tick
  <2>2. ~SetBack
    BY DEF SetBack, VInv, ArchiveTyped
  <2> QED BY <2>1, <2>2
<1>3. ArchiveTyped /\ Named /\ Retained /\ Opening
  BY <1>2 DEF VInv, KInv
<1>t. /\ made \in Nat /\ \A z \in zips : z.seq \in 1..made
      /\ DOMAIN stage = Backups /\ DOMAIN copied = Backups /\ DOMAIN snapshot = Backups
      /\ vaultKeys \in Nat /\ fileKeys \in Nat /\ fileKeys <= vaultKeys
      /\ \A s \in Backups : copied[s] \in Nat /\ copied[s] <= fileKeys
  BY <1>3 DEF ArchiveTyped
\* Steps that make no zip and change no keys.
<1>4. ASSUME zips' \subseteq zips, UNCHANGED <<made, fresh>>, Settled => Settled',
             OneMismatch /\ ~Settled => (\A s \in Backups : ~Making(s)') /\ time' = time
      PROVE  Opening'
  <2>1. Matched(made) => Matched(made)'
    BY <1>4 DEF Matched
  <2>2. Matched(made - 1) => Matched(made - 1)'
    BY <1>4 DEF Matched
  <2>3. \A z \in Latest' : z \in Latest
    BY <1>4 DEF Latest
  <2>4. OneMismatch => OneMismatch'
    BY <1>4, <2>2, <2>3 DEF OneMismatch
  <2> QED BY <1>3, <1>4, <2>1, <2>4 DEF Opening
<1>5. ASSUME NEW s \in Backups, Begin(s) PROVE Opening'
  <2>1. /\ UNCHANGED <<zips, made, fresh, fileKeys, vaultKeys, snapshot, copied>>
        /\ stage'[s] = "snapshot"
    BY <1>5, <1>t DEF Begin, env
  <2>2. Settled => Settled'
    BY <2>1 DEF Settled, Alone
  <2>3. OneMismatch => Settled
    <3>1. CASE made > 1
      <4>1. made \in 1..made /\ Spared(made)
        BY <1>t, <3>1 DEF Spared
      <4>2. PICK z \in zips : z.seq = made
        BY <1>3, <4>1 DEF Retained
      <4>3. z \in Latest /\ z.name # time
        BY <1>5, <4>2 DEF Begin, Latest
      <4> QED BY <4>3 DEF OneMismatch
    <3> QED BY <3>1 DEF OneMismatch
  <2> QED BY <1>4, <2>1, <2>2, <2>3
<1>6. ASSUME NEW s \in Backups,
             Download(s) \/ CopyKeys(s) \/ (Check(s) /\ Acceptable(s))
      PROVE  Opening'
  <2>1. /\ UNCHANGED <<zips, made, fresh, fileKeys, vaultKeys>>
        /\ stage[s] \in {"snapshot", "copy", "check"}
    BY <1>6 DEF Download, CopyKeys, Check, env
  <2>2. Settled => Settled'
    <3>1. CASE Download(s)
      <4>1. stage'[s] = "check" /\ snapshot'[s].db = vaultKeys
        BY <1>t, <3>1 DEF Download
      <4> QED BY <2>1, <4>1 DEF Settled, Alone
    <3>2. CASE CopyKeys(s)
      <4>1. /\ stage[s] = "copy" /\ stage'[s] = "zip"
            /\ snapshot' = snapshot /\ copied'[s] = fileKeys
        BY <1>t, <3>2 DEF CopyKeys
      <4> QED BY <2>1, <4>1 DEF Settled, Alone
    <3>3. CASE Check(s) /\ Acceptable(s)
      <4>1. stage[s] = "check" /\ stage'[s] = "copy" /\ snapshot' = snapshot
        BY <1>t, <3>3 DEF Check
      <4> QED BY <2>1, <4>1 DEF Settled, Alone
    <3> QED BY <1>6, <3>1, <3>2, <3>3
  <2>3. OneMismatch => Settled
    BY <2>1 DEF OneMismatch, Making
  <2> QED BY <1>4, <2>1, <2>2, <2>3
<1>7. ASSUME NEW s \in Backups, Zip(s) PROVE Opening'
  <2>1. PICK z : /\ zips' = zips \cup {z} /\ z.name = time /\ z.seq = made + 1
                 /\ z.db = snapshot[s].db /\ z.keys = copied[s] /\ made' = made + 1
                 /\ \A y \in zips : y.name < time /\ y.seq <= made
    BY <1>3, <1>7, ZipAdds
  <2>2. /\ stage[s] = "zip" /\ time' = time /\ fileKeys' = fileKeys /\ vaultKeys' = vaultKeys
        /\ fresh' <=> fresh \/ (z.db = vaultKeys /\ z.keys = vaultKeys)
        /\ stage'[s] \in {"list", "done"}
    BY <1>7, <1>t, <2>1 DEF Zip, End, env
  <2>3. fileKeys = vaultKeys => Settled'
    BY <2>2 DEF Settled, Alone
  <2>4. Matched(made)' <=> z.db = z.keys
    BY <1>t, <2>1 DEF Matched
  <2>5. CASE Settled
    <3>1. z.db = vaultKeys /\ z.keys = vaultKeys /\ fileKeys = vaultKeys
      BY <2>1, <2>2, <2>5 DEF Settled
    <3> QED BY <1>t, <2>1, <2>2, <2>3, <2>4, <3>1 DEF Opening
  <2>6. CASE ~Settled
    <3>1. made # 0 /\ ~fresh /\ Matched(made)
      BY <1>3, <2>2, <2>6 DEF Opening, OneMismatch, Making
    <3>2. CASE z.db = z.keys
      <4>1. fresh' => fileKeys = vaultKeys
        <5>1. fresh' => copied[s] = vaultKeys
          BY <2>1, <2>2, <3>1
        <5> QED BY <1>t, <5>1
      <4> QED BY <1>t, <2>1, <2>2, <2>3, <2>4, <3>2, <4>1 DEF Opening
    <3>3. CASE z.db # z.keys
      <4>0. ~fresh'
        BY <2>2, <3>1, <3>3
      <4>1. made' > 1 /\ Matched(made - 1)'
        BY <1>t, <2>1, <3>1 DEF Matched
      <4>2. (\A r \in Backups : ~Making(r)') /\ \A y \in Latest' : y.name = time'
        BY <1>t, <2>1, <2>2 DEF Making, Alone, Latest
      <4> QED BY <1>t, <2>1, <4>0, <4>1, <4>2 DEF Opening, OneMismatch
    <3> QED BY <3>2, <3>3
  <2> QED BY <2>5, <2>6
<1>8. ASSUME NEW s \in Backups, List(s) \/ Remove(s) PROVE Opening'
  <2>1. /\ zips' \subseteq zips /\ stage'[s] = "remove"
        /\ UNCHANGED <<made, fresh, fileKeys, vaultKeys, time, snapshot, copied>>
    BY <1>8, <1>t DEF List, Remove, env
  <2>2. Settled => Settled'
    BY <2>1 DEF Settled, Alone
  <2> QED BY <1>4, <2>1, <2>2 DEF Making, Alone
<1>9. ASSUME NEW s \in Backups, (Check(s) /\ ~Acceptable(s)) \/ FinishBackup(s) \/ Fail(s)
      PROVE  Opening'
  <2>1. /\ UNCHANGED <<zips, made, fresh, fileKeys, vaultKeys, time>>
        /\ stage'[s] \in {"idle", "done"}
    BY <1>9, <1>t DEF Check, FinishBackup, Fail, End, env
  <2>2. Settled => Settled'
    BY <2>1 DEF Settled, Alone
  <2> QED BY <1>4, <2>1, <2>2 DEF Making, Alone
<1>10. CASE Rekey
  <2>1. fresh /\ UNCHANGED <<zips, made>> /\ fresh' = FALSE
    BY <1>10 DEF Rekey
  <2>2. made # 0 /\ Matched(made)
    BY <1>3, <2>1 DEF Opening
  <2>3. Matched(made)'
    BY <2>1, <2>2 DEF Matched
  <2> QED BY <2>1, <2>2, <2>3 DEF Opening
<1>11. CASE MakeLive
  <2>1. UNCHANGED <<zips, made, fresh, time, stage>> /\ ~Settled
    BY <1>11 DEF MakeLive, work, Settled
  <2>2. OneMismatch => \A s \in Backups : ~Making(s)'
    BY <2>1 DEF OneMismatch, Making
  <2> QED BY <1>4, <2>1, <2>2
<1>12. CASE Tick
  <2>1. UNCHANGED <<zips, made, fresh, stage, fileKeys, vaultKeys, snapshot, copied>>
    BY <1>12 DEF Tick, work
  <2>2. fileKeys = vaultKeys
    BY <1>12 DEF Tick
  <2>3. OneMismatch => Settled
    BY <2>2 DEF OneMismatch, Making, Settled
  <2>4. Settled => Settled'
    BY <2>1 DEF Settled
  <2> QED BY <1>4, <2>1, <2>3, <2>4
<1>13. CASE UNCHANGED backupVars
  BY <1>13, <1>4 DEF backupVars, env, work, Settled, OneMismatch, Making
<1> QED BY <1>2, <1>5, <1>6, <1>7, <1>8, <1>9, <1>10, <1>11, <1>12, <1>13 DEF BackupNext

\* configure_backups: the most recent zips, as many as are to be kept, are there and
\* whole, however many runs have failed on the way and whenever keys have changed.
THEOREM RecentAreKept ==
  ASSUME Alone
  PROVE  BackupSpec => [](setBacks = 0 => \A n \in 1..made :
                      n + NumBackups > made => \E z \in zips : z.seq = n /\ z.whole)
<1> DEFINE Kept == \A n \in 1..made :
                     n + NumBackups > made => \E z \in zips : z.seq = n /\ z.whole
<1>1. Alone /\ VInv /\ [BackupNext]_backupVars => VInv'
  BY VInvStep
<1>2. VInv => (setBacks = 0 => Kept)
  BY DEF VInv, Named, Retained, Spared
<1> QED BY <1>1, <1>2, VInvInit, PTL DEF BackupSpec

\* With backups more frequent than changes of keys, and more than one of them kept, one
\* of them can be opened with the keys in it.
THEOREM AlwaysRestorable ==
  ASSUME NumBackups # 1, Alone, Frequent
  PROVE  BackupSpec => []Restorable
<1>1. VInv /\ KInv /\ [BackupNext]_backupVars => VInv' /\ KInv'
  BY VInvStep, KInvStep
<1>2. VInv /\ KInv => Restorable
  <2> SUFFICES ASSUME VInv, KInv, setBacks = 0
               PROVE  /\ \A n \in 1..made :
                           n + NumBackups > made => \E z \in zips : z.seq = n /\ z.whole
                      /\ zips # {} => \E z \in zips : z.db = z.keys
    BY DEF Restorable
  <2>1. ArchiveTyped /\ Named /\ Retained /\ Opening
    BY DEF VInv, KInv
  <2>2. made \in Nat /\ \A z \in zips : z.seq \in 1..made
    BY <2>1 DEF ArchiveTyped
  <2>3. \A n \in 1..made : n + NumBackups > made => \E z \in zips : z.seq = n /\ z.whole
    BY <2>1 DEF Named, Retained, Spared
  <2>4. ASSUME zips # {} PROVE \E z \in zips : z.db = z.keys
    <3>1. made \in 1..made
      BY <2>2, <2>4
    <3>2. CASE Matched(made)
      <4>1. Spared(made)
        BY <2>2 DEF Spared
      <4> QED BY <2>1, <3>1, <3>2, <4>1 DEF Retained, Matched
    <3>3. CASE OneMismatch
      <4>1. made - 1 \in 1..made /\ Spared(made - 1)
        BY <2>2, <3>3 DEF OneMismatch, Spared
      <4> QED BY <2>1, <3>3, <4>1 DEF Retained, Matched, OneMismatch
    <3> QED BY <2>1, <3>2, <3>3 DEF Opening
  <2> QED BY <2>3, <2>4
<1>3. BackupInit => VInv /\ KInv
  BY VInvInit, KInvInit
<1> QED BY <1>1, <1>2, <1>3, PTL DEF BackupSpec
================================================================================
