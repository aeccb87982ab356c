------------------------------ MODULE VaultBackup ------------------------------
(***************************************************************************)
(* vault_backup.sh on one server: a snapshot and the unseal keys file are  *)
(* zipped under a name made of the date and the oldest zips are deleted,   *)
(* while keys are changed, runs fail or are stopped, and the local time    *)
(* may go back.                                                            *)
(*                                                                         *)
(* A key version stands for a set of unseal keys, a zip for the versions   *)
(* its snapshot needs and its file has; the local time is a number.        *)
(***************************************************************************)
EXTENDS Naturals, FiniteSets

CONSTANTS Backups,      \* runs of the script
          NumBackups,   \* NUM_BACKUPS; 0 keeps all
          Frequent,     \* whether keys change less often than backups are made
          MaxTime, MaxKeys, MaxSetBacks, MaxMade  \* bounds, the last on zips

ASSUME NumBackupsAssumption == NumBackups \in Nat

VARIABLES
  time,
  vaultKeys, fileKeys,  \* the versions Vault takes, and the keys file has
  zips,     \* set of [name, db, keys, whole, seq]
  made,     \* number of zips made; seq numbers them
  stage,
  token,    \* per script, whether it was logged in
  snapshot, \* per script, [db, whole], what it downloaded
  copied,   \* per script, the keys it copied
  doomed,   \* per script, the names it is about to delete
  setBacks,
  fresh     \* whether a backup was begun and made since keys last changed

work == <<stage, token, snapshot, copied, doomed>>
env == <<time, vaultKeys, fileKeys, setBacks>>
backupVars == <<env, zips, made, work, fresh>>

Nothing == [db |-> 0, whole |-> FALSE]

BackupInit ==
  /\ time = 1 /\ vaultKeys = 1 /\ fileKeys = 1
  /\ zips = {} /\ made = 0
  /\ stage = [s \in Backups |-> "idle"]
  /\ token = [s \in Backups |-> FALSE]
  /\ snapshot = [s \in Backups |-> Nothing]
  /\ copied = [s \in Backups |-> 0]
  /\ doomed = [s \in Backups |-> {}]
  /\ setBacks = 0 /\ fresh = FALSE

\* The script ends, and the trap removes what it collected.
End(s, how) ==
  /\ stage' = [stage EXCEPT ![s] = how]
  /\ token' = [token EXCEPT ![s] = FALSE]
  /\ snapshot' = [snapshot EXCEPT ![s] = Nothing]
  /\ copied' = [copied EXCEPT ![s] = 0]
  /\ doomed' = [doomed EXCEPT ![s] = {}]

Latest == {z \in zips : z.seq = made}

\* The timer, or a person, starts it: not twice in a second.  A login that fails is
\* not noticed, as jq ends the pipe.
Begin(s) ==
  /\ stage[s] \in {"idle", "done"} /\ \A z \in Latest : z.name # time
  /\ stage' = [stage EXCEPT ![s] = "snapshot"]
  /\ \E ok \in BOOLEAN : token' = [token EXCEPT ![s] = ok]
  /\ UNCHANGED <<env, zips, made, snapshot, copied, doomed, fresh>>

\* Vault refuses a request without a token; an answer may be cut short without
\* curl's noticing.
Download(s) ==
  /\ stage[s] = "snapshot" /\ token[s]
  /\ \E whole \in BOOLEAN :
       snapshot' = [snapshot EXCEPT ![s] = [db |-> vaultKeys, whole |-> whole]]
  /\ stage' = [stage EXCEPT ![s] = "check"]
  /\ UNCHANGED <<env, zips, made, token, copied, doomed, fresh>>

Acceptable(s) == snapshot[s].whole

Check(s) ==
  /\ stage[s] = "check"
  /\ IF Acceptable(s)
       THEN /\ stage' = [stage EXCEPT ![s] = "copy"]
            /\ UNCHANGED <<token, snapshot, copied, doomed>>
       ELSE End(s, "idle")
  /\ UNCHANGED <<env, zips, made, fresh>>

CopyKeys(s) ==
  /\ stage[s] = "copy"
  /\ copied' = [copied EXCEPT ![s] = fileKeys]
  /\ stage' = [stage EXCEPT ![s] = "zip"]
  /\ UNCHANGED <<env, zips, made, token, snapshot, doomed, fresh>>

\* zip replaces what an archive of that name has.
Zipped(new) == {z \in zips : z.name # new.name} \cup {new}

Zip(s) ==
  /\ stage[s] = "zip" /\ made < MaxMade
  /\ made' = made + 1
  /\ zips' = Zipped([name |-> time, db |-> snapshot[s].db, keys |-> copied[s],
                     whole |-> snapshot[s].whole, seq |-> made + 1])
  /\ fresh' = (fresh \/ (snapshot[s].db = vaultKeys /\ copied[s] = vaultKeys))
  /\ IF NumBackups > 0
       THEN /\ stage' = [stage EXCEPT ![s] = "list"]
            /\ UNCHANGED <<token, snapshot, copied, doomed>>
       ELSE End(s, "done")
  /\ UNCHANGED env

Newer(z) == {y \in zips : y.name > z.name}
\* Mutant: in the other order.
DoomedReversed ==
  {z.name : z \in {y \in zips : Cardinality({x \in zips : x.name < y.name}) >= NumBackups}}
\* sort | head -n-N: all but the last N names.
Doomed == {z.name : z \in {y \in zips : Cardinality(Newer(y)) >= NumBackups}}

List(s) ==
  /\ stage[s] = "list"
  /\ doomed' = [doomed EXCEPT ![s] = Doomed]
  /\ stage' = [stage EXCEPT ![s] = "remove"]
  /\ UNCHANGED <<env, zips, made, token, snapshot, copied, fresh>>

\* Files of these names are removed one after another.
Remove(s) ==
  /\ stage[s] = "remove"
  /\ \E n \in doomed[s] :
       /\ zips' = {z \in zips : z.name # n}
       /\ doomed' = [doomed EXCEPT ![s] = @ \ {n}]
  /\ UNCHANGED <<env, made, stage, token, snapshot, copied, fresh>>

FinishBackup(s) ==
  /\ stage[s] = "remove" /\ doomed[s] = {}
  /\ End(s, "done")
  /\ UNCHANGED <<env, zips, made, fresh>>

\* A command fails, on which set -e ends the script, or it is stopped.
Fail(s) ==
  /\ stage[s] \notin {"idle", "done"}
  /\ End(s, "idle")
  /\ UNCHANGED <<env, zips, made, fresh>>

(***************************************************************************)
(* Around it: rekeying, in which Vault takes the new keys before the file  *)
(* has them (roles/rekey), and the local time.                             *)
(***************************************************************************)
Rekey ==
  /\ vaultKeys < MaxKeys /\ fileKeys = vaultKeys
  /\ Frequent => fresh
  /\ vaultKeys' = vaultKeys + 1
  /\ fresh' = FALSE
  /\ UNCHANGED <<time, fileKeys, setBacks, zips, made, work>>

MakeLive ==
  /\ fileKeys' = vaultKeys /\ fileKeys # vaultKeys
  /\ UNCHANGED <<time, vaultKeys, setBacks, zips, made, work, fresh>>

\* With Frequent, the new keys are live before another backup is made.
Tick ==
  /\ time < MaxTime
  /\ Frequent => fileKeys = vaultKeys
  /\ time' = time + 1
  /\ UNCHANGED <<vaultKeys, fileKeys, setBacks, zips, made, work, fresh>>

SetBack ==
  /\ setBacks < MaxSetBacks /\ time > 1
  /\ setBacks' = setBacks + 1
  /\ time' \in 1..(time - 1)
  /\ UNCHANGED <<vaultKeys, fileKeys, zips, made, work, fresh>>

BackupNext ==
  \/ \E s \in Backups :
       \/ Begin(s) \/ Download(s) \/ Check(s) \/ CopyKeys(s) \/ Zip(s)
       \/ List(s) \/ Remove(s) \/ FinishBackup(s) \/ Fail(s)
  \/ Rekey \/ MakeLive \/ Tick \/ SetBack

BackupSpec == BackupInit /\ [][BackupNext]_backupVars

-----------------------------------------------------------------------------
\* The variables have their types, and no two zips a name.
BackupTypeOK ==
  /\ time \in 1..MaxTime /\ vaultKeys \in 1..MaxKeys /\ fileKeys \in 1..MaxKeys
  /\ zips \subseteq [name : 1..MaxTime, db : 1..MaxKeys, keys : 1..MaxKeys,
                     whole : BOOLEAN, seq : 1..made]
  /\ \A y, z \in zips : y.name = z.name => y = z
  /\ \A s \in Backups : doomed[s] \subseteq 1..MaxTime

\* configure_backups: the most recent N backups are retained, each of them whole,
\* however runs fail, are stopped or have left others behind, as long as local
\* time, of which the names are made, is not set back.  With keys that change less
\* often than backups are made, one of two can be opened with the keys in it,
\* though keys may have changed while the other was made.
Restorable ==
  setBacks = 0 =>
    /\ \A n \in 1..made : n + NumBackups > made => \E z \in zips : z.seq = n /\ z.whole
    /\ zips # {} => \E z \in zips : z.db = z.keys
===============================================================================
