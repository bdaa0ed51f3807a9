----------------------------- MODULE CdbBackups -----------------------------
(***************************************************************************)
(* The copies that writeUnlocked of src/data/winbox-cdb-write.ts leaves    *)
(* beside the CDB: each overwrite first copies the file under the present  *)
(* millisecond, with a number behind it when that name is taken, and then  *)
(* removes all but the newest copies by name.  The writers take turns      *)
(* (CdbStore), so an overwrite is one step; from one to the next the clock *)
(* may stand still, and it may be set back.                                *)
(***************************************************************************)
EXTENDS Integers, Sequences, FiniteSets, FiniteSetsExt

CONSTANTS
  Stamps,        \* the milliseconds the clock may show
  Retentions,    \* the values of backupRetention; a negative one is no pruning
  MaxOverwrites  \* bound

ASSUME BackupConstants ==
  /\ Stamps \subseteq Nat
  /\ Retentions \subseteq Int
  /\ MaxOverwrites \in Nat

VARIABLES
  held,   \* the copies: the stamp and the suffix of the name, and the overwrite
          \* each is of, which the name ought to tell
  writes  \* the overwrites so far: clock, retention, and whether every unlink
          \* of its pruning succeeded

backupVars == <<held, writes>>

Copy == [stamp : Stamps, suffix : Nat, of : Nat]

Overwrite == [at : Stamps, keep : Retentions, clean : BOOLEAN]

(* compareBackupsNewestFirst: by the stamp, then by the number behind it.  *)
Newer(a, b) ==
  \/ a.stamp > b.stamp
  \/ a.stamp = b.stamp /\ a.suffix > b.suffix

Taken(stamp) == {b.suffix : b \in {x \in held : x.stamp = stamp}}

(* Mutant: the first name that is free.                                    *)
FirstFreeSuffix(stamp) ==
  CHOOSE n \in 0..Cardinality(held) :
    /\ n \notin Taken(stamp)
    /\ \A i \in 0..(n - 1) : i \in Taken(stamp)

(* copyToUniqueBackup: one past the greatest number that is left.          *)
NextSuffix(stamp) ==
  IF Taken(stamp) = {} THEN 0 ELSE Max(Taken(stamp)) + 1

(* backups.slice(retention), which is to go.                               *)
Stale(copies, keep) ==
  IF keep < 0 THEN {}
  ELSE {b \in copies : Cardinality({x \in copies : Newer(x, b)}) >= keep}

-----------------------------------------------------------------------------
BackupInit == held = {} /\ writes = <<>>

(* The copy, then the pruning.  An unlink that fails is passed over, and the
   process may end among them: any of the stale copies may stay.           *)
Overwrites(at, keep) ==
  /\ Len(writes) < MaxOverwrites
  /\ LET copy == [stamp |-> at, suffix |-> NextSuffix(at), of |-> Len(writes) + 1]
         copies == held \cup {copy}
     IN  \E gone \in SUBSET Stale(copies, keep) :
           /\ held' = copies \ gone
           /\ writes' = Append(writes, [at |-> at, keep |-> keep,
                                       clean |-> gone = Stale(copies, keep)])

BackupNext == \E at \in Stamps, keep \in Retentions : Overwrites(at, keep)

BackupSpec == BackupInit /\ [][BackupNext]_backupVars
-----------------------------------------------------------------------------
(* No overwrite since the i-th removes its copy, if the newest are kept.    *)
Due(i) ==
  \A j \in i..Len(writes) : writes[j].keep >= 0 => j - i < writes[j].keep

(* The clock was not set back.                                             *)
Steady == \A i \in 2..Len(writes) : writes[i - 1].at <= writes[i].at

(* The copies made last are the ones that stay, also when several are made
   in one millisecond and the pruned ones have left gaps in the numbers: a
   copy goes only once as many were made after it as an overwrite keeps,
   unless the clock was set back.  Even then no copy takes the name of
   another, and a pruning that meets no error leaves no more than it keeps. *)
NewestBackupsStay ==
  /\ Steady => \A i \in 1..Len(writes) : Due(i) => \E b \in held : b.of = i
  /\ \A a, b \in held : a.stamp = b.stamp /\ a.suffix = b.suffix => a = b
  /\ writes # <<>> =>
       LET last == writes[Len(writes)]
       IN  last.clean /\ last.keep >= 0 => Cardinality(held) <= last.keep
=============================================================================
