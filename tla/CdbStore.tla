------------------------------ MODULE CdbStore ------------------------------
(***************************************************************************)
(* The CDB read-modify-write transaction (src/devices.ts: loadCdb, add/set/*)
(* removeDevice, initCdb, encryptCdb, retryOnCdbConflict; src/data/        *)
(* winbox-cdb-write.ts: writeWinBoxCdb; src/discover.ts:                   *)
(* saveDiscoveredNeighbors) by callers of several processes on one file,   *)
(* under the mutex of CdbMutex.  Each await on the file or the lock is a   *)
(* boundary between two steps; a caller may end at any of them.            *)
(***************************************************************************)
EXTENDS CdbRegister, FiniteSets

CONSTANTS
  DefaultPath,  \* the file is at the default path, where loading creates it
  MaxAttempts,  \* CDB_CONFLICT_MAX_ATTEMPTS
  MaxForeign,   \* bound: writes by WinBox and other tools
  Files,        \* what the file may be at first
  Work          \* the jobs that may be given, with their targets

ASSUME CdbStoreConstants ==
  /\ Files \subseteq Disk
  /\ \A w \in Work : /\ w.job \in Job
                     /\ w.todo \in Seq(Target)
                     /\ w.job.kind # "save" => Len(w.todo) = 1
  /\ DefaultPath \in BOOLEAN
  /\ MaxAttempts \in Nat \ {0}
  /\ MaxForeign \in Nat

VARIABLES
  mode,     \* [Call -> its place in the mutex]
  pc,       \* [Call -> where it is]
  snap,     \* [Call -> the file as it loaded it]
  attempt,  \* [Call -> attempt of retryOnCdbConflict]
  lost,     \* [Call -> file changes by others since it turned to this target]
  late,     \* [Call -> a foreign write landed after its revision check]
  foreign   \* foreign writes so far

INSTANCE CdbMutex

localVars == <<pc, snap, attempt>>
ghostVars == <<lost, late, foreign>>
storeVars == <<mode, disk, job, todo, outcome, pc, snap, attempt, lost, late, foreign>>

PcState == {"load", "create", "read", "lock", "check", "replace",
            "committed", "stale", "failed", "done"}

Outcome == {"none", "ok", "refused", "conflict", "error"}

StoreTypeOK ==
  /\ MutexTypeOK
  /\ disk \in Disk
  /\ job \in [Call -> Job]
  /\ todo \in [Call -> Seq(Target)]
  /\ outcome \in [Call -> Outcome]
  /\ pc \in [Call -> PcState]
  /\ snap \in [Call -> Disk]
  /\ attempt \in [Call -> 1..MaxAttempts]
  /\ lost \in [Call -> Nat]
  /\ late \in [Call -> BOOLEAN]
  /\ foreign \in 0..MaxForeign

StoreInit ==
  /\ MutexInit
  /\ disk \in Files
  /\ \E w \in [Call -> Work] : /\ job = [c \in Call |-> w[c].job]
                               /\ todo = [c \in Call |-> w[c].todo]
  /\ outcome = [c \in Call |-> "none"]
  /\ pc = [c \in Call |-> "load"]
  /\ snap = [c \in Call |-> Absent]
  /\ attempt = [c \in Call |-> 1]
  /\ lost = [c \in Call |-> 0]
  /\ late = [c \in Call |-> FALSE]
  /\ foreign = 0

-----------------------------------------------------------------------------
Live(c) == mode[c] # "gone"

At(c, from) == Live(c) /\ pc[c] = from

Goto(c, from, to) == At(c, from) /\ pc' = [pc EXCEPT ![c] = to]

End(c, how) == outcome' = [outcome EXCEPT ![c] = how]

(* Everyone but c sees the file change under it.                           *)
Disturb(c) == lost' = [d \in Call |-> IF d = c THEN lost[d] ELSE lost[d] + 1]

(* conversion pins the path and so never creates the file.                 *)
MayCreate(j) ==
  j.kind \in {"init", "initenc"} \/ (DefaultPath /\ j.kind # "encrypt")

-----------------------------------------------------------------------------
(* loadCdb and initCdb look whether the file exists.                       *)
Load(c) ==
  /\ \/ disk # Absent /\ Goto(c, "load", "read") /\ UNCHANGED outcome
     \/ /\ disk = Absent
        /\ \/ MayCreate(job[c]) /\ Goto(c, "load", "create") /\ UNCHANGED outcome
           \/ ~MayCreate(job[c]) /\ Goto(c, "load", "done") /\ End(c, "refused")
  /\ UNCHANGED <<mode, disk, job, todo, snap, attempt, ghostVars>>

(* Mutant: a file that is already there is waited for to go.               *)
CreateStubborn(c) ==
  /\ disk = Absent
  /\ disk' = EmptyCdb(job[c].kind = "initenc")
  /\ Disturb(c)
  /\ Goto(c, "create", "read")
  /\ UNCHANGED <<mode, outcome, job, todo, snap, attempt, late, foreign>>

(* createEmptyCdbNoClobber: link() of a complete file, or someone was first.*)
Create(c) ==
  /\ \/ /\ disk = Absent
        /\ disk' = EmptyCdb(job[c].kind = "initenc")
        /\ Disturb(c)
        /\ IF job[c].kind \in {"init", "initenc"}
             THEN Goto(c, "create", "done") /\ End(c, "ok")
             ELSE Goto(c, "create", "read") /\ UNCHANGED outcome
     \/ /\ disk # Absent
        /\ Goto(c, "create", "read")
        /\ UNCHANGED <<disk, outcome, lost>>
  /\ UNCHANGED <<mode, job, todo, snap, attempt, late, foreign>>

(* The bytes are read, and everything up to the lock is decided by them:
   the password, the targets passed over, the validation of the next one.  *)
Read(c) ==
  /\ disk # Absent
  /\ snap' = [snap EXCEPT ![c] = disk]
  /\ \/ /\ ~CanLoad(job[c], disk)
        /\ Goto(c, "read", "done") /\ End(c, "refused")
        /\ UNCHANGED <<mode, todo, attempt, lost>>
     \/ /\ CanLoad(job[c], disk)
        /\ \E k \in NextAt(job[c], todo[c], disk) :
             todo' = [todo EXCEPT ![c] = SubSeq(@, k, Len(@))]
        /\ IF todo' = todo THEN UNCHANGED <<attempt, lost>>
             ELSE /\ attempt' = [attempt EXCEPT ![c] = 1]
                  /\ lost' = [lost EXCEPT ![c] = 0]
        /\ \/ /\ todo'[c] = <<>>
              /\ Goto(c, "read", "done") /\ End(c, "ok")
              /\ UNCHANGED mode
           \/ /\ todo'[c] # <<>> /\ Refuses(job[c], Head(todo'[c]), disk)
              /\ Goto(c, "read", "done") /\ End(c, "refused")
              /\ UNCHANGED mode
           \/ /\ todo'[c] # <<>> /\ ~Refuses(job[c], Head(todo'[c]), disk)
              /\ Goto(c, "read", "lock") /\ Request(c)
              /\ UNCHANGED outcome
  /\ UNCHANGED <<disk, job, late, foreign>>

LoadFault(c) ==
  /\ Goto(c, "load", "done") \/ Goto(c, "create", "done") \/ Goto(c, "read", "done")
  /\ End(c, "error")
  /\ UNCHANGED <<mode, disk, job, todo, snap, attempt, ghostVars>>

-----------------------------------------------------------------------------
(* writeWinBoxCdb.                                                         *)

(* Mutant: a call goes ahead without waiting for the lock.                 *)
LockIgnored(c) ==
  /\ Goto(c, "lock", "check")
  /\ Move(c, "waiting", "in")
  /\ UNCHANGED <<registerVars, snap, attempt, ghostVars>>

LockEnter(c) ==
  /\ Goto(c, "lock", "check")
  /\ Enter(c)
  /\ UNCHANGED <<registerVars, snap, attempt, ghostVars>>

(* cdb/locked, or the directory or the lock file cannot be made.           *)
LockRefuse(c) ==
  /\ Goto(c, "lock", "done")
  /\ Refuse(c)
  /\ End(c, "error")
  /\ UNCHANGED <<disk, job, todo, snap, attempt, ghostVars>>

(* Mutants: one attempt more, one attempt less.                            *)
ReplaysOnceMore(c) == job[c].replay /\ attempt[c] <= MaxAttempts

ReplaysOnceLess(c) == job[c].replay /\ attempt[c] + 1 < MaxAttempts

Replays(c) == job[c].replay /\ attempt[c] < MaxAttempts

(* Mutant: the revision is not compared.                                   *)
CheckNothing(c) ==
  /\ Goto(c, "check", "replace")
  /\ late' = [late EXCEPT ![c] = FALSE]
  /\ UNCHANGED <<mode, disk, job, todo, outcome, snap, attempt, lost, foreign>>

(* assertWinBoxCdbRevision.                                                *)
Check(c) ==
  /\ \/ disk = snap[c] /\ Goto(c, "check", "replace") /\ UNCHANGED outcome
     \/ /\ disk # snap[c]
        /\ Goto(c, "check", "stale")
        /\ IF Replays(c) THEN UNCHANGED outcome ELSE End(c, "conflict")
  /\ late' = [late EXCEPT ![c] = FALSE]
  /\ UNCHANGED <<mode, disk, job, todo, snap, attempt, lost, foreign>>

(* The rename in writeUnlocked; a single mutation has then succeeded.      *)
Replace(c) ==
  /\ Goto(c, "replace", "committed")
  /\ disk' = NewCdb(c, job[c], Head(todo[c]), snap[c])
  /\ todo' = [todo EXCEPT ![c] = Tail(@)]
  /\ IF job[c].kind = "save" THEN UNCHANGED outcome ELSE End(c, "ok")
  /\ Disturb(c)
  /\ UNCHANGED <<mode, job, snap, attempt, late, foreign>>

(* Any step before the rename fails: the read of the check, the backup, the
   temp file, the rename itself.                                           *)
WriteFault(c) ==
  /\ Goto(c, "check", "failed") \/ Goto(c, "replace", "failed")
  /\ End(c, "error")
  /\ UNCHANGED <<mode, disk, job, todo, snap, attempt, ghostVars>>

(* The lock is released; discover --save reloads and goes on, and a replayed
   conflict reloads and tries again.                                       *)
Release(c) ==
  /\ Exit(c)
  /\ \/ /\ job[c].kind = "save" /\ Goto(c, "committed", "load")
        /\ attempt' = [attempt EXCEPT ![c] = 1]
        /\ lost' = [lost EXCEPT ![c] = 0]
     \/ /\ job[c].kind # "save" /\ Goto(c, "committed", "done")
        /\ UNCHANGED <<attempt, lost>>
     \/ /\ Replays(c) /\ Goto(c, "stale", "load")
        /\ attempt' = [attempt EXCEPT ![c] = @ + 1]
        /\ UNCHANGED lost
     \/ /\ ~Replays(c) /\ Goto(c, "stale", "done")
        /\ UNCHANGED <<attempt, lost>>
     \/ /\ Goto(c, "failed", "done")
        /\ UNCHANGED <<attempt, lost>>
  /\ UNCHANGED <<registerVars, snap, late, foreign>>

-----------------------------------------------------------------------------
(* The process of c ends, and its memory with it.                          *)
Crash(c) ==
  /\ Live(c) /\ pc[c] # "done"
  /\ Die({c})
  /\ pc' = [pc EXCEPT ![c] = "done"]
  /\ snap' = [snap EXCEPT ![c] = Absent]
  /\ UNCHANGED <<registerVars, attempt, ghostVars>>

(* WinBox saves its list, under no lock: a record more or a record less.   *)
ForeignRecs(recs) ==
  {Append(recs, [target |-> t, user |-> NoUser, edits |-> {}]) :
     t \in {t \in Target : Matches(recs, t, NoUser) = {}}}
    \cup {RemoveAt(recs, i) : i \in DOMAIN recs}

ForeignWrite ==
  /\ foreign < MaxForeign
  /\ disk # Absent
  /\ \E recs \in ForeignRecs(disk.recs) :
       disk' = [recs |-> recs, enc |-> disk.enc, salt |-> Seal(disk.enc, disk.salt)]
  /\ foreign' = foreign + 1
  /\ lost' = [c \in Call |-> lost[c] + 1]
  /\ late' = [c \in Call |-> late[c] \/ pc[c] = "replace"]
  /\ UNCHANGED <<mode, job, todo, outcome, localVars>>

-----------------------------------------------------------------------------
StoreProgress(c) ==
  \/ Load(c) \/ Create(c) \/ Read(c) \/ LockEnter(c) \/ LockRefuse(c)
  \/ Check(c) \/ Replace(c) \/ Release(c)

StoreEnv ==
  \/ \E c \in Call : LoadFault(c) \/ WriteFault(c) \/ Crash(c)
  \/ ForeignWrite

StoreNext == StoreEnv \/ \E c \in Call : StoreProgress(c)

StoreSpec == StoreInit /\ [][StoreNext]_storeVars

(* A live caller's awaits are answered: the file system answers, and the wait
   for the lock is bounded, so it is let in or refused.                    *)
StoreLiveSpec == StoreSpec /\ \A c \in Call : WF_storeVars(StoreProgress(c))
-----------------------------------------------------------------------------
(* With no writer outside centrs, every mutation takes effect exactly once,
   at the rename, on what the file then holds, and any other answer leaves
   the file alone: no writer's change is dropped by another's.             *)
ImplementsRegister == RegisterSpec

(* What a rename is about to replace is what was loaded and checked, unless
   a foreign write landed between the check and the rename: the only window
   in which another writer's change can be lost.                           *)
ReplacesWhatItChecked ==
  \A c \in Call : At(c, "replace") => disk = snap[c] \/ late[c]

(* A CDB that was encrypted is never written open again: a mutation that
   loaded it open before a conversion does not undo the conversion.        *)
StaysEncrypted ==
  [][disk # Absent /\ disk.enc => disk' # Absent /\ disk'.enc]_storeVars

(* cdb/conflict surfaces from retryOnCdbConflict only after the file changed
   under each of the attempts.                                             *)
ConflictMeansContention ==
  \A c \in Call : outcome[c] = "conflict" =>
     lost[c] >= attempt[c] /\ (job[c].replay => attempt[c] = MaxAttempts)

(* "independent processes all land their changes ... N simultaneous writers
   need at most N attempts": with no more writers, foreign ones included,
   than attempts, no replaying caller gets cdb/conflict.                   *)
AllLand ==
  Cardinality(Call) + MaxForeign <= MaxAttempts =>
    \A c \in Call : job[c].replay => outcome[c] # "conflict"

(* "Record identity is the (target, user) pair": the file never holds two
   records of one identity, however callers race.                          *)
UniqueIdentity ==
  disk # Absent =>
    \A i, k \in DOMAIN disk.recs :
      /\ disk.recs[i].target = disk.recs[k].target
      /\ disk.recs[i].user = disk.recs[k].user
      => i = k

(* Every caller whose process lives on gets its answer.                    *)
EveryCallSettles == \A c \in Call : <>(outcome[c] # "none" \/ ~Live(c))
=============================================================================
