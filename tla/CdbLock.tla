------------------------------ MODULE CdbLock ------------------------------
(***************************************************************************)
(* The cross-process lock of the WinBox CDB (src/data/winbox-cdb-lock.ts): *)
(* a sibling file that link() makes appear with its holder record, waited  *)
(* for within a deadline, and broken when its holder is dead.              *)
(*                                                                         *)
(* An actor is a Call, one caller of withWinBoxCdbLock: it runs in an      *)
(* operating-system process procOf[c], and several calls may share one (the*)
(* MCP server).  Every await of the code is a boundary between two steps.  *)
(* A Proc is one incarnation of a process: after a crash it never runs     *)
(* again, and a later one may get its pid.                                 *)
(***************************************************************************)
EXTENDS Naturals

CONSTANTS
  Call,        \* callers of withWinBoxCdbLock
  Proc,        \* process incarnations
  Host,        \* values of os.hostname()
  procOf,      \* the process of a call
  hostOf,      \* the host of a process: one hostname is one pid namespace
  pidOf,       \* the pid of a process, reused once the process is gone
  MaxAcquire,  \* bound: acquisitions a call makes
  NoLock,      \* the lock file does not exist
  Unreadable,  \* a lock file readLockHolder cannot parse
  NoCall       \* nobody holds the recovery guard

(* A lock file holds the record of one acquisition: its call, hence pid and
   hostname, and the random token, hence which acquisition of that call.    *)
Token == [call : Call, n : Nat]

ASSUME LockConstants ==
  /\ procOf \in [Call -> Proc]
  /\ hostOf \in [Proc -> Host]
  /\ pidOf \in [Proc -> Nat]
  /\ MaxAcquire \in Nat
  /\ NoLock \notin Token
  /\ Unreadable \notin Token
  /\ NoLock # Unreadable
  /\ NoCall \notin Call

VARIABLES
  up,       \* [Proc -> "new" | "up" | "down"]
  lock,     \* the file <cdb>.lock
  guard,    \* [Host -> the call inside BEGIN IMMEDIATE on <cdb>.lock.guard]
  lpc,      \* [Call -> where in acquireLock / releaseLock it is]
  tok,      \* [Call -> ordinal of its current acquisition]
  dead,     \* [Call -> the lock record acquireLock read]
  again,    \* [Call -> the lock record breakDeadLock re-read]
  expired   \* [Call -> its deadline has passed]

lockVars == <<up, lock, guard, lpc, tok, dead, again, expired>>

LockState == Token \cup {NoLock, Unreadable}

LpcState == {"idle", "try", "read", "probe", "guard", "reread", "recheck",
             "unlink", "close", "wait", "locked", "held", "release", "drop"}

LockTypeOK ==
  /\ up \in [Proc -> {"new", "up", "down"}]
  /\ lock \in LockState
  /\ guard \in [Host -> Call \cup {NoCall}]
  /\ lpc \in [Call -> LpcState]
  /\ tok \in [Call -> Nat]
  /\ dead \in [Call -> LockState]
  /\ again \in [Call -> LockState]
  /\ expired \in [Call -> BOOLEAN]

LockInit ==
  /\ up = [p \in Proc |-> "new"]
  /\ lock \in {NoLock, Unreadable}
  /\ guard = [h \in Host |-> NoCall]
  /\ lpc = [c \in Call |-> "idle"]
  /\ tok = [c \in Call |-> 0]
  /\ dead = [c \in Call |-> NoLock]
  /\ again = [c \in Call |-> NoLock]
  /\ expired = [c \in Call |-> FALSE]

-----------------------------------------------------------------------------
Up(c) == up[procOf[c]] = "up"

HostOf(c) == hostOf[procOf[c]]

PidOf(c) == pidOf[procOf[c]]

TokenOf(c) == [call |-> c, n |-> tok[c]]

(* isProcessAlive: some process of this host answers to the pid.           *)
Alive(h, pid) == \E q \in Proc : up[q] = "up" /\ hostOf[q] = h /\ pidOf[q] = pid

(* Mutant: a holder is judged by its pid alone, whatever its host.         *)
HolderDeadAnyHost(c, l) ==
  l \in Token /\ PidOf(l.call) # PidOf(c) /\ ~Alive(HostOf(c), PidOf(l.call))

(* The condition under which acquireLock and breakDeadLock take the holder
   of record l for dead.                                                   *)
HolderDead(c, l) ==
  /\ l \in Token
  /\ HostOf(l.call) = HostOf(c)
  /\ PidOf(l.call) # PidOf(c)
  /\ ~Alive(HostOf(c), PidOf(l.call))

(* The call is inside acquireLock.                                         *)
Waiting(c) ==
  Up(c) /\ lpc[c] \notin {"idle", "locked", "held", "release", "drop"}

Goto(c, from, to) ==
  /\ Up(c)
  /\ lpc[c] = from
  /\ lpc' = [lpc EXCEPT ![c] = to]

-----------------------------------------------------------------------------
(* Processes.                                                              *)

Start(p) ==
  /\ up[p] = "new"
  /\ ~Alive(hostOf[p], pidOf[p])
  /\ up' = [up EXCEPT ![p] = "up"]
  /\ UNCHANGED <<lock, guard, lpc, tok, dead, again, expired>>

(* Mutant: the guard is a file that outlives its process.                  *)
CrashKeepingGuard(p) ==
  /\ up[p] = "up"
  /\ up' = [up EXCEPT ![p] = "down"]
  /\ lpc' = [c \in Call |-> IF procOf[c] = p THEN "idle" ELSE lpc[c]]
  /\ expired' = [c \in Call |-> IF procOf[c] = p THEN FALSE ELSE expired[c]]
  /\ UNCHANGED <<lock, guard, tok, dead, again>>

(* The process ends, wherever its calls are, and its memory with it; the
   operating system drops its SQLite lock of the guard, and the lock file
   stays.                                                                  *)
Crash(p) ==
  /\ up[p] = "up"
  /\ up' = [up EXCEPT ![p] = "down"]
  /\ guard' = [h \in Host |->
                 IF guard[h] # NoCall /\ procOf[guard[h]] = p
                   THEN NoCall ELSE guard[h]]
  /\ lpc' = [c \in Call |-> IF procOf[c] = p THEN "idle" ELSE lpc[c]]
  /\ dead' = [c \in Call |-> IF procOf[c] = p THEN NoLock ELSE dead[c]]
  /\ again' = [c \in Call |-> IF procOf[c] = p THEN NoLock ELSE again[c]]
  /\ expired' = [c \in Call |-> IF procOf[c] = p THEN FALSE ELSE expired[c]]
  /\ UNCHANGED <<lock, tok>>

-----------------------------------------------------------------------------
(* acquireLock.                                                            *)

Acquire(c) ==
  /\ Goto(c, "idle", "try")
  /\ tok[c] < MaxAcquire
  /\ tok' = [tok EXCEPT ![c] = @ + 1]
  /\ expired' = [expired EXCEPT ![c] = FALSE]
  /\ UNCHANGED <<up, lock, guard, dead, again>>

(* Mutant: rename() in place of link() replaces a lock that exists.        *)
TryRename(c) ==
  /\ Goto(c, "try", "held")
  /\ lock' = TokenOf(c)
  /\ UNCHANGED <<up, guard, tok, dead, again, expired>>

(* tryCreateLock: link() of the private temp file.                         *)
TryLink(c) ==
  /\ \/ /\ lock = NoLock
        /\ Goto(c, "try", "held")
        /\ lock' = TokenOf(c)
     \/ /\ lock # NoLock
        /\ Goto(c, "try", "read")
        /\ UNCHANGED lock
  /\ UNCHANGED <<up, guard, tok, dead, again, expired>>

ReadHolder(c) ==
  /\ Goto(c, "read", "probe")
  /\ dead' = [dead EXCEPT ![c] = lock]
  /\ UNCHANGED <<up, lock, guard, tok, again, expired>>

(* The liveness probe runs after the read resolved: the file may have moved
   on, and so may the holder.                                              *)
ProbeHolder(c) ==
  /\ \/ /\ HolderDead(c, dead[c])
        /\ Goto(c, "probe", "guard")
     \/ /\ ~HolderDead(c, dead[c])
        /\ Goto(c, "probe", "wait")
  /\ UNCHANGED <<up, lock, guard, tok, dead, again, expired>>

(* Mutant: the guard is recorded as taken by a pid.                        *)
GuardBeginByPid(c) ==
  /\ guard[HostOf(c)] = NoCall
  /\ Goto(c, "guard", "reread")
  /\ guard' = [guard EXCEPT ![HostOf(c)] = PidOf(c)]
  /\ UNCHANGED <<up, lock, tok, dead, again, expired>>

(* breakDeadLock, one breaker of a host at a time; SQLITE_BUSY gives up.   *)
GuardBegin(c) ==
  /\ \/ /\ guard[HostOf(c)] = NoCall
        /\ Goto(c, "guard", "reread")
        /\ guard' = [guard EXCEPT ![HostOf(c)] = c]
     \/ /\ guard[HostOf(c)] # NoCall
        /\ Goto(c, "guard", "wait")
        /\ UNCHANGED guard
  /\ UNCHANGED <<up, lock, tok, dead, again, expired>>

GuardReread(c) ==
  /\ Goto(c, "reread", "recheck")
  /\ again' = [again EXCEPT ![c] = lock]
  /\ UNCHANGED <<up, lock, guard, tok, dead, expired>>

(* Mutant: the lock found dead before the guard is removed on sight.       *)
GuardTrust(c) ==
  /\ Goto(c, "recheck", "unlink")
  /\ UNCHANGED <<up, lock, guard, tok, dead, again, expired>>

GuardRecheck(c) ==
  /\ \/ /\ again[c] = dead[c]
        /\ HolderDead(c, again[c])
        /\ Goto(c, "recheck", "unlink")
     \/ /\ ~(again[c] = dead[c] /\ HolderDead(c, again[c]))
        /\ Goto(c, "recheck", "close")
  /\ UNCHANGED <<up, lock, guard, tok, dead, again, expired>>

(* unlink() removes whatever file has the name by now.                     *)
GuardUnlink(c) ==
  /\ Goto(c, "unlink", "close")
  /\ lock' = NoLock
  /\ UNCHANGED <<up, guard, tok, dead, again, expired>>

GuardClose(c) ==
  /\ Goto(c, "close", "wait")
  /\ guard' = [guard EXCEPT ![HostOf(c)] = NoCall]
  /\ UNCHANGED <<up, lock, tok, dead, again, expired>>

(* After one round, whose readings are forgotten: cdb/locked past the
   deadline, else sleep and retry.                                         *)
Backoff(c) ==
  /\ \/ expired[c] /\ Goto(c, "wait", "locked")
     \/ ~expired[c] /\ Goto(c, "wait", "try")
  /\ dead' = [dead EXCEPT ![c] = NoLock]
  /\ again' = [again EXCEPT ![c] = NoLock]
  /\ UNCHANGED <<up, lock, guard, tok, expired>>

(* The wait budget runs out.                                               *)
Elapse(c) ==
  /\ Waiting(c)
  /\ ~expired[c]
  /\ expired' = [expired EXCEPT ![c] = TRUE]
  /\ UNCHANGED <<up, lock, guard, lpc, tok, dead, again>>

(* readLockHolder: an I/O error reads like an unparseable lock.            *)
ReadFault(c) ==
  /\ \/ /\ Goto(c, "read", "probe")
        /\ dead' = [dead EXCEPT ![c] = Unreadable]
        /\ UNCHANGED again
     \/ /\ Goto(c, "reread", "recheck")
        /\ again' = [again EXCEPT ![c] = Unreadable]
        /\ UNCHANGED dead
  /\ UNCHANGED <<up, lock, guard, tok, expired>>

(* An I/O error (no hard links, no permission, no guard file) is thrown; the
   guard is closed on the way out of breakDeadLock.                        *)
AcquireFault(c) ==
  /\ \/ /\ Goto(c, "try", "locked") \/ Goto(c, "guard", "locked")
        /\ UNCHANGED guard
     \/ /\ Goto(c, "unlink", "locked")
        /\ guard' = [guard EXCEPT ![HostOf(c)] = NoCall]
  /\ UNCHANGED <<up, lock, tok, dead, again, expired>>

(* The caller of withWinBoxCdbLock gets the error.                         *)
GiveUp(c) ==
  /\ Goto(c, "locked", "idle")
  /\ UNCHANGED <<up, lock, guard, tok, dead, again, expired>>

-----------------------------------------------------------------------------
(* releaseLock, in the finally of withWinBoxCdbLock.                       *)

Leave(c) ==
  /\ Goto(c, "held", "release")
  /\ UNCHANGED <<up, lock, guard, tok, dead, again, expired>>

ReleaseRead(c) ==
  /\ \/ lock = TokenOf(c) /\ Goto(c, "release", "drop")
     \/ lock # TokenOf(c) /\ Goto(c, "release", "idle")
  /\ UNCHANGED <<up, lock, guard, tok, dead, again, expired>>

ReleaseUnlink(c) ==
  /\ Goto(c, "drop", "idle")
  /\ lock' = NoLock
  /\ UNCHANGED <<up, guard, tok, dead, again, expired>>

(* The read or the unlink fails; both errors are swallowed, so the lock of a
   live process stays behind.                                              *)
ReleaseFault(c) ==
  /\ Goto(c, "release", "idle") \/ Goto(c, "drop", "idle")
  /\ UNCHANGED <<up, lock, guard, tok, dead, again, expired>>

-----------------------------------------------------------------------------
(* The steps of acquireLock and releaseLock that the event loop completes by
   itself, and those of the environment.                                   *)
LockProgress(c) ==
  \/ TryLink(c) \/ ReadHolder(c) \/ ProbeHolder(c)
  \/ GuardBegin(c) \/ GuardReread(c) \/ GuardRecheck(c)
  \/ GuardUnlink(c) \/ GuardClose(c) \/ Backoff(c)
  \/ ReleaseRead(c) \/ ReleaseUnlink(c)

LockEnv ==
  \/ \E p \in Proc : Start(p) \/ Crash(p)
  \/ \E c \in Call : Elapse(c) \/ ReadFault(c) \/ AcquireFault(c) \/ ReleaseFault(c)

LockNext ==
  \/ LockEnv
  \/ \E c \in Call : LockProgress(c) \/ Acquire(c) \/ Leave(c) \/ GiveUp(c)

LockSpec == LockInit /\ [][LockNext]_lockVars

(* The event loop of a live process runs its continuations, and a lock file
   that is read again and again is not unreadable every time; nothing is
   promised of the caller's own code, of crashes or of the clock.          *)
LockFairness ==
  \A c \in Call : /\ WF_lockVars(LockProgress(c))
                  /\ SF_lockVars(ReadHolder(c))
                  /\ SF_lockVars(GuardReread(c))

LockLiveSpec == LockSpec /\ LockFairness

-----------------------------------------------------------------------------
(* The lock implements the mutex its callers rely on.                      *)
ModeAt(u, l) ==
  CASE u = "down" -> "gone"
    [] u # "down" /\ l \in {"idle", "release", "drop"} -> "out"
    [] u # "down" /\ l = "held" -> "in"
    [] OTHER -> "waiting"

LockMode == [c \in Call |-> ModeAt(up[procOf[c]], lpc[c])]

Mutex == INSTANCE CdbMutex WITH mode <- LockMode

(* Every behaviour of the lock file, the guard and the crashes is one of the
   mutex of CdbMutex: a call is let in only while no live call is inside.  *)
ImplementsMutex == Mutex!MutexSpec

InSection(c) == Up(c) /\ lpc[c] = "held"

(* Two live calls are never inside the callback of withWinBoxCdbLock at the
   same time, whatever crashes, breakers and reused pids do: "Run fn while
   holding the exclusive lock".                                            *)
MutualExclusion ==
  \A c, d \in Call : InSection(c) /\ InSection(d) => c = d

(* The lock file of a live process disappears only by that call's own
   release: a breaker, a late release or a reader of a stale record never
   removes it, and a lock nobody can attribute (unreadable) or of another
   host stays for a person to delete.                                      *)
OnlyOwnerOrDead ==
  [][lock # NoLock /\ lock' # lock =>
       /\ lock \in Token
       /\ \/ lpc[lock.call] = "drop" /\ Up(lock.call)
          \/ /\ up[procOf[lock.call]] = "down"
             /\ \E d \in Call : HostOf(d) = HostOf(lock.call) /\ lpc[d] = "unlink"
    ]_lockVars

(* A dead holder's lock does not outlive the waiters of its host: a call that
   keeps waiting within its budget while the lock file names a dead process
   sees it go, whichever breaker crashes with the guard in its hands.      *)
DeadHolderRecovered ==
  \A c \in Call : []<>~(Waiting(c) /\ ~expired[c] /\ HolderDead(c, lock))
=============================================================================
