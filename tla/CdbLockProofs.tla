--------------------------- MODULE CdbLockProofs ---------------------------
(***************************************************************************)
(* The lock of CdbLock for every number of calls, processes and hosts and  *)
(* any reuse of pids: type correctness, mutual exclusion, what may remove  *)
(* the lock file, and that the lock implements CdbMutex.                   *)
(*                                                                         *)
(* The argument.  A call inside, or releasing, finds its own record in the *)
(* lock file.  A breaker past its first probe knows that the owner of the  *)
(* record it read is down for good, so that this record can only go away   *)
(* through a breaker of that host, and those take turns under the guard: a *)
(* record re-read under the guard and found the same is still in the file  *)
(* when unlink() runs.                                                     *)
(***************************************************************************)
EXTENDS CdbLock, TLAPS

(* The call is inside the callback, or has left it and not yet released.   *)
Holding(c) == Up(c) /\ lpc[c] \in {"held", "release", "drop"}

(* The record was written by a process of c's host that is down.           *)
OwnerDown(c, l) ==
  l \in Token /\ up[procOf[l.call]] = "down" /\ HostOf(l.call) = HostOf(c)

NewIsIdle == \A c \in Call : up[procOf[c]] = "new" => lpc[c] = "idle"

HoldersOwn == \A c \in Call : Holding(c) => lock = TokenOf(c)

WritersStarted ==
  /\ lock \in Token => up[procOf[lock.call]] # "new"
  /\ \A c \in Call : dead[c] \in Token => up[procOf[dead[c].call]] # "new"

GuardHeld ==
  \A c \in Call : Up(c) /\ lpc[c] \in {"reread", "recheck", "unlink", "close"}
                    => guard[HostOf(c)] = c

BreakersKnow ==
  \A c \in Call : Up(c) /\ lpc[c] \in {"guard", "reread", "recheck", "unlink"}
                    => OwnerDown(c, dead[c])

BreakersSure ==
  \A c \in Call :
    /\ Up(c) /\ lpc[c] \in {"recheck", "unlink"} /\ again[c] = dead[c]
         => lock = dead[c]
    /\ Up(c) /\ lpc[c] = "unlink" => again[c] = dead[c]

LockInv ==
  /\ LockTypeOK /\ NewIsIdle /\ HoldersOwn /\ WritersStarted
  /\ GuardHeld /\ BreakersKnow /\ BreakersSure

(* Only a call that links, a sure breaker or a releasing owner changes the
   lock file, and none of them while another call holds.                   *)
LEMMA UnlinkedIsDown ==
  ASSUME LockInv, NEW c \in Call, Up(c), lpc[c] = "unlink"
  PROVE  OwnerDown(c, lock)
BY DEF LockInv, BreakersKnow, BreakersSure

LEMMA DownHoldsNothing ==
  ASSUME LockInv, NEW c \in Call, NEW d \in Call, OwnerDown(c, lock)
  PROVE  ~Holding(d)
BY DEF LockInv, HoldersOwn, OwnerDown, Holding, Up, TokenOf, Token

LEMMA OneHolder ==
  ASSUME LockInv, NEW c \in Call, NEW d \in Call, Holding(c), Holding(d)
  PROVE  c = d
BY DEF LockInv, HoldersOwn, TokenOf

LEMMA OneBreaker ==
  ASSUME LockInv, LockConstants, NEW c \in Call, NEW d \in Call,
         Up(c), lpc[c] \in {"recheck", "unlink"}, again[c] = dead[c],
         Up(d), lpc[d] = "unlink"
  PROVE  c = d
<1>1. OwnerDown(c, lock) /\ OwnerDown(d, lock)
  BY DEF LockInv, BreakersKnow, BreakersSure
<1>2. HostOf(c) = HostOf(d)
  BY <1>1 DEF OwnerDown
<1>3. QED
  BY <1>2 DEF LockInv, GuardHeld

-----------------------------------------------------------------------------
LEMMA LockInitInv ==
  ASSUME LockConstants, LockInit
  PROVE  LockInv
<1>1. LockTypeOK
  BY DEF LockConstants, LockInit, LockTypeOK, LockState, LpcState
<1>2. NewIsIdle /\ HoldersOwn /\ GuardHeld /\ BreakersKnow /\ BreakersSure
  BY DEF LockConstants, LockInit, NewIsIdle, HoldersOwn, GuardHeld, BreakersKnow,
         BreakersSure, Holding, Up
<1>3. WritersStarted
  BY DEF LockConstants, LockInit, WritersStarted
<1>4. QED
  BY <1>1, <1>2, <1>3 DEF LockInv

(* Every step of LockNext keeps the invariant: the processes first, then the
   actions of one call, each with the conjuncts about holders (who wrote the
   lock file) and those about breakers (what a breaker knows of it).       *)
LEMMA LockInductive ==
  ASSUME LockConstants, LockInv, [LockNext]_lockVars
  PROVE  LockInv'
<1> USE DEF LockInv, lockVars
<1>1. ASSUME NEW p \in Proc, Start(p) PROVE LockInv'
  <2>1. LockTypeOK'
    BY <1>1 DEF LockConstants, Start, LockTypeOK
  <2>2. \A c \in Call : Up(c)' => Up(c) \/ lpc[c] = "idle"
    BY <1>1 DEF LockConstants, Start, LockTypeOK, NewIsIdle, Up
  <2>3. \A q \in Proc : up'[q] = "new" => up[q] = "new"
    BY <1>1 DEF Start, LockTypeOK
  <2>4. \A q \in Proc : up[q] = "down" => up'[q] = "down"
    BY <1>1 DEF Start, LockTypeOK
  <2>5. NewIsIdle' /\ HoldersOwn' /\ GuardHeld' /\ BreakersSure'
    BY <1>1, <2>2, <2>3 DEF LockConstants, Start, NewIsIdle, HoldersOwn, GuardHeld,
       BreakersSure, Holding, TokenOf, HostOf
  <2>6. WritersStarted'
    BY <1>1, <2>3 DEF LockConstants, Start, WritersStarted, Token
  <2>7. BreakersKnow'
    BY <1>1, <2>2, <2>4 DEF LockConstants, Start, BreakersKnow, OwnerDown, HostOf, Token
  <2>8. QED
    BY <2>1, <2>5, <2>6, <2>7
<1>2. ASSUME NEW p \in Proc, Crash(p) PROVE LockInv'
  <2>1. LockTypeOK'
    BY <1>2 DEF LockConstants, Crash, LockTypeOK, LockState, LpcState
  <2>2. \A c \in Call : Up(c)' => /\ Up(c) /\ lpc'[c] = lpc[c]
                                  /\ dead'[c] = dead[c] /\ again'[c] = again[c]
    BY <1>2 DEF LockConstants, Crash, LockTypeOK, Up
  <2>3. \A q \in Proc : up'[q] = "new" => up[q] = "new"
    BY <1>2 DEF Crash, LockTypeOK
  <2>4. \A q \in Proc : up[q] = "down" => up'[q] = "down"
    BY <1>2 DEF Crash, LockTypeOK
  <2>5. NewIsIdle'
    BY <1>2, <2>3 DEF LockConstants, Crash, LockTypeOK, NewIsIdle
  <2>6. HoldersOwn' /\ BreakersSure'
    BY <1>2, <2>2 DEF Crash, HoldersOwn, BreakersSure, Holding, TokenOf
  <2>7. GuardHeld'
    BY <1>2, <2>2 DEF LockConstants, Crash, LockTypeOK, GuardHeld, HostOf, Up
  <2>8. WritersStarted'
    BY <1>2, <2>3 DEF LockConstants, Crash, LockTypeOK, WritersStarted, Token
  <2>9. BreakersKnow'
    BY <1>2, <2>2, <2>4 DEF LockConstants, Crash, BreakersKnow, OwnerDown, HostOf, Token
  <2>10. QED
    BY <2>1, <2>5, <2>6, <2>7, <2>8, <2>9
<1>3. ASSUME NEW c \in Call, Acquire(c) PROVE LockInv'
  <2>1. LockTypeOK'
    BY <1>3 DEF LockConstants, Acquire, Goto, LockTypeOK, LpcState
  <2>2. NewIsIdle' /\ HoldersOwn' /\ WritersStarted'
    BY <1>3 DEF LockConstants, Acquire, Goto, LockTypeOK, NewIsIdle, HoldersOwn,
       WritersStarted, Holding, Up, TokenOf
  <2>3. GuardHeld' /\ BreakersKnow' /\ BreakersSure'
    BY <1>3 DEF LockConstants, Acquire, Goto, LockTypeOK, GuardHeld, BreakersKnow,
       BreakersSure, OwnerDown, Up, HostOf
  <2>4. QED
    BY <2>1, <2>2, <2>3
<1>4. ASSUME NEW c \in Call, TryLink(c) PROVE LockInv'
  <2>1. LockTypeOK'
    BY <1>4 DEF LockConstants, TryLink, Goto, LockTypeOK, LpcState, LockState, Token, TokenOf
  <2>2. NewIsIdle' /\ HoldersOwn' /\ WritersStarted'
    BY <1>4 DEF LockConstants, TryLink, Goto, LockTypeOK, NewIsIdle, HoldersOwn,
       WritersStarted, Holding, Up, TokenOf, Token
  <2>3. GuardHeld' /\ BreakersKnow' /\ BreakersSure'
    BY <1>4 DEF LockConstants, TryLink, Goto, LockTypeOK, GuardHeld, BreakersKnow,
       BreakersSure, OwnerDown, Up, HostOf
  <2>4. QED
    BY <2>1, <2>2, <2>3
<1>5. ASSUME NEW c \in Call, ReadHolder(c) PROVE LockInv'
  <2>1. LockTypeOK'
    BY <1>5 DEF LockConstants, ReadHolder, Goto, LockTypeOK, LpcState
  <2>2. NewIsIdle' /\ HoldersOwn' /\ WritersStarted'
    BY <1>5 DEF LockConstants, ReadHolder, Goto, LockTypeOK, NewIsIdle, HoldersOwn,
       WritersStarted, Holding, Up, TokenOf
  <2>3. GuardHeld' /\ BreakersKnow' /\ BreakersSure'
    BY <1>5 DEF LockConstants, ReadHolder, Goto, LockTypeOK, GuardHeld, BreakersKnow,
       BreakersSure, OwnerDown, Up, HostOf
  <2>4. QED
    BY <2>1, <2>2, <2>3
<1>6. ASSUME NEW c \in Call, ProbeHolder(c) PROVE LockInv'
  <2>1. LockTypeOK'
    BY <1>6 DEF LockConstants, ProbeHolder, Goto, LockTypeOK, LpcState
  <2>2. NewIsIdle' /\ HoldersOwn' /\ WritersStarted' /\ GuardHeld' /\ BreakersSure'
    BY <1>6 DEF LockConstants, ProbeHolder, Goto, LockTypeOK, NewIsIdle, HoldersOwn,
       WritersStarted, GuardHeld, BreakersSure, Holding, Up, TokenOf, HostOf
  <2>3. HolderDead(c, dead[c]) => OwnerDown(c, dead[c])
    BY DEF LockConstants, HolderDead, Alive, OwnerDown, WritersStarted, LockTypeOK,
       HostOf, PidOf, Token
  <2>4. BreakersKnow'
    BY <1>6, <2>3 DEF LockConstants, ProbeHolder, Goto, LockTypeOK, BreakersKnow,
       OwnerDown, Up, HostOf
  <2>5. QED
    BY <2>1, <2>2, <2>4
<1>7. ASSUME NEW c \in Call, GuardBegin(c) PROVE LockInv'
  <2>1. LockTypeOK'
    BY <1>7 DEF LockConstants, GuardBegin, Goto, LockTypeOK, LpcState
  <2>2. NewIsIdle' /\ HoldersOwn' /\ WritersStarted'
    BY <1>7 DEF LockConstants, GuardBegin, Goto, LockTypeOK, NewIsIdle, HoldersOwn,
       WritersStarted, Holding, Up, TokenOf
  <2>3. GuardHeld' /\ BreakersKnow' /\ BreakersSure'
    BY <1>7 DEF LockConstants, GuardBegin, Goto, LockTypeOK, GuardHeld, BreakersKnow,
       BreakersSure, OwnerDown, Up, HostOf
  <2>4. QED
    BY <2>1, <2>2, <2>3
<1>8. ASSUME NEW c \in Call, GuardReread(c) PROVE LockInv'
  <2>1. LockTypeOK'
    BY <1>8 DEF LockConstants, GuardReread, Goto, LockTypeOK, LpcState
  <2>2. NewIsIdle' /\ HoldersOwn' /\ WritersStarted'
    BY <1>8 DEF LockConstants, GuardReread, Goto, LockTypeOK, NewIsIdle, HoldersOwn,
       WritersStarted, Holding, Up, TokenOf
  <2>3. GuardHeld' /\ BreakersKnow' /\ BreakersSure'
    BY <1>8 DEF LockConstants, GuardReread, Goto, LockTypeOK, GuardHeld, BreakersKnow,
       BreakersSure, OwnerDown, Up, HostOf
  <2>4. QED
    BY <2>1, <2>2, <2>3
<1>9. ASSUME NEW c \in Call, GuardRecheck(c) PROVE LockInv'
  <2>1. LockTypeOK'
    BY <1>9 DEF LockConstants, GuardRecheck, Goto, LockTypeOK, LpcState
  <2>2. NewIsIdle' /\ HoldersOwn' /\ WritersStarted'
    BY <1>9 DEF LockConstants, GuardRecheck, Goto, LockTypeOK, NewIsIdle, HoldersOwn,
       WritersStarted, Holding, Up, TokenOf
  <2>3. GuardHeld' /\ BreakersKnow' /\ BreakersSure'
    BY <1>9 DEF LockConstants, GuardRecheck, Goto, LockTypeOK, GuardHeld, BreakersKnow,
       BreakersSure, OwnerDown, Up, HostOf
  <2>4. QED
    BY <2>1, <2>2, <2>3
<1>10. ASSUME NEW c \in Call, GuardUnlink(c) PROVE LockInv'
  <2>1. LockTypeOK'
    BY <1>10 DEF LockConstants, GuardUnlink, Goto, LockTypeOK, LpcState, LockState
  <2>2. \A d \in Call : ~Holding(d)
    BY <1>10, UnlinkedIsDown, DownHoldsNothing DEF GuardUnlink, Goto
  <2>3. NewIsIdle' /\ HoldersOwn' /\ WritersStarted'
    BY <1>10, <2>2 DEF LockConstants, GuardUnlink, Goto, LockTypeOK, NewIsIdle, HoldersOwn,
       WritersStarted, Holding, Up
  <2>4. GuardHeld' /\ BreakersKnow' /\ BreakersSure'
    BY <1>10, OneBreaker DEF LockConstants, GuardUnlink, Goto, LockTypeOK, GuardHeld,
       BreakersKnow, BreakersSure, OwnerDown, Up, HostOf
  <2>5. QED
    BY <2>1, <2>3, <2>4
<1>11. ASSUME NEW c \in Call, GuardClose(c) PROVE LockInv'
  <2>1. LockTypeOK'
    BY <1>11 DEF LockConstants, GuardClose, Goto, LockTypeOK, LpcState
  <2>2. NewIsIdle' /\ HoldersOwn' /\ WritersStarted'
    BY <1>11 DEF LockConstants, GuardClose, Goto, LockTypeOK, NewIsIdle, HoldersOwn,
       WritersStarted, Holding, Up, TokenOf
  <2>3. GuardHeld' /\ BreakersKnow' /\ BreakersSure'
    BY <1>11 DEF LockConstants, GuardClose, Goto, LockTypeOK, GuardHeld, BreakersKnow,
       BreakersSure, OwnerDown, Up, HostOf
  <2>4. QED
    BY <2>1, <2>2, <2>3
<1>12. ASSUME NEW c \in Call, Backoff(c) PROVE LockInv'
  <2>1. LockTypeOK'
    BY <1>12 DEF LockConstants, Backoff, Goto, LockTypeOK, LpcState, LockState
  <2>2. NewIsIdle' /\ HoldersOwn' /\ WritersStarted'
    BY <1>12 DEF LockConstants, Backoff, Goto, LockTypeOK, NewIsIdle, HoldersOwn,
       WritersStarted, Holding, Up, TokenOf
  <2>3. GuardHeld' /\ BreakersKnow' /\ BreakersSure'
    BY <1>12 DEF LockConstants, Backoff, Goto, LockTypeOK, GuardHeld, BreakersKnow,
       BreakersSure, OwnerDown, Up, HostOf
  <2>4. QED
    BY <2>1, <2>2, <2>3
<1>13. ASSUME NEW c \in Call, Elapse(c) PROVE LockInv'
  <2>1. LockTypeOK'
    BY <1>13 DEF LockConstants, Elapse, Goto, LockTypeOK, LpcState, Waiting
  <2>2. NewIsIdle' /\ HoldersOwn' /\ WritersStarted'
    BY <1>13 DEF LockConstants, Elapse, Goto, LockTypeOK, NewIsIdle, HoldersOwn,
       WritersStarted, Holding, Up, TokenOf
  <2>3. GuardHeld' /\ BreakersKnow' /\ BreakersSure'
    BY <1>13 DEF LockConstants, Elapse, Goto, LockTypeOK, GuardHeld, BreakersKnow,
       BreakersSure, OwnerDown, Up, HostOf
  <2>4. QED
    BY <2>1, <2>2, <2>3
<1>14. ASSUME NEW c \in Call, ReadFault(c) PROVE LockInv'
  <2>1. LockTypeOK'
    BY <1>14 DEF LockConstants, ReadFault, Goto, LockTypeOK, LpcState, LockState
  <2>2. NewIsIdle' /\ HoldersOwn' /\ WritersStarted'
    BY <1>14 DEF LockConstants, ReadFault, Goto, LockTypeOK, NewIsIdle, HoldersOwn,
       WritersStarted, Holding, Up, TokenOf
  <2>3. GuardHeld' /\ BreakersKnow' /\ BreakersSure'
    BY <1>14 DEF LockConstants, ReadFault, Goto, LockTypeOK, GuardHeld, BreakersKnow,
       BreakersSure, OwnerDown, Up, HostOf
  <2>4. QED
    BY <2>1, <2>2, <2>3
<1>15. ASSUME NEW c \in Call, AcquireFault(c) PROVE LockInv'
  <2>1. LockTypeOK'
    BY <1>15 DEF LockConstants, AcquireFault, Goto, LockTypeOK, LpcState
  <2>2. NewIsIdle' /\ HoldersOwn' /\ WritersStarted'
    BY <1>15 DEF LockConstants, AcquireFault, Goto, LockTypeOK, NewIsIdle, HoldersOwn,
       WritersStarted, Holding, Up, TokenOf
  <2>3. GuardHeld' /\ BreakersKnow' /\ BreakersSure'
    BY <1>15 DEF LockConstants, AcquireFault, Goto, LockTypeOK, GuardHeld, BreakersKnow,
       BreakersSure, OwnerDown, Up, HostOf
  <2>4. QED
    BY <2>1, <2>2, <2>3
<1>16. ASSUME NEW c \in Call, GiveUp(c) PROVE LockInv'
  <2>1. LockTypeOK'
    BY <1>16 DEF LockConstants, GiveUp, Goto, LockTypeOK, LpcState
  <2>2. NewIsIdle' /\ HoldersOwn' /\ WritersStarted'
    BY <1>16 DEF LockConstants, GiveUp, Goto, LockTypeOK, NewIsIdle, HoldersOwn,
       WritersStarted, Holding, Up, TokenOf
  <2>3. GuardHeld' /\ BreakersKnow' /\ BreakersSure'
    BY <1>16 DEF LockConstants, GiveUp, Goto, LockTypeOK, GuardHeld, BreakersKnow,
       BreakersSure, OwnerDown, Up, HostOf
  <2>4. QED
    BY <2>1, <2>2, <2>3
<1>17. ASSUME NEW c \in Call, Leave(c) PROVE LockInv'
  <2>1. LockTypeOK'
    BY <1>17 DEF LockConstants, Leave, Goto, LockTypeOK, LpcState
  <2>2. NewIsIdle' /\ HoldersOwn' /\ WritersStarted'
    BY <1>17 DEF LockConstants, Leave, Goto, LockTypeOK, NewIsIdle, HoldersOwn,
       WritersStarted, Holding, Up, TokenOf
  <2>3. GuardHeld' /\ BreakersKnow' /\ BreakersSure'
    BY <1>17 DEF LockConstants, Leave, Goto, LockTypeOK, GuardHeld, BreakersKnow,
       BreakersSure, OwnerDown, Up, HostOf
  <2>4. QED
    BY <2>1, <2>2, <2>3
<1>18. ASSUME NEW c \in Call, ReleaseRead(c) PROVE LockInv'
  <2>1. LockTypeOK'
    BY <1>18 DEF LockConstants, ReleaseRead, Goto, LockTypeOK, LpcState
  <2>2. NewIsIdle' /\ HoldersOwn' /\ WritersStarted'
    BY <1>18 DEF LockConstants, ReleaseRead, Goto, LockTypeOK, NewIsIdle, HoldersOwn,
       WritersStarted, Holding, Up, TokenOf
  <2>3. GuardHeld' /\ BreakersKnow' /\ BreakersSure'
    BY <1>18 DEF LockConstants, ReleaseRead, Goto, LockTypeOK, GuardHeld, BreakersKnow,
       BreakersSure, OwnerDown, Up, HostOf
  <2>4. QED
    BY <2>1, <2>2, <2>3
<1>19. ASSUME NEW c \in Call, ReleaseUnlink(c) PROVE LockInv'
  <2>1. LockTypeOK'
    BY <1>19 DEF LockConstants, ReleaseUnlink, Goto, LockTypeOK, LpcState, LockState
  <2>2. NewIsIdle' /\ HoldersOwn' /\ WritersStarted'
    BY <1>19 DEF LockConstants, ReleaseUnlink, Goto, LockTypeOK, NewIsIdle, HoldersOwn,
       WritersStarted, Holding, Up, TokenOf
  <2>3. \A d \in Call : ~OwnerDown(d, lock)
    BY <1>19, DownHoldsNothing DEF ReleaseUnlink, Goto, Holding
  <2>4. GuardHeld' /\ BreakersKnow' /\ BreakersSure'
    BY <1>19, <2>3 DEF LockConstants, ReleaseUnlink, Goto, LockTypeOK, GuardHeld,
       BreakersKnow, BreakersSure, OwnerDown, Up, HostOf
  <2>5. QED
    BY <2>1, <2>2, <2>4
<1>20. ASSUME NEW c \in Call, ReleaseFault(c) PROVE LockInv'
  <2>1. LockTypeOK'
    BY <1>20 DEF LockConstants, ReleaseFault, Goto, LockTypeOK, LpcState
  <2>2. NewIsIdle' /\ HoldersOwn' /\ WritersStarted'
    BY <1>20 DEF LockConstants, ReleaseFault, Goto, LockTypeOK, NewIsIdle, HoldersOwn,
       WritersStarted, Holding, Up, TokenOf
  <2>3. GuardHeld' /\ BreakersKnow' /\ BreakersSure'
    BY <1>20 DEF LockConstants, ReleaseFault, Goto, LockTypeOK, GuardHeld, BreakersKnow,
       BreakersSure, OwnerDown, Up, HostOf
  <2>4. QED
    BY <2>1, <2>2, <2>3
<1>21. CASE UNCHANGED lockVars
  BY <1>21 DEF LockTypeOK, NewIsIdle, HoldersOwn, WritersStarted, GuardHeld, BreakersKnow,
     BreakersSure, Holding, Up, TokenOf, OwnerDown, HostOf
<1>22. QED
  BY <1>1, <1>2, <1>3, <1>4, <1>5, <1>6, <1>7, <1>8, <1>9, <1>10, <1>11, <1>12, <1>13, <1>14, <1>15, <1>16, <1>17, <1>18, <1>19, <1>20, <1>21 DEF LockNext, LockEnv,
     LockProgress

-----------------------------------------------------------------------------
THEOREM LockInvariant == LockSpec => []LockInv
<1>1. LockInit => LockInv
  BY LockConstants, LockInitInv
<1>2. LockInv /\ [LockNext]_lockVars => LockInv'
  BY LockConstants, LockInductive
<1>3. QED
  BY <1>1, <1>2, PTL DEF LockSpec

(* Type correctness of the lock's state, for every instance.               *)
THEOREM LockTypeCorrect == LockSpec => []LockTypeOK
<1>1. LockInv => LockTypeOK
  BY DEF LockInv
<1>2. QED
  BY <1>1, LockInvariant, PTL

(* withWinBoxCdbLock never runs two callbacks at once, for any number of
   calls, processes and hosts, whatever crashes and whichever pids recur.  *)
THEOREM LockExcludes == LockSpec => []MutualExclusion
<1>1. LockInv => MutualExclusion
  BY OneHolder DEF MutualExclusion, InSection, Holding
<1>2. QED
  BY <1>1, LockInvariant, PTL

(* A lock file goes away only through its owner's release or through a
   breaker of the owner's host once the owner is down.                     *)
THEOREM LockRemovedRightly == LockSpec => OnlyOwnerOrDead
<1> DEFINE Rightly ==
      lock # NoLock /\ lock' # lock =>
        /\ lock \in Token
        /\ \/ lpc[lock.call] = "drop" /\ Up(lock.call)
           \/ /\ up[procOf[lock.call]] = "down"
              /\ \E d \in Call : HostOf(d) = HostOf(lock.call) /\ lpc[d] = "unlink"
<1>1. LockInv /\ [LockNext]_lockVars => [Rightly]_lockVars
  <2> SUFFICES ASSUME LockInv, LockNext, lock # NoLock, lock' # lock
               PROVE  Rightly
    BY DEF lockVars
  <2>1. \E c \in Call : GuardUnlink(c) \/ ReleaseUnlink(c)
    BY DEF LockNext, LockEnv, LockProgress, Start, Crash, Acquire, TryLink, ReadHolder,
       ProbeHolder, GuardBegin, GuardReread, GuardRecheck, GuardClose, Backoff,
       Elapse, ReadFault, AcquireFault, GiveUp, Leave, ReleaseRead, ReleaseFault
  <2>2. PICK c \in Call : GuardUnlink(c) \/ ReleaseUnlink(c)
    BY <2>1
  <2>3. CASE GuardUnlink(c)
    BY <2>3, UnlinkedIsDown DEF GuardUnlink, Goto, OwnerDown
  <2>4. CASE ReleaseUnlink(c)
    BY <2>4 DEF ReleaseUnlink, Goto, LockInv, LockTypeOK, HoldersOwn, Holding,
       TokenOf, Token
  <2>5. QED
    BY <2>2, <2>3, <2>4
<1>2. QED
  BY <1>1, LockInvariant, PTL DEF LockSpec, OnlyOwnerOrDead

-----------------------------------------------------------------------------
(* The lock implements the mutex.                                          *)

LEMMA InitImplements ==
  ASSUME LockInit
  PROVE  Mutex!MutexInit
BY LockConstants DEF LockConstants, LockInit, LockMode, ModeAt,
   Mutex!MutexInit

LEMMA ModeValues ==
  /\ \A l \in {"idle", "release", "drop"} : ModeAt("up", l) = "out"
  /\ ModeAt("up", "held") = "in"
  /\ \A l \in LpcState \ {"idle", "release", "drop", "held"} :
        ModeAt("up", l) = "waiting"
  /\ \A l \in LpcState : ModeAt("down", l) = "gone" /\ ModeAt("new", l) # "gone"
BY DEF ModeAt, LpcState

(* What a step that takes call c from one place to another does to the mode
   the lock maps to.                                                       *)
LEMMA ModeStep ==
  ASSUME LockInv, NEW c \in Call, NEW k, NEW l, Goto(c, k, l), up' = up
  PROVE  /\ LockMode[c] = ModeAt("up", k)
         /\ LockMode' = [LockMode EXCEPT ![c] = ModeAt("up", l)]
<1>1. LockMode' = [d \in Call |-> IF d = c THEN ModeAt("up", l) ELSE LockMode[d]]
  BY LockConstants DEF LockInv, LockTypeOK, LockConstants, LockMode, Up, Goto
<1>2. QED
  BY <1>1 DEF LockMode, Up, Goto

(* A step within acquireLock, or within releaseLock, is a stutter.         *)
LEMMA Stutters ==
  ASSUME LockInv, NEW c \in Call, NEW k, NEW l, Goto(c, k, l), up' = up,
         ModeAt("up", k) = ModeAt("up", l)
  PROVE  LockMode' = LockMode
BY ModeStep DEF LockMode

LEMMA CrashDies ==
  ASSUME LockInv, NEW p \in Proc, Crash(p)
  PROVE  Mutex!Die({c \in Call : procOf[c] = p})
BY LockConstants DEF LockInv, LockTypeOK, LockConstants, Crash, Mutex!Die, LockMode, ModeAt

LEMMA StartStutters ==
  ASSUME LockInv, NEW p \in Proc, Start(p)
  PROVE  LockMode' = LockMode
BY LockConstants, ModeValues DEF LockInv, LockTypeOK, LockConstants, Start, LockMode, NewIsIdle, ModeAt

LEMMA StepImplements ==
  ASSUME LockInv, [LockNext]_lockVars
  PROVE  [Mutex!MutexNext]_LockMode
<1> USE ModeValues DEF LpcState
<1>1. ASSUME NEW p \in Proc, Start(p) PROVE LockMode' = LockMode
  BY <1>1, StartStutters
<1>2. ASSUME NEW p \in Proc, Crash(p) PROVE Mutex!MutexNext
  BY <1>2, CrashDies DEF Mutex!MutexNext
<1>3. ASSUME NEW c \in Call, Acquire(c) PROVE Mutex!MutexNext
  BY <1>3, ModeStep DEF Acquire, Mutex!MutexNext, Mutex!Request, Mutex!Move
<1>4. ASSUME NEW c \in Call, TryLink(c) PROVE [Mutex!MutexNext]_LockMode
  <2>1. CASE lock = NoLock
    <3>1. \A d \in Call : LockMode[d] # "in"
      <4> SUFFICES ASSUME NEW d \in Call, LockMode[d] = "in" PROVE FALSE
        OBVIOUS
      <4>1. Holding(d)
        BY LockConstants DEF LockInv, LockTypeOK, LockConstants, NewIsIdle, LockMode, ModeAt,
           Holding, Up
      <4>2. QED
        BY <4>1, <2>1, LockConstants DEF LockInv, LockTypeOK, LockConstants, HoldersOwn, TokenOf, Token
    <3>2. Mutex!Move(c, "waiting", "in")
      BY <1>4, <2>1, ModeStep DEF TryLink, Mutex!Move
    <3>3. QED
      BY <3>1, <3>2 DEF Mutex!MutexNext, Mutex!Enter
  <2>2. CASE lock # NoLock
    BY <1>4, <2>2, Stutters DEF TryLink
  <2>3. QED
    BY <2>1, <2>2
<1>5. ASSUME NEW c \in Call, ReadHolder(c) \/ ProbeHolder(c) \/ GuardBegin(c)
                              \/ GuardReread(c) \/ GuardRecheck(c) \/ GuardUnlink(c)
                              \/ GuardClose(c) \/ Backoff(c) \/ ReadFault(c)
      PROVE LockMode' = LockMode
  BY <1>5, Stutters DEF ReadHolder, ProbeHolder, GuardBegin, GuardReread, GuardRecheck,
     GuardUnlink, GuardClose, Backoff, ReadFault
<1>6. ASSUME NEW c \in Call, Elapse(c) PROVE LockMode' = LockMode
  BY <1>6 DEF Elapse, LockMode
<1>7. ASSUME NEW c \in Call, AcquireFault(c) PROVE LockMode' = LockMode
  BY <1>7, Stutters DEF AcquireFault
<1>8. ASSUME NEW c \in Call, GiveUp(c) PROVE Mutex!MutexNext
  BY <1>8, ModeStep DEF GiveUp, Mutex!MutexNext, Mutex!Refuse, Mutex!Move
<1>9. ASSUME NEW c \in Call, Leave(c) PROVE Mutex!MutexNext
  BY <1>9, ModeStep DEF Leave, Mutex!MutexNext, Mutex!Exit, Mutex!Move
<1>10. ASSUME NEW c \in Call, ReleaseRead(c) \/ ReleaseUnlink(c) \/ ReleaseFault(c)
       PROVE LockMode' = LockMode
  BY <1>10, Stutters DEF ReleaseRead, ReleaseUnlink, ReleaseFault
<1>11. CASE UNCHANGED lockVars
  BY <1>11 DEF lockVars, LockMode
<1>12. QED
  BY <1>1, <1>2, <1>3, <1>4, <1>5, <1>6, <1>7, <1>8, <1>9, <1>10, <1>11
     DEF LockNext, LockEnv, LockProgress

(* Every behaviour of the lock is a behaviour of CdbMutex, which is all that
   CdbStore assumes of it.                                                 *)
THEOREM LockImplementsMutex == LockSpec => ImplementsMutex
<1>1. LockInit => Mutex!MutexInit
  BY InitImplements
<1>2. LockInv /\ [LockNext]_lockVars => [Mutex!MutexNext]_LockMode
  BY StepImplements
<1>3. QED
  BY <1>1, <1>2, LockInvariant, PTL DEF LockSpec, ImplementsMutex, Mutex!MutexSpec
=============================================================================
