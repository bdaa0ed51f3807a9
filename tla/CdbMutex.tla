------------------------------ MODULE CdbMutex ------------------------------
(***************************************************************************)
(* What withWinBoxCdbLock promises its callers: at most one live call runs *)
(* its callback, a call that waits is let in or refused (cdb/locked), and  *)
(* a process may end at any moment.  CdbLock implements it; CdbStore is    *)
(* built on it.                                                            *)
(***************************************************************************)
CONSTANT Call  \* callers of withWinBoxCdbLock

VARIABLE mode  \* [Call -> "out" | "waiting" | "in" | "gone"]

MutexTypeOK == mode \in [Call -> {"out", "waiting", "in", "gone"}]

MutexInit == mode = [c \in Call |-> "out"]

Move(c, from, to) == mode[c] = from /\ mode' = [mode EXCEPT ![c] = to]

Request(c) == Move(c, "out", "waiting")

Enter(c) == (\A d \in Call : mode[d] # "in") /\ Move(c, "waiting", "in")

Refuse(c) == Move(c, "waiting", "out")

Exit(c) == Move(c, "in", "out")

Die(S) == mode' = [c \in Call |-> IF c \in S THEN "gone" ELSE mode[c]]

MutexNext ==
  \/ \E c \in Call : Request(c) \/ Enter(c) \/ Refuse(c) \/ Exit(c)
  \/ \E S \in SUBSET Call : Die(S)

MutexSpec == MutexInit /\ [][MutexNext]_mode
=============================================================================
