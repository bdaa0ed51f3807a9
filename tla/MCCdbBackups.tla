---------------------------- MODULE MCCdbBackups ----------------------------
(* Small instances of MCCdbLock's namesakes and of CdbBackups.             *)
EXTENDS MCCdbLock, CdbBackups

(* A negative retention is no pruning.                                     *)
KeepSome == {-1, 1, 2, 3}

-----------------------------------------------------------------------------
(* One run looks at the lock and at the overwrites that take turns under it.
   They share no variable, so each is run while the other has not begun.   *)
LockAlone == LockNext /\ writes = <<>> /\ UNCHANGED backupVars

BackupsAlone ==
  BackupNext /\ (\A p \in Proc : up[p] = "new") /\ UNCHANGED lockVars

BothInit == LockInit /\ BackupInit

BothSpec == BothInit /\ [][LockAlone \/ BackupsAlone]_<<lockVars, backupVars>>
=============================================================================
