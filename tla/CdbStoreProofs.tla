-------------------------- MODULE CdbStoreProofs --------------------------
(***************************************************************************)
(* The transaction of CdbStore for every number of callers, targets, jobs  *)
(* and attempts: type correctness, what a rename replaces, when a conflict *)
(* surfaces, that encryption sticks, with no writer outside centrs that it *)
(* implements the atomic CdbRegister, that every writer lands when there   *)
(* are attempts enough, and that identities stay unique; and, for any      *)
(* overwrites, which backups of CdbBackups stay.                           *)
(*                                                                         *)
(* The argument.  Whoever is between the check and the release is inside   *)
(* the mutex, alone; creation touches the file only while there is none;   *)
(* so what was checked is still there at the rename unless a foreign write *)
(* came in between.                                                        *)
(***************************************************************************)
EXTENDS CdbStore, CdbBackups, FiniteSetTheorems, SequenceTheorems,
        WellFoundedInduction, TLAPS

-----------------------------------------------------------------------------
(* What the data operators return.                                         *)

LEMMA FunctionIsSeq ==
  ASSUME NEW S, NEW n \in Nat, NEW f \in [1..n -> S]
  PROVE  f \in Seq(S)
BY SeqDef

LEMMA EmptyCdbType ==
  ASSUME NEW enc \in BOOLEAN
  PROVE  EmptyCdb(enc) \in Cdb
<1>1. <<>> \in Seq(Rec)
  BY EmptySeq
<1>2. QED
  BY <1>1 DEF EmptyCdb, Cdb, Seal

(* A record of the file stands at each index that matches.                 *)
LEMMA MatchesInRange ==
  ASSUME NEW recs \in Seq(Rec), NEW t, NEW u
  PROVE  /\ Matches(recs, t, u) \subseteq 1..Len(recs)
         /\ \A i \in Matches(recs, t, u) : recs[i] \in Rec
BY LenProperties, ElementOfSeq DEF Matches

LEMMA AddedType ==
  ASSUME NEW c \in Call, NEW j \in Job, NEW t \in Target, NEW recs \in Seq(Rec),
         j.kind \in {"add", "force", "save"}
  PROVE  Added(c, j, t, recs) \in Seq(Rec)
<1> DEFINE new == [target |-> t, user |-> j.user, edits |-> {c}]
           old == Matches(recs, t, j.user)
<1>1. new \in Rec
  BY DEF Job, Rec
<1>2. Append(recs, new) \in Seq(Rec)
  BY <1>1, AppendProperties
<1>3. [i \in DOMAIN recs |-> IF i \in old THEN new ELSE recs[i]] \in Seq(Rec)
  <2>1. \A i \in 1..Len(recs) : (IF i \in old THEN new ELSE recs[i]) \in Rec
    BY <1>1, ElementOfSeq
  <2>2. [i \in DOMAIN recs |-> IF i \in old THEN new ELSE recs[i]]
          \in [1..Len(recs) -> Rec]
    BY <2>1, LenProperties
  <2>3. QED
    BY <2>2, LenProperties, FunctionIsSeq
<1>4. QED
  BY <1>2, <1>3 DEF Added

LEMMA ChangedType ==
  ASSUME NEW c \in Call, NEW j \in Job, NEW t, NEW recs \in Seq(Rec)
  PROVE  Changed(c, j, t, recs) \in Seq(Rec)
<1> DEFINE new(i) == [recs[i] EXCEPT !.user = IF j.to = Anyone THEN @ ELSE j.to,
                                     !.edits = @ \cup {c}]
<1>1. \A i \in 1..Len(recs) : recs[i] \in Rec
  BY ElementOfSeq
<1>2. \A i \in 1..Len(recs) : new(i) \in Rec
  BY <1>1 DEF Rec, Job
<1>3. Changed(c, j, t, recs) \in [1..Len(recs) -> Rec]
  BY <1>1, <1>2, LenProperties DEF Changed
<1>4. QED
  BY <1>3, LenProperties, FunctionIsSeq

LEMMA RemovedType ==
  ASSUME NEW recs \in Seq(Rec), NEW i \in 1..Len(recs)
  PROVE  RemoveAt(recs, i) \in Seq(Rec)
<1>1. SubSeq(recs, 1, i - 1) \in Seq(Rec) /\ SubSeq(recs, i + 1, Len(recs)) \in Seq(Rec)
  BY LenProperties, ElementOfSeq, SubSeqProperties
<1>2. QED
  BY <1>1, ConcatProperties DEF RemoveAt

LEMMA NewCdbType ==
  ASSUME NEW c \in Call, NEW j \in Job, NEW t \in Target, NEW d \in Cdb,
         ~Refuses(j, t, d)
  PROVE  NewCdb(c, j, t, d) \in Cdb
<1>1. d.recs \in Seq(Rec) /\ d.enc \in BOOLEAN /\ d.salt \in Nat
  BY DEF Cdb
<1>2. NewRecs(c, j, t, d.recs) \in Seq(Rec)
  <2>1. CASE j.kind \in {"add", "force", "save"}
    BY <1>1, <2>1, AddedType DEF NewRecs
  <2>2. CASE j.kind = "set"
    BY <1>1, <2>2, ChangedType DEF NewRecs
  <2>3. CASE j.kind = "remove"
    <3>1. Matches(d.recs, t, j.user) # {}
      BY <2>3 DEF Refuses, Single
    <3>2. (CHOOSE i \in Matches(d.recs, t, j.user) : TRUE) \in 1..Len(d.recs)
      BY <1>1, <3>1, MatchesInRange
    <3>3. QED
      BY <1>1, <2>3, <3>2, RemovedType DEF NewRecs, Removed
  <2>4. CASE j.kind \notin {"add", "force", "save", "set", "remove"}
    BY <1>1, <2>4 DEF NewRecs
  <2>5. QED
    BY <2>1, <2>2, <2>3, <2>4
<1>3. QED
  BY <1>1, <1>2 DEF NewCdb, Cdb, Seal

(* What WinBox may save.                                                   *)
LEMMA ForeignRecsType ==
  ASSUME NEW recs \in Seq(Rec), NEW new \in ForeignRecs(recs)
  PROVE  new \in Seq(Rec)
<1>1. CASE \E t \in Target : new = Append(recs, [target |-> t, user |-> NoUser, edits |-> {}])
  <2>1. PICK t \in Target : new = Append(recs, [target |-> t, user |-> NoUser, edits |-> {}])
    BY <1>1
  <2>2. [target |-> t, user |-> NoUser, edits |-> {}] \in Rec
    BY CdbDataConstants DEF CdbDataConstants, Rec
  <2>3. QED
    BY <2>1, <2>2, AppendProperties
<1>2. CASE \E i \in 1..Len(recs) : new = RemoveAt(recs, i)
  BY <1>2, RemovedType
<1>3. QED
  BY <1>1, <1>2, LenProperties DEF ForeignRecs

(* The targets left after those passed over, and what the first of them is.*)
LEMMA RestType ==
  ASSUME NEW j, NEW s \in Seq(Target), NEW d, NEW k \in NextAt(j, s, d)
  PROVE  /\ SubSeq(s, k, Len(s)) \in Seq(Target)
         /\ SubSeq(s, k, Len(s)) # <<>> => ~Skips(j, Head(SubSeq(s, k, Len(s))), d)
<1>1. k \in 1..(Len(s) + 1) /\ Len(s) \in Nat
  BY LenProperties DEF NextAt
<1>2. SubSeq(s, k, Len(s)) \in Seq(Target)
  BY <1>1, ElementOfSeq, SubSeqProperties
<1>3. CASE k <= Len(s)
  BY <1>1, <1>2, <1>3, HeadTailOfSubSeq DEF NextAt
<1>4. CASE k = Len(s) + 1
  BY <1>1, <1>2, <1>4, SubSeqEmpty
<1>5. QED
  BY <1>1, <1>2, <1>3, <1>4

-----------------------------------------------------------------------------
(* The inductive invariant.                                                *)

Inside == {"check", "replace", "committed", "stale", "failed"}

(* The mutex is taken from the check to the release, by one caller.        *)
ModesAgree ==
  /\ \A c \in Call : Live(c) => /\ pc[c] \in Inside <=> mode[c] = "in"
                                /\ pc[c] = "lock" <=> mode[c] = "waiting"
  /\ \A c, d \in Call : mode[c] = "in" /\ mode[d] = "in" => c = d

(* A caller on its way to the rename has a valid mutation of its snapshot. *)
ValidatedAt(c) ==
  /\ snap[c] # Absent /\ CanLoad(job[c], snap[c]) /\ todo[c] # <<>>
  /\ ~Refuses(job[c], Head(todo[c]), snap[c])
  /\ ~Skips(job[c], Head(todo[c]), snap[c])

Validated ==
  \A c \in Call : Live(c) /\ pc[c] \in {"lock", "check", "replace"} => ValidatedAt(c)

Unsettled ==
  \A c \in Call :
    Live(c) /\ \/ pc[c] \in {"load", "create", "read", "lock", "check", "replace"}
               \/ pc[c] = "committed" /\ job[c].kind = "save"
               \/ pc[c] = "stale" /\ Replays(c)
      => outcome[c] = "none"

(* Until the rename, nobody but a foreign writer, who keeps the file as open
   or as encrypted as it was, has touched what was checked.                *)
Checked ==
  \A c \in Call : At(c, "replace") =>
    /\ disk # Absent /\ disk.enc = snap[c].enc
    /\ disk = snap[c] \/ late[c]

LateIsForeign == foreign = 0 => \A c \in Call : ~late[c]

(* Each attempt but the current one failed on a change by someone else, and
   so did this one once the file is not the snapshot.                      *)
ChangesCounted ==
  \A c \in Call :
    /\ attempt[c] <= lost[c] + 1
    /\ Live(c) /\ pc[c] \in {"lock", "check"} /\ disk # snap[c] => attempt[c] <= lost[c]
    /\ Live(c) /\ pc[c] = "stale" => attempt[c] <= lost[c]
    /\ outcome[c] = "conflict" =>
         /\ attempt[c] <= lost[c]
         /\ ~Replays(c)
         /\ Live(c) => pc[c] \in {"stale", "done"}

StoreInv ==
  /\ StoreTypeOK /\ ModesAgree /\ Validated /\ Unsettled
  /\ Checked /\ LateIsForeign /\ ChangesCounted

LEMMA StoreInitInv ==
  ASSUME StoreInit
  PROVE  StoreInv
<1>1. StoreTypeOK
  BY CdbStoreConstants DEF CdbStoreConstants, StoreInit, StoreTypeOK, MutexTypeOK, MutexInit,
     Disk, PcState, Outcome
<1>2. ModesAgree /\ Validated /\ Unsettled /\ Checked /\ LateIsForeign /\ ChangesCounted
  BY CdbStoreConstants DEF CdbStoreConstants, StoreInit, MutexInit, ModesAgree, Validated,
     Unsettled, Checked, LateIsForeign, ChangesCounted, At, Inside
<1>3. QED
  BY <1>1, <1>2 DEF StoreInv

LEMMA StoreInductive ==
  ASSUME StoreInv, [StoreNext]_storeVars
  PROVE  StoreInv'
<1> USE DEF StoreInv
<1>1. ASSUME NEW c \in Call, Load(c) PROVE StoreInv'
  <2>1. StoreTypeOK'
    BY <1>1 DEF Load, Goto, At, End, StoreTypeOK, MutexTypeOK, PcState, Outcome, ghostVars
  <2>2. ModesAgree' /\ Validated' /\ Checked' /\ LateIsForeign'
    BY <1>1 DEF Load, Goto, At, End, StoreTypeOK, MutexTypeOK, ghostVars, ModesAgree,
       Validated, ValidatedAt, Checked, LateIsForeign, Live, Inside
  <2>3. /\ UNCHANGED <<mode, disk, job, todo, snap, attempt, lost>> /\ At(c, "load")
        /\ pc'[c] \in {"read", "create", "done"}
        /\ pc'[c] # "done" => outcome'[c] = outcome[c]
        /\ outcome'[c] \in {outcome[c], "refused"}
        /\ \A d \in Call \ {c} : pc'[d] = pc[d] /\ outcome'[d] = outcome[d]
    BY <1>1 DEF Load, Goto, At, End, StoreTypeOK, ghostVars
  <2>4. Unsettled'
    BY <2>3 DEF At, Unsettled, Live, Replays
  <2>5. ChangesCounted'
    <3>1. outcome[c] = "none"
      BY <2>3 DEF At, Unsettled
    <3>2. QED
      BY <2>3, <3>1 DEF ChangesCounted, Live, Replays
  <2>6. QED
    BY <2>1, <2>2, <2>4, <2>5
<1>2. ASSUME NEW c \in Call, Create(c) PROVE StoreInv'
  <2>1. CASE disk = Absent
    <3>1. /\ disk' \in Cdb
          /\ lost' = [d \in Call |-> IF d = c THEN lost[d] ELSE lost[d] + 1]
          /\ \E l \in {"done", "read"}, o \in {"ok", outcome[c]} :
                /\ At(c, "create")
                /\ pc' = [pc EXCEPT ![c] = l]
                /\ outcome' = [outcome EXCEPT ![c] = o]
                /\ l = "read" => o = outcome[c]
          /\ UNCHANGED <<mode, job, todo, snap, attempt, late, foreign>>
      <4>1. EmptyCdb(job[c].kind = "initenc") \in Cdb
        BY EmptyCdbType
      <4>2. QED
        BY <1>2, <2>1, <4>1 DEF Create, Goto, At, End, Disturb, StoreTypeOK
    <3>2. StoreTypeOK'
      <4>1. pc' \in [Call -> PcState] /\ outcome' \in [Call -> Outcome]
        <5>1. pc' \in [Call -> PcState]
          BY <3>1 DEF StoreTypeOK, PcState
        <5>2. outcome' \in [Call -> Outcome]
          BY <3>1 DEF StoreTypeOK, Outcome
        <5>3. QED
          BY <5>1, <5>2
      <4>2. disk' \in Disk /\ lost' \in [Call -> Nat]
        BY <3>1 DEF StoreTypeOK, Disk
      <4>3. QED
        BY <3>1, <4>1, <4>2 DEF StoreTypeOK, MutexTypeOK
    <3>3. ModesAgree' /\ Validated' /\ LateIsForeign'
      BY <3>1 DEF At, StoreTypeOK, MutexTypeOK, ModesAgree,
         Validated, ValidatedAt, LateIsForeign, Live, Inside
    <3>4. Unsettled' /\ Checked'
      BY <2>1, <3>1 DEF At, StoreTypeOK, Unsettled, Checked, Live, Replays
    <3>5. ChangesCounted'
      BY <2>1, <3>1 DEF At, StoreTypeOK, ChangesCounted, Validated, ValidatedAt, Unsettled, Live, Replays
    <3>6. QED
      BY <3>2, <3>3, <3>4, <3>5
  <2>2. CASE disk # Absent
    <3>1. /\ Goto(c, "create", "read")
          /\ UNCHANGED <<mode, disk, job, todo, outcome, snap, attempt, lost, late, foreign>>
      BY <1>2, <2>2 DEF Create
    <3>2. StoreTypeOK'
      BY <3>1 DEF Goto, StoreTypeOK, MutexTypeOK, PcState
    <3>3. ModesAgree' /\ Validated' /\ Unsettled' /\ Checked' /\ LateIsForeign'
      BY <3>1 DEF Goto, At, StoreTypeOK, MutexTypeOK, ModesAgree, Validated, ValidatedAt,
         Unsettled, Checked, LateIsForeign, Live, Replays, Inside
    <3>4. ChangesCounted'
      BY <3>1 DEF Goto, At, StoreTypeOK, ChangesCounted, Live, Replays
    <3>5. QED
      BY <3>2, <3>3, <3>4
  <2>3. QED
    BY <2>1, <2>2
<1>3. ASSUME NEW c \in Call, Read(c) PROVE StoreInv'
  <2>1. CASE ~CanLoad(job[c], disk)
    <3>1. /\ Goto(c, "read", "done") /\ End(c, "refused")
          /\ snap' = [snap EXCEPT ![c] = disk]
          /\ UNCHANGED <<mode, disk, job, todo, attempt, lost, late, foreign>>
      BY <1>3, <2>1 DEF Read
    <3>2. StoreTypeOK'
      BY <3>1 DEF Goto, End, StoreTypeOK, MutexTypeOK, PcState, Outcome
    <3>3. ModesAgree' /\ LateIsForeign'
      BY <3>1 DEF Goto, At, StoreTypeOK, MutexTypeOK, ModesAgree, LateIsForeign, Live, Inside
    <3>4. Validated' /\ Checked'
      BY <3>1 DEF Goto, StoreTypeOK, Validated, ValidatedAt, Checked, At, Live
    <3>5. Unsettled'
      BY <3>1 DEF Goto, End, StoreTypeOK, Unsettled, Live, Replays
    <3>6. ChangesCounted'
      BY <3>1 DEF Goto, At, End, StoreTypeOK, ChangesCounted, Live, Replays
    <3>7. QED
      BY <3>2, <3>3, <3>4, <3>5, <3>6
  <2>2. CASE CanLoad(job[c], disk)
    <3>1. PICK k \in NextAt(job[c], todo[c], disk) :
            todo' = [todo EXCEPT ![c] = SubSeq(@, k, Len(@))]
      BY <1>3, <2>2 DEF Read
    <3>2. /\ todo' \in [Call -> Seq(Target)]
          /\ todo'[c] # <<>> => ~Skips(job[c], Head(todo'[c]), disk)
      BY <3>1, RestType DEF StoreTypeOK
    <3>3. /\ disk # Absent /\ At(c, "read")
          /\ snap' = [snap EXCEPT ![c] = disk]
          /\ UNCHANGED <<disk, job, late, foreign>>
          /\ \A d \in Call \ {c} : todo'[d] = todo[d]
      BY <1>3, <2>2, <3>1 DEF Read, Goto, At, StoreTypeOK
    <3>4. \/ UNCHANGED <<attempt, lost>>
          \/ attempt' = [attempt EXCEPT ![c] = 1] /\ lost' = [lost EXCEPT ![c] = 0]
      BY <1>3, <2>2 DEF Read
    <3>5. \/ /\ pc' = [pc EXCEPT ![c] = "done"] /\ UNCHANGED mode
             /\ outcome' = [outcome EXCEPT ![c] = "ok"]
          \/ /\ pc' = [pc EXCEPT ![c] = "done"] /\ UNCHANGED mode
             /\ outcome' = [outcome EXCEPT ![c] = "refused"]
          \/ /\ todo'[c] # <<>> /\ ~Refuses(job[c], Head(todo'[c]), disk)
             /\ pc' = [pc EXCEPT ![c] = "lock"]
             /\ mode[c] = "out" /\ mode' = [mode EXCEPT ![c] = "waiting"]
             /\ UNCHANGED outcome
      BY <1>3, <2>2 DEF Read, Goto, End, Request, Move
    <3>6. StoreTypeOK'
      <4>1. pc' \in [Call -> PcState] /\ outcome' \in [Call -> Outcome] /\ MutexTypeOK'
        BY <3>5 DEF StoreTypeOK, MutexTypeOK, PcState, Outcome
      <4>2. attempt' \in [Call -> 1..MaxAttempts] /\ lost' \in [Call -> Nat]
        <5>1. 1 \in 1..MaxAttempts
          BY CdbStoreConstants DEF CdbStoreConstants
        <5>2. CASE UNCHANGED <<attempt, lost>>
          BY <5>2 DEF StoreTypeOK
        <5>3. CASE attempt' = [attempt EXCEPT ![c] = 1] /\ lost' = [lost EXCEPT ![c] = 0]
          BY <5>1, <5>3 DEF StoreTypeOK
        <5>4. QED
          BY <3>4, <5>2, <5>3
      <4>3. snap' \in [Call -> Disk]
        BY <3>3 DEF StoreTypeOK
      <4>4. QED
        BY <3>2, <3>3, <4>1, <4>2, <4>3 DEF StoreTypeOK
    <3>7. ModesAgree' /\ Checked' /\ LateIsForeign'
      <4>1. ModesAgree'
        <5>1. \A d \in Call \ {c} : pc'[d] = pc[d] /\ mode'[d] = mode[d]
          BY <3>5 DEF StoreTypeOK, MutexTypeOK
        <5>2. pc[c] = "read" /\ mode[c] # "gone" /\ mode[c] # "in" /\ mode[c] # "waiting"
          <6>1. Live(c) /\ pc[c] = "read" /\ mode[c] # "gone"
            BY <3>3 DEF At, Live
          <6>2. pc[c] \in Inside <=> mode[c] = "in"
            BY <6>1 DEF ModesAgree
          <6>3. pc[c] = "lock" <=> mode[c] = "waiting"
            BY <6>1 DEF ModesAgree
          <6>4. QED
            BY <6>1, <6>2, <6>3 DEF Inside
        <5>3. \/ pc'[c] = "done" /\ mode'[c] = mode[c]
              \/ pc'[c] = "lock" /\ mode'[c] = "waiting"
          BY <3>5 DEF StoreTypeOK, MutexTypeOK
        <5>4. QED
          BY <5>1, <5>2, <5>3 DEF ModesAgree, Live, Inside
      <4>2. Checked'
        BY <3>3, <3>5 DEF At, StoreTypeOK, MutexTypeOK, Checked, Live
      <4>3. QED
        BY <3>3, <4>1, <4>2 DEF LateIsForeign
    <3>8. Validated'
      BY <2>2, <3>2, <3>3, <3>5 DEF At, StoreTypeOK, MutexTypeOK, Validated, ValidatedAt, Live
    <3>9. Unsettled'
      <4>1. outcome[c] = "none"
        BY <3>3 DEF At, Unsettled
      <4>2. \A d \in Call \ {c} : attempt'[d] = attempt[d]
        BY <3>4 DEF StoreTypeOK
      <4>3. \A d \in Call \ {c} : /\ pc'[d] = pc[d] /\ mode'[d] = mode[d]
                                  /\ outcome'[d] = outcome[d]
        BY <3>5 DEF StoreTypeOK, MutexTypeOK
      <4>4. Live(c)' /\ pc'[c] \in {"load", "create", "read", "lock", "check", "replace",
                                   "committed", "stale"} => outcome'[c] = "none"
        BY <3>5, <4>1 DEF StoreTypeOK
      <4>5. QED
        BY <3>3, <4>2, <4>3, <4>4 DEF Unsettled, Live, Replays
    <3>10. ChangesCounted'
      <4>1. outcome[c] = "none"
        BY <3>3 DEF At, Unsettled
      <4>2. \A d \in Call \ {c} : attempt'[d] = attempt[d] /\ lost'[d] = lost[d]
        BY <3>4 DEF StoreTypeOK
      <4>3. attempt'[c] <= lost'[c] + 1
        BY <3>4 DEF StoreTypeOK, ChangesCounted
      <4>4. QED
        BY <3>3, <3>5, <4>1, <4>2, <4>3
           DEF At, StoreTypeOK, MutexTypeOK, ChangesCounted, Live, Replays
    <3>11. QED
      BY <3>6, <3>7, <3>8, <3>9, <3>10
  <2>3. QED
    BY <2>1, <2>2
<1>4. ASSUME NEW c \in Call, LoadFault(c) PROVE StoreInv'
  <2>1. /\ At(c, pc[c]) /\ pc[c] \in {"load", "create", "read"}
        /\ pc' = [pc EXCEPT ![c] = "done"] /\ End(c, "error")
        /\ UNCHANGED <<mode, disk, job, todo, snap, attempt, lost, late, foreign>>
    BY <1>4 DEF LoadFault, Goto, At, ghostVars
  <2>2. StoreTypeOK'
    BY <2>1 DEF End, StoreTypeOK, MutexTypeOK, PcState, Outcome
  <2>3. ModesAgree' /\ Validated' /\ Unsettled' /\ Checked' /\ LateIsForeign'
    BY <2>1 DEF End, At, StoreTypeOK, MutexTypeOK, ModesAgree, Validated, ValidatedAt,
       Unsettled, Checked, LateIsForeign, Live, Replays, Inside
  <2>4. ChangesCounted'
    BY <2>1 DEF End, At, StoreTypeOK, ChangesCounted, Live, Replays
  <2>5. QED
    BY <2>2, <2>3, <2>4
<1>5. ASSUME NEW c \in Call, LockEnter(c) PROVE StoreInv'
  <2>1. /\ At(c, "lock") /\ pc' = [pc EXCEPT ![c] = "check"]
        /\ \A d \in Call : mode[d] # "in"
        /\ mode[c] = "waiting" /\ mode' = [mode EXCEPT ![c] = "in"]
        /\ UNCHANGED <<disk, job, todo, outcome, snap, attempt, lost, late, foreign>>
    BY <1>5 DEF LockEnter, Goto, Enter, Move, registerVars, ghostVars
  <2>2. StoreTypeOK'
    BY <2>1 DEF StoreTypeOK, MutexTypeOK, PcState
  <2>3. ModesAgree' /\ Validated' /\ Unsettled' /\ Checked' /\ LateIsForeign'
    BY <2>1 DEF At, StoreTypeOK, MutexTypeOK, ModesAgree, Validated, ValidatedAt,
       Unsettled, Checked, LateIsForeign, Live, Replays, Inside
  <2>4. ChangesCounted'
    BY <2>1 DEF At, StoreTypeOK, MutexTypeOK, ChangesCounted, Live, Replays
  <2>5. QED
    BY <2>2, <2>3, <2>4
<1>6. ASSUME NEW c \in Call, LockRefuse(c) PROVE StoreInv'
  <2>1. /\ At(c, "lock") /\ pc' = [pc EXCEPT ![c] = "done"]
        /\ mode[c] = "waiting" /\ mode' = [mode EXCEPT ![c] = "out"]
        /\ outcome' = [outcome EXCEPT ![c] = "error"]
        /\ UNCHANGED <<disk, job, todo, snap, attempt, lost, late, foreign>>
    BY <1>6 DEF LockRefuse, Goto, Refuse, Move, End, ghostVars
  <2>2. StoreTypeOK'
    BY <2>1 DEF StoreTypeOK, MutexTypeOK, PcState, Outcome
  <2>3. ModesAgree' /\ Validated' /\ Unsettled' /\ Checked' /\ LateIsForeign'
    BY <2>1 DEF At, StoreTypeOK, MutexTypeOK, ModesAgree, Validated, ValidatedAt,
       Unsettled, Checked, LateIsForeign, Live, Replays, Inside
  <2>4. ChangesCounted'
    BY <2>1 DEF At, StoreTypeOK, MutexTypeOK, ChangesCounted, Live, Replays
  <2>5. QED
    BY <2>2, <2>3, <2>4
<1>7. ASSUME NEW c \in Call, Check(c) PROVE StoreInv'
  <2>1. /\ At(c, "check") /\ outcome[c] = "none"
        /\ late' = [late EXCEPT ![c] = FALSE]
        /\ UNCHANGED <<mode, disk, job, todo, snap, attempt, lost, foreign>>
    BY <1>7 DEF Check, Goto, At, Unsettled
  <2>2. \/ /\ disk = snap[c] /\ pc' = [pc EXCEPT ![c] = "replace"] /\ UNCHANGED outcome
        \/ /\ disk # snap[c] /\ pc' = [pc EXCEPT ![c] = "stale"]
           /\ \/ Replays(c) /\ UNCHANGED outcome
              \/ ~Replays(c) /\ outcome' = [outcome EXCEPT ![c] = "conflict"]
    BY <1>7 DEF Check, Goto, End
  <2>3. StoreTypeOK'
    BY <2>1, <2>2 DEF StoreTypeOK, MutexTypeOK, PcState, Outcome
  <2>4. ModesAgree'
    <3>1. \A d \in Call \ {c} : pc'[d] = pc[d]
      BY <2>2 DEF StoreTypeOK
    <3>2. pc'[c] \in {"replace", "stale"} /\ pc[c] = "check" /\ Live(c)
      BY <2>1, <2>2 DEF At, StoreTypeOK
    <3>3. QED
      BY <2>1, <3>1, <3>2 DEF ModesAgree, Live, Inside
  <2>5. Validated' /\ LateIsForeign'
    BY <2>1, <2>2 DEF At, StoreTypeOK, MutexTypeOK, Validated, ValidatedAt, LateIsForeign, Live
  <2>6. Unsettled'
    BY <2>1, <2>2 DEF At, StoreTypeOK, MutexTypeOK, Unsettled, Live, Replays
  <2>7. Checked'
    BY <2>1, <2>2 DEF At, StoreTypeOK, MutexTypeOK, Checked, Live, Validated, ValidatedAt
  <2>8. ChangesCounted'
    BY <2>1, <2>2 DEF At, StoreTypeOK, MutexTypeOK, ChangesCounted, Live, Replays
  <2>9. QED
    BY <2>3, <2>4, <2>5, <2>6, <2>7, <2>8
<1>8. ASSUME NEW c \in Call, Replace(c) PROVE StoreInv'
  <2>1. /\ At(c, "replace") /\ pc' = [pc EXCEPT ![c] = "committed"]
        /\ todo' = [todo EXCEPT ![c] = Tail(@)]
        /\ lost' = [d \in Call |-> IF d = c THEN lost[d] ELSE lost[d] + 1]
        /\ UNCHANGED <<mode, job, snap, attempt, late, foreign>>
    BY <1>8 DEF Replace, Goto, Disturb
  <2>2. \/ job[c].kind = "save" /\ UNCHANGED outcome
        \/ job[c].kind # "save" /\ outcome' = [outcome EXCEPT ![c] = "ok"]
    BY <1>8 DEF Replace, End
  <2>3. disk' \in Cdb /\ todo[c] # <<>> /\ outcome[c] = "none"
    <3>1. ValidatedAt(c) /\ outcome[c] = "none"
      BY <2>1 DEF At, Validated, Unsettled
    <3>2. snap[c] \in Cdb /\ todo[c] \in Seq(Target) /\ job[c] \in Job
      BY <3>1 DEF ValidatedAt, StoreTypeOK, Disk
    <3>3. Head(todo[c]) \in Target
      BY <3>1, <3>2, HeadTailProperties DEF ValidatedAt
    <3>4. NewCdb(c, job[c], Head(todo[c]), snap[c]) \in Cdb
      BY <3>1, <3>2, <3>3, NewCdbType DEF ValidatedAt
    <3>5. QED
      BY <1>8, <3>1, <3>4 DEF Replace, ValidatedAt
  <2>4. StoreTypeOK'
    <3>1. todo' \in [Call -> Seq(Target)]
      <4>1. Tail(todo[c]) \in Seq(Target)
        BY <2>3, HeadTailProperties DEF StoreTypeOK
      <4>2. QED
        BY <2>1, <4>1 DEF StoreTypeOK
    <3>2. outcome' \in [Call -> Outcome]
      BY <2>2 DEF StoreTypeOK, Outcome
    <3>3. pc' \in [Call -> PcState] /\ lost' \in [Call -> Nat] /\ disk' \in Disk
      BY <2>1, <2>3 DEF StoreTypeOK, PcState, Disk
    <3>4. QED
      BY <2>1, <3>1, <3>2, <3>3 DEF StoreTypeOK, MutexTypeOK
  <2>5. ModesAgree' /\ LateIsForeign'
    BY <2>1 DEF At, StoreTypeOK, MutexTypeOK, ModesAgree, LateIsForeign, Live, Inside
  <2>6. Validated'
    BY <2>1 DEF At, StoreTypeOK, MutexTypeOK, Validated, ValidatedAt, Live
  <2>7. Unsettled'
    BY <2>1, <2>2, <2>3 DEF At, StoreTypeOK, MutexTypeOK, Unsettled, Live, Replays
  <2>8. \A d \in Call : Live(d) /\ pc[d] = "replace" => d = c
    <3>1. mode[c] = "in"
      BY <2>1 DEF At, ModesAgree, Inside
    <3>2. \A d \in Call : Live(d) /\ pc[d] = "replace" => mode[d] = "in"
      BY DEF ModesAgree, Inside
    <3>3. QED
      BY <3>1, <3>2 DEF ModesAgree
  <2>9. Checked'
    BY <2>1, <2>8 DEF At, StoreTypeOK, Checked, Live
  <2>10. ChangesCounted'
    <3>1. \A d \in Call \ {c} : /\ attempt'[d] = attempt[d] /\ lost'[d] = lost[d] + 1
                                /\ pc'[d] = pc[d] /\ outcome'[d] = outcome[d]
      BY <2>1, <2>2 DEF StoreTypeOK
    <3>2. /\ attempt'[c] = attempt[c] /\ lost'[c] = lost[c] /\ pc'[c] = "committed"
          /\ outcome'[c] # "conflict"
      BY <2>1, <2>2, <2>3 DEF StoreTypeOK
    <3>3. QED
      BY <2>1, <3>1, <3>2 DEF StoreTypeOK, ChangesCounted, Live, Replays
  <2>11. QED
    BY <2>4, <2>5, <2>6, <2>7, <2>9, <2>10
<1>9. ASSUME NEW c \in Call, WriteFault(c) PROVE StoreInv'
  <2>1. /\ At(c, pc[c]) /\ pc[c] \in {"check", "replace"}
        /\ pc' = [pc EXCEPT ![c] = "failed"] /\ End(c, "error")
        /\ UNCHANGED <<mode, disk, job, todo, snap, attempt, lost, late, foreign>>
    BY <1>9 DEF WriteFault, Goto, At, ghostVars
  <2>2. StoreTypeOK'
    BY <2>1 DEF End, StoreTypeOK, MutexTypeOK, PcState, Outcome
  <2>3. ModesAgree' /\ Validated' /\ Unsettled' /\ Checked' /\ LateIsForeign'
    BY <2>1 DEF End, At, StoreTypeOK, MutexTypeOK, ModesAgree, Validated, ValidatedAt,
       Unsettled, Checked, LateIsForeign, Live, Replays, Inside
  <2>4. ChangesCounted'
    BY <2>1 DEF End, At, StoreTypeOK, ChangesCounted, Live, Replays
  <2>5. QED
    BY <2>2, <2>3, <2>4
<1>10. ASSUME NEW c \in Call, Release(c) PROVE StoreInv'
  <2>1. /\ Live(c) /\ mode[c] = "in" /\ mode' = [mode EXCEPT ![c] = "out"]
        /\ UNCHANGED <<disk, job, todo, outcome, snap, late, foreign>>
    BY <1>10 DEF Release, Exit, Move, Live, registerVars
  <2>2. \/ /\ job[c].kind = "save" /\ pc[c] = "committed"
           /\ pc' = [pc EXCEPT ![c] = "load"]
           /\ attempt' = [attempt EXCEPT ![c] = 1] /\ lost' = [lost EXCEPT ![c] = 0]
        \/ /\ Replays(c) /\ pc[c] = "stale" /\ pc' = [pc EXCEPT ![c] = "load"]
           /\ attempt' = [attempt EXCEPT ![c] = @ + 1] /\ UNCHANGED lost
        \/ /\ pc' = [pc EXCEPT ![c] = "done"] /\ UNCHANGED <<attempt, lost>>
    BY <1>10 DEF Release, Goto, At
  <2>3. \A d \in Call \ {c} : /\ attempt'[d] = attempt[d] /\ lost'[d] = lost[d]
                              /\ pc'[d] = pc[d] /\ mode'[d] = mode[d]
    BY <2>1, <2>2 DEF StoreTypeOK, MutexTypeOK
  <2>4. StoreTypeOK'
    <3>1. pc' \in [Call -> PcState] /\ MutexTypeOK'
      BY <2>1, <2>2 DEF StoreTypeOK, PcState, MutexTypeOK
    <3>2. attempt' \in [Call -> 1..MaxAttempts] /\ lost' \in [Call -> Nat]
      <4>1. CASE attempt' = [attempt EXCEPT ![c] = 1] /\ lost' = [lost EXCEPT ![c] = 0]
        BY <4>1, CdbStoreConstants DEF CdbStoreConstants, StoreTypeOK
      <4>2. CASE Replays(c) /\ attempt' = [attempt EXCEPT ![c] = @ + 1] /\ UNCHANGED lost
        <5>1. attempt[c] + 1 \in 1..MaxAttempts
          BY <4>2, CdbStoreConstants DEF CdbStoreConstants, StoreTypeOK, Replays
        <5>2. QED
          BY <4>2, <5>1 DEF StoreTypeOK
      <4>3. CASE UNCHANGED <<attempt, lost>>
        BY <4>3 DEF StoreTypeOK
      <4>4. QED
        BY <2>2, <4>1, <4>2, <4>3
    <3>3. QED
      BY <2>1, <3>1, <3>2 DEF StoreTypeOK
  <2>5. pc'[c] \in {"load", "done"} /\ mode'[c] = "out"
    BY <2>1, <2>2 DEF StoreTypeOK, MutexTypeOK
  <2>6. ModesAgree'
    BY <2>1, <2>3, <2>5 DEF ModesAgree, Live, Inside
  <2>7. Validated' /\ Checked' /\ LateIsForeign'
    BY <2>1, <2>3, <2>5 DEF Validated, ValidatedAt, Checked, LateIsForeign, At, Live
  <2>8. pc'[c] = "load" => outcome[c] = "none"
    BY <2>1, <2>2 DEF StoreTypeOK, Unsettled
  <2>9. Unsettled'
    BY <2>1, <2>3, <2>5, <2>8 DEF Unsettled, Live, Replays
  <2>10. ChangesCounted'
    <3>1. attempt'[c] <= lost'[c] + 1
      BY <2>1, <2>2 DEF StoreTypeOK, ChangesCounted
    <3>2. outcome[c] = "conflict" =>
            /\ attempt'[c] = attempt[c] /\ lost'[c] = lost[c] /\ pc'[c] = "done"
      BY <2>2, <2>5, <2>8 DEF StoreTypeOK
    <3>3. QED
      BY <2>1, <2>3, <2>5, <3>1, <3>2 DEF ChangesCounted, Live, Replays
  <2>11. QED
    BY <2>4, <2>6, <2>7, <2>9, <2>10
<1>11. ASSUME NEW c \in Call, Crash(c) PROVE StoreInv'
  <2>1. /\ mode' = [d \in Call |-> IF d \in {c} THEN "gone" ELSE mode[d]]
        /\ pc' = [pc EXCEPT ![c] = "done"] /\ snap' = [snap EXCEPT ![c] = Absent]
        /\ UNCHANGED <<disk, job, todo, outcome, attempt, lost, late, foreign>>
    BY <1>11 DEF Crash, Die, registerVars, ghostVars
  <2>2. StoreTypeOK'
    BY <2>1 DEF StoreTypeOK, MutexTypeOK, PcState, Disk
  <2>3. /\ ~Live(c)' /\ mode'[c] # "in"
        /\ \A d \in Call \ {c} : pc'[d] = pc[d] /\ mode'[d] = mode[d] /\ snap'[d] = snap[d]
    BY <2>1 DEF StoreTypeOK, MutexTypeOK, Live
  <2>4. ModesAgree' /\ Validated' /\ Checked' /\ LateIsForeign'
    BY <2>1, <2>3 DEF ModesAgree, Validated, ValidatedAt, Checked, LateIsForeign, At, Live
  <2>5. Unsettled' /\ ChangesCounted'
    BY <2>1, <2>3 DEF Unsettled, ChangesCounted, Live, Replays
  <2>6. QED
    BY <2>2, <2>4, <2>5
<1>12. ASSUME ForeignWrite PROVE StoreInv'
  <2>1. /\ disk # Absent /\ foreign' = foreign + 1 /\ foreign < MaxForeign
        /\ lost' = [c \in Call |-> lost[c] + 1]
        /\ late' = [c \in Call |-> late[c] \/ pc[c] = "replace"]
        /\ UNCHANGED <<mode, job, todo, outcome, pc, snap, attempt>>
    BY <1>12 DEF ForeignWrite, localVars
  <2>2. disk' \in Cdb /\ disk'.enc = disk.enc
    <3>1. PICK recs \in ForeignRecs(disk.recs) :
            disk' = [recs |-> recs, enc |-> disk.enc, salt |-> Seal(disk.enc, disk.salt)]
      BY <1>12 DEF ForeignWrite
    <3>2. disk \in Cdb
      BY <2>1 DEF StoreTypeOK, Disk
    <3>3. recs \in Seq(Rec)
      BY <3>2, ForeignRecsType DEF Cdb
    <3>4. QED
      BY <3>1, <3>2, <3>3 DEF Cdb, Seal
  <2>3. StoreTypeOK'
    BY <2>1, <2>2, CdbStoreConstants
       DEF CdbStoreConstants, StoreTypeOK, MutexTypeOK, Disk
  <2>4. ModesAgree' /\ Validated' /\ Unsettled' /\ LateIsForeign'
    BY <2>1 DEF StoreTypeOK, ModesAgree, Validated, ValidatedAt, Unsettled, LateIsForeign,
       Live, Replays
  <2>5. Checked'
    BY <2>1, <2>2, AbsentIsNoCdb DEF AbsentIsNoCdb, StoreTypeOK, Checked, At, Live
  <2>6. ChangesCounted'
    BY <2>1 DEF StoreTypeOK, ChangesCounted, Live, Replays
  <2>7. QED
    BY <2>3, <2>4, <2>5, <2>6
<1>13. CASE UNCHANGED storeVars
  <2>1. StoreTypeOK' /\ ModesAgree' /\ Validated' /\ Unsettled'
    BY <1>13 DEF storeVars, StoreTypeOK, MutexTypeOK, ModesAgree, Validated, ValidatedAt,
       Unsettled, Live, Replays
  <2>2. Checked' /\ LateIsForeign' /\ ChangesCounted'
    BY <1>13 DEF storeVars, Checked, LateIsForeign, ChangesCounted, At, Live, Replays
  <2>3. QED
    BY <2>1, <2>2
<1>14. QED
  BY <1>1, <1>2, <1>3, <1>4, <1>5, <1>6, <1>7, <1>8, <1>9, <1>10, <1>11, <1>12, <1>13
     DEF StoreNext, StoreEnv, StoreProgress

(* StoreInv holds in every state of the transaction.                       *)
THEOREM StoreInvariant == StoreSpec => []StoreInv
<1>1. StoreInit => StoreInv
  BY StoreInitInv
<1>2. StoreInv /\ [StoreNext]_storeVars => StoreInv'
  BY StoreInductive
<1>3. QED
  BY <1>1, <1>2, PTL DEF StoreSpec

(* Every variable of the transaction keeps its type: in particular what is
   written over the file is always a well-formed CDB, and no caller makes an
   attempt beyond the last.                                                *)
THEOREM StoreTypeCorrect == StoreSpec => []StoreTypeOK
<1>1. StoreInv => StoreTypeOK
  BY DEF StoreInv
<1>2. QED
  BY <1>1, StoreInvariant, PTL

(* However many callers race, a caller about to rename sees the file it
   loaded, or a foreign write came after its check.                        *)
THEOREM StoreReplacesWhatItChecked == StoreSpec => []ReplacesWhatItChecked
<1>1. StoreInv => ReplacesWhatItChecked
  BY DEF StoreInv, Checked, ReplacesWhatItChecked
<1>2. QED
  BY <1>1, StoreInvariant, PTL

(* cdb/conflict is never reported without as many changes by others as the
   caller made attempts, and by a replaying caller only after the last one. *)
THEOREM StoreConflictMeansContention == StoreSpec => []ConflictMeansContention
<1>1. StoreInv => ConflictMeansContention
  BY CdbStoreConstants DEF CdbStoreConstants, StoreInv, StoreTypeOK, ChangesCounted,
     ConflictMeansContention, Replays
<1>2. QED
  BY <1>1, StoreInvariant, PTL

(* No step of any caller, and none of WinBox, makes an encrypted file open. *)
LEMMA EncryptedStays ==
  ASSUME StoreInv, [StoreNext]_storeVars, disk # Absent, disk.enc
  PROVE  disk' # Absent /\ disk'.enc
<1>1. CASE disk' = disk
  BY <1>1
<1>2. ASSUME NEW c \in Call, Replace(c) PROVE disk' # Absent /\ disk'.enc
  <2>1. disk.enc = snap[c].enc
    BY <1>2 DEF Replace, Goto, StoreInv, Checked
  <2>2. disk' = NewCdb(c, job[c], Head(todo[c]), snap[c])
    BY <1>2 DEF Replace
  <2>3. disk'.enc
    BY <2>1, <2>2 DEF NewCdb
  <2>4. NewCdb(c, job[c], Head(todo[c]), snap[c]) \in Cdb
    <3>1. ValidatedAt(c)
      BY <1>2 DEF Replace, Goto, At, StoreInv, Validated
    <3>2. snap[c] \in Cdb /\ todo[c] \in Seq(Target) /\ job[c] \in Job
      BY <3>1 DEF ValidatedAt, StoreInv, StoreTypeOK, Disk
    <3>3. Head(todo[c]) \in Target
      BY <3>1, <3>2, HeadTailProperties DEF ValidatedAt
    <3>4. QED
      BY <3>1, <3>2, <3>3, NewCdbType DEF ValidatedAt
  <2>5. QED
    BY <2>2, <2>3, <2>4, AbsentIsNoCdb DEF AbsentIsNoCdb
<1>3. ASSUME ForeignWrite PROVE disk' # Absent /\ disk'.enc
  <2>1. PICK recs \in ForeignRecs(disk.recs) :
          disk' = [recs |-> recs, enc |-> disk.enc, salt |-> Seal(disk.enc, disk.salt)]
    BY <1>3 DEF ForeignWrite
  <2>2. disk \in Cdb
    BY <1>3 DEF ForeignWrite, StoreInv, StoreTypeOK, Disk
  <2>3. recs \in Seq(Rec)
    BY <2>2, ForeignRecsType DEF Cdb
  <2>4. disk' \in Cdb /\ disk'.enc
    BY <2>1, <2>2, <2>3 DEF Cdb, Seal
  <2>5. QED
    BY <2>4, AbsentIsNoCdb DEF AbsentIsNoCdb
<1>4. ASSUME NEW c \in Call,
             Load(c) \/ Create(c) \/ Read(c) \/ LockEnter(c) \/ LockRefuse(c) \/ Check(c)
               \/ Release(c) \/ LoadFault(c) \/ WriteFault(c) \/ Crash(c)
      PROVE  disk' = disk
  BY <1>4 DEF Load, Create, Read, LockEnter, LockRefuse, Check, Release, LoadFault,
     WriteFault, Crash, registerVars
<1>5. CASE UNCHANGED storeVars
  BY <1>5 DEF storeVars
<1>6. QED
  BY <1>1, <1>2, <1>3, <1>4, <1>5 DEF StoreNext, StoreEnv, StoreProgress

(* An encrypted CDB stays encrypted, even against a mutation that loaded it
   open before encrypt converted it.                                       *)
THEOREM StoreEncryptionSticks == StoreSpec => StaysEncrypted
<1>1. StoreInv /\ [StoreNext]_storeVars =>
        [disk # Absent /\ disk.enc => disk' # Absent /\ disk'.enc]_storeVars
  BY EncryptedStays
<1>2. QED
  BY <1>1, StoreInvariant, PTL DEF StoreSpec, StaysEncrypted

-----------------------------------------------------------------------------
(* With no foreign writer, what a caller renames over is what it loaded.    *)
LEMMA ReplacesItsSnapshot ==
  ASSUME StoreInv, MaxForeign = 0, NEW c \in Call, At(c, "replace")
  PROVE  disk = snap[c] /\ ValidatedAt(c) /\ outcome[c] = "none"
<1>1. foreign = 0
  BY DEF StoreInv, StoreTypeOK
<1>2. disk = snap[c]
  BY <1>1 DEF StoreInv, LateIsForeign, Checked
<1>3. QED
  BY <1>2 DEF StoreInv, Validated, Unsettled, At

LEMMA StoreRefinesStep ==
  ASSUME StoreInv, [StoreNext]_storeVars, MaxForeign = 0
  PROVE  [RegisterNext]_registerVars
<1>1. ASSUME NEW c \in Call, Load(c) PROVE Answer(c) \/ UNCHANGED registerVars
  <2>1. CASE UNCHANGED outcome
    BY <1>1, <2>1 DEF Load, registerVars
  <2>2. CASE disk = Absent /\ End(c, "refused")
    <3>1. Running(c)
      BY <1>1 DEF Load, Goto, At, StoreInv, Unsettled, Running
    <3>2. QED
      BY <1>1, <2>2, <3>1 DEF Load, End, Answer
  <2>3. QED
    BY <1>1, <2>1, <2>2 DEF Load
<1>2. ASSUME NEW c \in Call, Create(c) PROVE Establish(c) \/ UNCHANGED registerVars
  <2>1. CASE disk = Absent
    <3>1. Running(c)
      BY <1>2, <2>1 DEF Create, Goto, At, StoreInv, Unsettled, Running
    <3>2. outcome' \in {outcome, [outcome EXCEPT ![c] = "ok"]}
      BY <1>2, <2>1 DEF Create, End
    <3>3. QED
      BY <1>2, <2>1, <3>1, <3>2 DEF Create, Establish
  <2>2. CASE disk # Absent
    BY <1>2, <2>2 DEF Create, registerVars
  <2>3. QED
    BY <2>1, <2>2
<1>3. ASSUME NEW c \in Call, Read(c) PROVE Answer(c)
  <2>1. Running(c)
    BY <1>3 DEF Read, Goto, At, StoreInv, Unsettled, Running
  <2>2. CASE ~CanLoad(job[c], disk)
    BY <1>3, <2>1, <2>2 DEF Read, End, Answer
  <2>3. CASE CanLoad(job[c], disk)
    <3>1. /\ disk # Absent /\ UNCHANGED <<disk, job>>
          /\ \E k \in NextAt(job[c], todo[c], disk) :
               todo' = [todo EXCEPT ![c] = SubSeq(@, k, Len(@))]
      BY <1>3, <2>3 DEF Read
    <3>2. \/ todo'[c] = <<>> /\ outcome' = [outcome EXCEPT ![c] = "ok"]
          \/ /\ todo'[c] # <<>> /\ Refuses(job[c], Head(todo'[c]), disk)
             /\ outcome' = [outcome EXCEPT ![c] = "refused"]
          \/ outcome' = outcome
      BY <1>3, <2>3 DEF Read, End
    <3>3. outcome' \in {outcome,
            [outcome EXCEPT ![c] = IF todo'[c] = <<>> THEN "ok" ELSE "refused"]}
      BY <3>2
    <3>4. outcome' # outcome /\ todo'[c] # <<>> => Refuses(job[c], Head(todo'[c]), disk)
      BY <3>2
    <3>5. QED
      BY <2>1, <2>3, <3>1, <3>3, <3>4 DEF Answer
  <2>4. QED
    BY <2>2, <2>3
<1>4. ASSUME NEW c \in Call, LoadFault(c) \/ LockRefuse(c) \/ WriteFault(c) PROVE Fail(c)
  <2>1. Running(c) /\ End(c, "error") /\ UNCHANGED <<disk, job, todo>>
    <3>1. Running(c)
      BY <1>4 DEF LoadFault, LockRefuse, WriteFault, Goto, At, StoreInv, Unsettled, Running
    <3>2. QED
      BY <1>4, <3>1 DEF LoadFault, LockRefuse, WriteFault
  <2>2. QED
    BY <2>1 DEF End, Fail
<1>5. ASSUME NEW c \in Call, Check(c) PROVE Fail(c) \/ UNCHANGED registerVars
  <2>1. Running(c) /\ UNCHANGED <<disk, job, todo>>
    BY <1>5 DEF Check, Goto, At, StoreInv, Unsettled, Running
  <2>2. UNCHANGED outcome \/ End(c, "conflict")
    BY <1>5 DEF Check
  <2>3. QED
    BY <2>1, <2>2 DEF End, Fail, registerVars
<1>6. ASSUME NEW c \in Call, Replace(c) PROVE Commit(c)
  <2>1. disk = snap[c] /\ ValidatedAt(c) /\ outcome[c] = "none"
    BY <1>6, ReplacesItsSnapshot DEF Replace, Goto
  <2>2. outcome' \in {outcome, [outcome EXCEPT ![c] = "ok"]}
    BY <1>6 DEF Replace, End
  <2>3. QED
    BY <1>6, <2>1, <2>2 DEF Replace, ValidatedAt, Running, Commit
<1>7. ASSUME NEW c \in Call, LockEnter(c) \/ Release(c) \/ Crash(c)
      PROVE  UNCHANGED registerVars
  BY <1>7 DEF LockEnter, Release, Crash
<1>8. ~ForeignWrite
  BY DEF ForeignWrite, StoreInv, StoreTypeOK
<1>9. CASE UNCHANGED storeVars
  BY <1>9 DEF storeVars, registerVars
<1>10. QED
  BY <1>1, <1>2, <1>3, <1>4, <1>5, <1>6, <1>7, <1>8, <1>9
     DEF StoreNext, StoreEnv, StoreProgress, RegisterNext

(* While only centrs writes the file, every mutation takes effect once, at
   its rename, on what the file holds at that moment, or leaves it alone.   *)
THEOREM StoreImplementsRegister ==
  ASSUME MaxForeign = 0
  PROVE  StoreSpec => ImplementsRegister
<1>1. StoreInit => RegisterInit
  BY CdbStoreConstants DEF CdbStoreConstants, StoreInit, RegisterInit
<1>2. StoreInv /\ [StoreNext]_storeVars => [RegisterNext]_registerVars
  BY StoreRefinesStep
<1>3. QED
  BY <1>1, <1>2, StoreInvariant, PTL DEF StoreSpec, ImplementsRegister, RegisterSpec

-----------------------------------------------------------------------------
(* N writers need at most N attempts.  Whoever has nothing left to write   *)
(* changes the file no more, so a caller's attempts are paid for, one each,*)
(* by callers who have landed and by foreign writes.                       *)

Landed(t) == {c \in Call : t[c] = <<>>}

Paid(t, f) == Cardinality(Landed(t)) + f

PaidFor(c) ==
  /\ Len(todo[c]) <= 1
  /\ snap[c] # Absent => disk # Absent
  /\ attempt[c] <= Paid(todo, foreign) + 1
  /\ Live(c) /\ pc[c] \in {"lock", "check"} /\ disk # snap[c]
       => attempt[c] <= Paid(todo, foreign)
  /\ Live(c) /\ pc[c] = "stale" => attempt[c] <= Paid(todo, foreign)
  /\ outcome[c] = "conflict" => todo[c] # <<>> /\ attempt[c] <= Paid(todo, foreign)

AllPaidFor == \A c \in Call : PaidFor(c)

LEMMA LandedGrows ==
  ASSUME IsFiniteSet(Call), NEW t, NEW u, \A c \in Call : t[c] = <<>> => u[c] = <<>>
  PROVE  /\ Cardinality(Landed(t)) \in Nat /\ Cardinality(Landed(u)) \in Nat
         /\ Cardinality(Landed(t)) <= Cardinality(Landed(u))
<1>1. Landed(t) \subseteq Landed(u) /\ Landed(u) \subseteq Call
  BY DEF Landed
<1>2. IsFiniteSet(Landed(u))
  BY <1>1, FS_Subset
<1>3. /\ IsFiniteSet(Landed(t))
      /\ Cardinality(Landed(t)) <= Cardinality(Landed(u))
  BY <1>1, <1>2, FS_Subset
<1>4. QED
  BY <1>2, <1>3, FS_CardinalityType

LEMMA LandedByOne ==
  ASSUME IsFiniteSet(Call), NEW t, NEW u, NEW c \in Call, t[c] # <<>>, u[c] = <<>>,
         \A d \in Call \ {c} : u[d] = t[d]
  PROVE  Cardinality(Landed(u)) = Cardinality(Landed(t)) + 1
<1>1. Landed(u) = Landed(t) \cup {c} /\ c \notin Landed(t) /\ Landed(t) \subseteq Call
  BY DEF Landed
<1>2. IsFiniteSet(Landed(t))
  BY <1>1, FS_Subset
<1>3. QED
  BY <1>1, <1>2, FS_AddElement

LEMMA PaidType ==
  ASSUME StoreTypeOK, StoreTypeOK', IsFiniteSet(Call)
  PROVE  Paid(todo, foreign) \in Nat /\ Paid(todo', foreign') \in Nat
<1>1. foreign \in Nat /\ foreign' \in Nat
  BY CdbStoreConstants DEF CdbStoreConstants, StoreTypeOK
<1>2. Cardinality(Landed(todo)) \in Nat /\ Cardinality(Landed(todo')) \in Nat
  BY LandedGrows
<1>3. QED
  BY <1>1, <1>2 DEF Paid

(* What a step of someone else does to a caller.                           *)
LEMMA PaidForByOthers ==
  ASSUME StoreInv, StoreInv', IsFiniteSet(Call), NEW d \in Call, PaidFor(d),
         pc'[d] = pc[d], mode'[d] = mode[d], snap'[d] = snap[d], attempt'[d] = attempt[d],
         outcome'[d] = outcome[d], todo'[d] = todo[d],
         Paid(todo, foreign) <= Paid(todo', foreign'),
         disk # Absent => \/ disk' = disk
                          \/ /\ disk' # Absent
                             /\ Paid(todo, foreign) + 1 <= Paid(todo', foreign')
  PROVE  PaidFor(d)'
<1> DEFINE p == Paid(todo, foreign)
           q == Paid(todo', foreign')
<1>1. p \in Nat /\ q \in Nat /\ attempt[d] \in Nat /\ p <= q
  BY PaidType DEF StoreInv, StoreTypeOK
<1> HIDE DEF p, q
<1>2. /\ attempt[d] <= p => attempt[d] <= q
      /\ attempt[d] <= p + 1 => attempt[d] <= q + 1
      /\ p + 1 <= q /\ attempt[d] <= p + 1 => attempt[d] <= q
  BY <1>1
<1>3. /\ Len(todo[d]) <= 1
      /\ snap[d] # Absent => disk # Absent
      /\ attempt[d] <= p + 1
      /\ Live(d) /\ pc[d] \in {"lock", "check"} /\ disk # snap[d] => attempt[d] <= p
      /\ Live(d) /\ pc[d] = "stale" => attempt[d] <= p
      /\ outcome[d] = "conflict" => todo[d] # <<>> /\ attempt[d] <= p
  BY DEF PaidFor, p
<1>4. disk # Absent => disk' = disk \/ (disk' # Absent /\ p + 1 <= q)
  BY DEF p, q
<1>5. ASSUME Live(d), pc[d] \in {"lock", "check"}, disk' # snap[d]
      PROVE  attempt[d] <= q
  <2>1. snap[d] # Absent
    BY <1>5 DEF StoreInv, Validated, ValidatedAt
  <2>2. QED
    BY <1>2, <1>3, <1>4, <1>5, <2>1
<1>6. /\ Len(todo[d]) <= 1
      /\ snap[d] # Absent => disk' # Absent
      /\ attempt[d] <= q + 1
      /\ Live(d) /\ pc[d] \in {"lock", "check"} /\ disk' # snap[d] => attempt[d] <= q
      /\ Live(d) /\ pc[d] = "stale" => attempt[d] <= q
      /\ outcome[d] = "conflict" => todo[d] # <<>> /\ attempt[d] <= q
  BY <1>2, <1>3, <1>4, <1>5
<1>7. QED
  BY <1>6 DEF PaidFor, Live, q

LEMMA RestShorter ==
  ASSUME NEW j, NEW s \in Seq(Target), NEW d, NEW k \in NextAt(j, s, d), Len(s) <= 1
  PROVE  /\ Len(SubSeq(s, k, Len(s))) <= 1
         /\ s = <<>> => SubSeq(s, k, Len(s)) = <<>>
<1>1. k \in 1..(Len(s) + 1) /\ Len(s) \in Nat
  BY LenProperties DEF NextAt
<1>2. CASE k = Len(s) + 1
  BY <1>1, <1>2, SubSeqEmpty
<1>3. CASE k <= Len(s)
  <2>1. k = 1 /\ Len(s) = 1
    <3>1. \A a, b \in Nat : a \in 1..(b + 1) /\ a <= b /\ b <= 1 => a = 1 /\ b = 1
      OBVIOUS
    <3>2. k \in Nat
      BY <1>1
    <3>3. QED
      BY <1>1, <1>3, <3>1, <3>2
  <2>2. Len(SubSeq(s, 1, 1)) = 1 /\ s # <<>>
    BY <2>1, SubSeqProperties, ElementOfSeq
  <2>3. QED
    BY <2>1, <2>2
<1>4. QED
  BY <1>1, <1>2, <1>3

LEMMA PaidForInit ==
  ASSUME StoreInit, IsFiniteSet(Call), \A w \in Work : Len(w.todo) = 1
  PROVE  AllPaidFor
<1>1. Paid(todo, foreign) \in Nat
  BY LandedGrows DEF Paid, StoreInit
<1>2. ASSUME NEW c \in Call PROVE PaidFor(c)
  <2>1. Len(todo[c]) = 1
    BY <1>2 DEF StoreInit
  <2>2. pc[c] = "load" /\ snap[c] = Absent /\ attempt[c] = 1 /\ outcome[c] = "none"
    BY DEF StoreInit
  <2>3. QED
    BY <1>1, <2>1, <2>2 DEF PaidFor
<1>3. QED
  BY <1>2 DEF AllPaidFor

(* A step of c that touches neither the file nor what is left to write.     *)
LEMMA PaidForQuietly ==
  ASSUME StoreInv, StoreInv', IsFiniteSet(Call), AllPaidFor, NEW c \in Call,
         UNCHANGED <<disk, todo, foreign>>,
         \A d \in Call \ {c} : /\ pc'[d] = pc[d] /\ mode'[d] = mode[d] /\ snap'[d] = snap[d]
                               /\ attempt'[d] = attempt[d] /\ outcome'[d] = outcome[d],
         snap'[c] \in {snap[c], disk, Absent},
         \/ attempt'[c] \in {1, attempt[c]}
         \/ Live(c) /\ pc[c] = "stale" /\ attempt'[c] = attempt[c] + 1,
         Live(c)' /\ pc'[c] \in {"lock", "check"} =>
           /\ Live(c) /\ pc[c] \in {"lock", "check"}
           /\ snap'[c] = snap[c] /\ attempt'[c] = attempt[c],
         Live(c)' /\ pc'[c] = "stale" =>
           /\ Live(c) /\ pc[c] = "check" /\ disk # snap[c] /\ attempt'[c] = attempt[c],
         outcome'[c] = "conflict" =>
           /\ attempt'[c] = attempt[c]
           /\ outcome[c] = "conflict" \/ (Live(c) /\ pc[c] = "check" /\ disk # snap[c])
  PROVE  AllPaidFor'
<1> DEFINE p == Paid(todo, foreign)
<1>1. p \in Nat /\ attempt[c] \in Nat /\ Paid(todo', foreign') = p
  BY PaidType DEF StoreInv, StoreTypeOK
<1>2. PaidFor(c)
  BY DEF AllPaidFor
<1> HIDE DEF p
<1>3. /\ Len(todo[c]) <= 1
      /\ snap[c] # Absent => disk # Absent
      /\ attempt[c] <= p + 1
      /\ Live(c) /\ pc[c] \in {"lock", "check"} /\ disk # snap[c] => attempt[c] <= p
      /\ Live(c) /\ pc[c] = "stale" => attempt[c] <= p
      /\ outcome[c] = "conflict" => todo[c] # <<>> /\ attempt[c] <= p
  BY <1>2 DEF PaidFor, p
<1>4. Live(c) /\ pc[c] = "check" => todo[c] # <<>>
  BY DEF StoreInv, Validated, ValidatedAt
<1>5. attempt'[c] <= p + 1
  BY <1>1, <1>3
<1>6. /\ snap'[c] # Absent => disk # Absent
      /\ Live(c)' /\ pc'[c] \in {"lock", "check"} /\ disk # snap'[c] => attempt'[c] <= p
      /\ Live(c)' /\ pc'[c] = "stale" => attempt'[c] <= p
      /\ outcome'[c] = "conflict" => todo[c] # <<>> /\ attempt'[c] <= p
  BY <1>3, <1>4
<1>7. PaidFor(c)'
  BY <1>1, <1>3, <1>5, <1>6 DEF PaidFor
<1>8. ASSUME NEW d \in Call \ {c} PROVE PaidFor(d)'
  <2>1. PaidFor(d) /\ d \in Call /\ Paid(todo, foreign) <= Paid(todo', foreign')
    BY <1>1 DEF AllPaidFor, p
  <2>2. QED
    BY <2>1, PaidForByOthers
<1>9. QED
  BY <1>7, <1>8 DEF AllPaidFor

LEMMA QuietSteps ==
  ASSUME StoreInv, StoreInv', IsFiniteSet(Call), AllPaidFor, NEW c \in Call,
         \/ Load(c) \/ LoadFault(c) \/ LockEnter(c) \/ LockRefuse(c) \/ Check(c)
         \/ WriteFault(c) \/ Release(c) \/ Crash(c) \/ (Create(c) /\ disk # Absent)
  PROVE  AllPaidFor'
<1> USE DEF StoreInv
<1>1. ASSUME Load(c) PROVE AllPaidFor'
  <2>1. /\ UNCHANGED <<mode, disk, todo, snap, attempt, foreign>>
        /\ pc'[c] \in {"read", "create", "done"} /\ outcome'[c] \in {outcome[c], "refused"}
        /\ \A d \in Call \ {c} : pc'[d] = pc[d] /\ outcome'[d] = outcome[d]
    BY <1>1 DEF Load, Goto, End, StoreTypeOK, ghostVars
  <2>2. QED
    BY <2>1, PaidForQuietly
<1>2. ASSUME Create(c), disk # Absent PROVE AllPaidFor'
  <2>1. /\ UNCHANGED <<mode, disk, todo, snap, attempt, outcome, foreign>> /\ pc'[c] = "read"
        /\ \A d \in Call \ {c} : pc'[d] = pc[d]
    BY <1>2 DEF Create, Goto, StoreTypeOK
  <2>2. QED
    BY <2>1, PaidForQuietly
<1>3. ASSUME LoadFault(c) PROVE AllPaidFor'
  <2>1. /\ UNCHANGED <<mode, disk, todo, snap, attempt, foreign>>
        /\ pc'[c] = "done" /\ outcome'[c] = "error"
        /\ \A d \in Call \ {c} : pc'[d] = pc[d] /\ outcome'[d] = outcome[d]
    BY <1>3 DEF LoadFault, Goto, End, StoreTypeOK, ghostVars
  <2>2. QED
    BY <2>1, PaidForQuietly
<1>4. ASSUME LockEnter(c) PROVE AllPaidFor'
  <2>1. /\ UNCHANGED <<disk, todo, outcome, snap, attempt, foreign>>
        /\ At(c, "lock") /\ pc'[c] = "check"
        /\ \A d \in Call \ {c} : pc'[d] = pc[d] /\ mode'[d] = mode[d]
    BY <1>4 DEF LockEnter, Goto, Enter, Move, registerVars, ghostVars, StoreTypeOK, MutexTypeOK
  <2>2. QED
    BY <2>1, PaidForQuietly DEF At
<1>5. ASSUME LockRefuse(c) PROVE AllPaidFor'
  <2>1. /\ UNCHANGED <<disk, todo, snap, attempt, foreign>>
        /\ pc'[c] = "done" /\ outcome'[c] = "error"
        /\ \A d \in Call \ {c} : /\ pc'[d] = pc[d] /\ mode'[d] = mode[d]
                                 /\ outcome'[d] = outcome[d]
    BY <1>5 DEF LockRefuse, Goto, End, Refuse, Move, ghostVars, StoreTypeOK, MutexTypeOK
  <2>2. QED
    BY <2>1, PaidForQuietly
<1>6. ASSUME Check(c) PROVE AllPaidFor'
  <2>1. /\ UNCHANGED <<mode, disk, todo, snap, attempt, foreign>>
        /\ At(c, "check") /\ pc'[c] \in {"replace", "stale"}
        /\ pc'[c] = "stale" => disk # snap[c]
        /\ outcome'[c] = "conflict" => outcome[c] = "conflict" \/ disk # snap[c]
        /\ \A d \in Call \ {c} : pc'[d] = pc[d] /\ outcome'[d] = outcome[d]
    BY <1>6 DEF Check, Goto, At, End, StoreTypeOK
  <2>2. QED
    BY <2>1, PaidForQuietly DEF At
<1>7. ASSUME WriteFault(c) PROVE AllPaidFor'
  <2>1. /\ UNCHANGED <<mode, disk, todo, snap, attempt, foreign>>
        /\ pc'[c] = "failed" /\ outcome'[c] = "error"
        /\ \A d \in Call \ {c} : pc'[d] = pc[d] /\ outcome'[d] = outcome[d]
    BY <1>7 DEF WriteFault, Goto, End, StoreTypeOK, ghostVars
  <2>2. QED
    BY <2>1, PaidForQuietly
<1>8. ASSUME Crash(c) PROVE AllPaidFor'
  <2>1. /\ UNCHANGED <<disk, todo, outcome, attempt, foreign>>
        /\ pc'[c] = "done" /\ snap'[c] = Absent
        /\ \A d \in Call \ {c} : pc'[d] = pc[d] /\ mode'[d] = mode[d] /\ snap'[d] = snap[d]
    BY <1>8 DEF Crash, Die, registerVars, ghostVars, StoreTypeOK, MutexTypeOK
  <2>2. QED
    BY <2>1, PaidForQuietly
<1>9. ASSUME Release(c) PROVE AllPaidFor'
  <2>1. /\ Live(c) /\ UNCHANGED <<disk, todo, outcome, snap, foreign>>
        /\ \A d \in Call \ {c} : mode'[d] = mode[d]
    BY <1>9 DEF Release, Exit, Move, Live, registerVars, StoreTypeOK, MutexTypeOK
  <2>2. /\ pc'[c] \in {"load", "done"}
        /\ \A d \in Call \ {c} : pc'[d] = pc[d]
    BY <1>9 DEF Release, Goto, StoreTypeOK
  <2>3. /\ \A d \in Call \ {c} : attempt'[d] = attempt[d]
        /\ \/ attempt'[c] = attempt[c]
           \/ pc[c] = "committed" /\ job[c].kind = "save" /\ attempt'[c] = 1
           \/ pc[c] = "stale" /\ Replays(c) /\ attempt'[c] = attempt[c] + 1
    BY <1>9 DEF Release, Goto, At, StoreTypeOK
  <2>4. outcome[c] = "conflict" => attempt'[c] = attempt[c]
    BY <2>1, <2>3 DEF Unsettled
  <2>5. QED
    BY <2>1, <2>2, <2>3, <2>4, PaidForQuietly
<1>10. QED
  BY <1>1, <1>2, <1>3, <1>4, <1>5, <1>6, <1>7, <1>8, <1>9

LEMMA TailOfOne ==
  ASSUME NEW S, NEW s \in Seq(S), s # <<>>, Len(s) <= 1
  PROVE  Tail(s) = <<>>
<1> DEFINE n == Len(s)
           m == Len(Tail(s))
<1>1. n \in Nat /\ m = n - 1 /\ n <= 1 /\ Tail(s) \in Seq(S)
  BY HeadTailProperties, LenProperties
<1>2. n # 0
  BY EmptySeq
<1>3. (Tail(s) # <<>>) => m \in Nat \ {0}
  BY <1>1, EmptySeq
<1> HIDE DEF n, m
<1>4. m = 0
  BY <1>1, <1>2
<1>5. QED
  BY <1>3, <1>4

LEMMA CreatingPays ==
  ASSUME StoreInv, StoreInv', IsFiniteSet(Call), AllPaidFor, NEW c \in Call, Create(c),
         disk = Absent
  PROVE  AllPaidFor'
<1> USE DEF StoreInv
<1>1. /\ UNCHANGED <<mode, todo, snap, attempt, foreign>>
      /\ pc'[c] \in {"read", "done"} /\ outcome'[c] \in {outcome[c], "ok"}
      /\ \A d \in Call \ {c} : pc'[d] = pc[d] /\ outcome'[d] = outcome[d]
  BY DEF Create, Goto, End, StoreTypeOK
<1>2. Paid(todo', foreign') = Paid(todo, foreign) /\ Paid(todo, foreign) \in Nat
  BY <1>1, PaidType
<1>3. PaidFor(c)'
  <2>1. PaidFor(c)
    BY DEF AllPaidFor
  <2>2. QED
    BY <1>1, <1>2, <2>1 DEF PaidFor
<1>4. ASSUME NEW d \in Call \ {c} PROVE PaidFor(d)'
  <2>1. PaidFor(d) /\ d \in Call /\ Paid(todo, foreign) <= Paid(todo', foreign')
    BY <1>2 DEF AllPaidFor
  <2>2. QED
    BY <1>1, <2>1, PaidForByOthers
<1>5. QED
  BY <1>3, <1>4 DEF AllPaidFor

LEMMA ReadingPays ==
  ASSUME StoreInv, StoreInv', IsFiniteSet(Call), AllPaidFor, NEW c \in Call, Read(c)
  PROVE  AllPaidFor'
<1> USE DEF StoreInv
<1>1. /\ disk # Absent /\ UNCHANGED <<disk, foreign>> /\ snap'[c] = disk
      /\ \A d \in Call \ {c} : snap'[d] = snap[d]
  BY DEF Read, StoreTypeOK
<1>2. /\ At(c, "read") /\ pc'[c] \in {"done", "lock"} /\ outcome[c] = "none"
      /\ \A d \in Call \ {c} : pc'[d] = pc[d]
  <2>1. At(c, "read") /\ pc'[c] \in {"done", "lock"} /\ \A d \in Call \ {c} : pc'[d] = pc[d]
    BY DEF Read, Goto, StoreTypeOK
  <2>2. QED
    BY <2>1 DEF At, Unsettled
<1>3. /\ outcome'[c] # "conflict"
      /\ \A d \in Call \ {c} : outcome'[d] = outcome[d] /\ mode'[d] = mode[d]
  BY <1>2 DEF Read, End, Request, Move, StoreTypeOK, MutexTypeOK
<1>4. /\ attempt'[c] \in {1, attempt[c]}
      /\ \A d \in Call \ {c} : attempt'[d] = attempt[d]
  BY DEF Read, StoreTypeOK
<1>5. /\ Len(todo'[c]) <= 1 /\ (todo[c] = <<>> => todo'[c] = <<>>)
      /\ \A d \in Call \ {c} : todo'[d] = todo[d]
  <2>1. todo[c] \in Seq(Target) /\ Len(todo[c]) <= 1
    BY DEF StoreTypeOK, AllPaidFor, PaidFor
  <2>2. CASE UNCHANGED todo
    BY <2>1, <2>2
  <2>3. ASSUME NEW k \in NextAt(job[c], todo[c], disk),
               todo' = [todo EXCEPT ![c] = SubSeq(@, k, Len(@))]
        PROVE  /\ Len(todo'[c]) <= 1 /\ (todo[c] = <<>> => todo'[c] = <<>>)
               /\ \A d \in Call \ {c} : todo'[d] = todo[d]
    <3>1. todo'[c] = SubSeq(todo[c], k, Len(todo[c]))
      BY <2>3 DEF StoreTypeOK
    <3>2. QED
      BY <2>1, <2>3, <3>1, RestShorter DEF StoreTypeOK
  <2>4. QED
    BY <2>2, <2>3 DEF Read
<1>6. /\ Paid(todo, foreign) \in Nat /\ Paid(todo', foreign') \in Nat
      /\ Paid(todo, foreign) <= Paid(todo', foreign')
  <2>1. Cardinality(Landed(todo)) <= Cardinality(Landed(todo'))
    BY <1>5, LandedGrows
  <2>2. Paid(todo, foreign) \in Nat /\ Paid(todo', foreign') \in Nat
    BY PaidType
  <2>3. /\ Cardinality(Landed(todo)) \in Nat /\ Cardinality(Landed(todo')) \in Nat
        /\ foreign \in Nat
    BY <1>5, LandedGrows, CdbStoreConstants DEF CdbStoreConstants, StoreTypeOK
  <2>4. QED
    BY <1>1, <2>1, <2>2, <2>3 DEF Paid
<1>7. PaidFor(c)'
  <2>1. attempt[c] <= Paid(todo, foreign) + 1
    BY DEF AllPaidFor, PaidFor
  <2>2. attempt'[c] <= Paid(todo', foreign') + 1
    BY <1>4, <1>6, <2>1 DEF StoreTypeOK
  <2>3. QED
    BY <1>1, <1>2, <1>3, <1>5, <2>2 DEF PaidFor
<1>8. ASSUME NEW d \in Call \ {c} PROVE PaidFor(d)'
  <2>1. PaidFor(d) /\ d \in Call
    BY DEF AllPaidFor
  <2>2. QED
    BY <1>1, <1>2, <1>3, <1>4, <1>5, <1>6, <2>1, PaidForByOthers
<1>9. QED
  BY <1>7, <1>8 DEF AllPaidFor

LEMMA ReplacingPays ==
  ASSUME StoreInv, StoreInv', IsFiniteSet(Call), AllPaidFor, NEW c \in Call, Replace(c)
  PROVE  AllPaidFor'
<1> USE DEF StoreInv
<1>1. /\ UNCHANGED <<mode, snap, attempt, foreign>> /\ At(c, "replace")
      /\ todo' = [todo EXCEPT ![c] = Tail(@)] /\ pc'[c] = "committed"
      /\ outcome'[c] \in {outcome[c], "ok"}
      /\ \A d \in Call \ {c} : pc'[d] = pc[d] /\ outcome'[d] = outcome[d]
  BY DEF Replace, Goto, End, StoreTypeOK
<1>2. disk' # Absent
  <2>1. ValidatedAt(c)
    BY <1>1 DEF At, Validated
  <2>2. snap[c] \in Cdb /\ todo[c] \in Seq(Target) /\ job[c] \in Job
    BY <2>1 DEF ValidatedAt, StoreTypeOK, Disk
  <2>3. Head(todo[c]) \in Target
    BY <2>1, <2>2, HeadTailProperties DEF ValidatedAt
  <2>4. NewCdb(c, job[c], Head(todo[c]), snap[c]) \in Cdb
    BY <2>1, <2>2, <2>3, NewCdbType DEF ValidatedAt
  <2>5. QED
    BY <2>4, AbsentIsNoCdb DEF AbsentIsNoCdb, Replace
<1>3. /\ todo[c] # <<>> /\ todo'[c] = <<>> /\ outcome[c] = "none"
      /\ \A d \in Call \ {c} : todo'[d] = todo[d]
  <2>1. todo[c] \in Seq(Target) /\ todo[c] # <<>> /\ Len(todo[c]) <= 1
    BY <1>1 DEF At, Validated, ValidatedAt, StoreTypeOK, AllPaidFor, PaidFor
  <2>2. Tail(todo[c]) = <<>>
    BY <2>1, TailOfOne
  <2>3. outcome[c] = "none"
    BY <1>1 DEF At, Unsettled
  <2>4. QED
    BY <1>1, <2>1, <2>2, <2>3 DEF StoreTypeOK
<1>4. /\ Paid(todo, foreign) \in Nat /\ Paid(todo', foreign') \in Nat
      /\ Paid(todo', foreign') = Paid(todo, foreign) + 1
  <2>1. Cardinality(Landed(todo')) = Cardinality(Landed(todo)) + 1
    BY <1>3, LandedByOne
  <2>2. Paid(todo, foreign) \in Nat /\ Paid(todo', foreign') \in Nat
    BY PaidType
  <2>3. Cardinality(Landed(todo)) \in Nat /\ foreign \in Nat
    BY LandedGrows, CdbStoreConstants DEF CdbStoreConstants, StoreTypeOK
  <2>4. QED
    BY <1>1, <2>1, <2>2, <2>3 DEF Paid
<1>5. PaidFor(c)'
  <2>1. attempt[c] <= Paid(todo, foreign) + 1 /\ attempt[c] \in Nat
    BY DEF AllPaidFor, PaidFor, StoreTypeOK
  <2>2. attempt'[c] <= Paid(todo', foreign') + 1
    BY <1>1, <1>4, <2>1
  <2>3. Len(<<>>) <= 1
    BY EmptySeq
  <2>4. QED
    BY <1>1, <1>2, <1>3, <2>2, <2>3 DEF PaidFor
<1>6. ASSUME NEW d \in Call \ {c} PROVE PaidFor(d)'
  <2>1. PaidFor(d) /\ d \in Call
    BY DEF AllPaidFor
  <2>2. Paid(todo, foreign) <= Paid(todo', foreign')
        /\ Paid(todo, foreign) + 1 <= Paid(todo', foreign')
    BY <1>4
  <2>3. QED
    BY <1>1, <1>2, <1>3, <2>1, <2>2, PaidForByOthers
<1>7. QED
  BY <1>5, <1>6 DEF AllPaidFor

LEMMA ForeignPays ==
  ASSUME StoreInv, StoreInv', IsFiniteSet(Call), AllPaidFor, ForeignWrite
  PROVE  AllPaidFor'
<1> USE DEF StoreInv
<1>1. disk # Absent /\ foreign' = foreign + 1 /\ UNCHANGED <<mode, todo, outcome, localVars>>
  BY DEF ForeignWrite
<1>2. disk' # Absent
  <2>1. PICK recs \in ForeignRecs(disk.recs) :
          disk' = [recs |-> recs, enc |-> disk.enc, salt |-> Seal(disk.enc, disk.salt)]
    BY DEF ForeignWrite
  <2>2. disk \in Cdb
    BY <1>1 DEF StoreTypeOK, Disk
  <2>3. recs \in Seq(Rec)
    BY <2>2, ForeignRecsType DEF Cdb
  <2>4. disk' \in Cdb
    BY <2>1, <2>2, <2>3 DEF Cdb, Seal
  <2>5. QED
    BY <2>4, AbsentIsNoCdb DEF AbsentIsNoCdb
<1>3. /\ Paid(todo, foreign) <= Paid(todo', foreign')
      /\ Paid(todo, foreign) + 1 <= Paid(todo', foreign')
  <2>1. Cardinality(Landed(todo)) \in Nat /\ foreign \in Nat
    BY LandedGrows, CdbStoreConstants DEF CdbStoreConstants, StoreTypeOK
  <2>2. QED
    BY <1>1, <2>1 DEF Paid
<1>4. ASSUME NEW d \in Call PROVE PaidFor(d)'
  <2>1. PaidFor(d)
    BY DEF AllPaidFor
  <2>2. QED
    BY <1>1, <1>2, <1>3, <2>1, PaidForByOthers DEF localVars
<1>5. QED
  BY <1>4 DEF AllPaidFor

LEMMA PaidForInductive ==
  ASSUME StoreInv, StoreInv', IsFiniteSet(Call), AllPaidFor, [StoreNext]_storeVars
  PROVE  AllPaidFor'
<1>1. CASE UNCHANGED storeVars
  BY <1>1 DEF storeVars, AllPaidFor, PaidFor, Live
<1>2. CASE ForeignWrite
  BY <1>2, ForeignPays
<1>3. ASSUME NEW c \in Call, StoreProgress(c) \/ LoadFault(c) \/ WriteFault(c) \/ Crash(c)
      PROVE  AllPaidFor'
  BY <1>3, QuietSteps, CreatingPays, ReadingPays, ReplacingPays DEF StoreProgress
<1>4. QED
  BY <1>1, <1>2, <1>3 DEF StoreNext, StoreEnv

(* "N simultaneous writers need at most N attempts": when every caller has
   one target to write, and there are no more callers and foreign writes than
   attempts, no caller that replays is ever answered cdb/conflict.          *)
THEOREM StoreAllLand ==
  ASSUME IsFiniteSet(Call), \A w \in Work : Len(w.todo) = 1
  PROVE  StoreSpec => []AllLand
<1>1. StoreInit => AllPaidFor
  BY PaidForInit
<1>2. StoreInv /\ StoreInv' /\ AllPaidFor /\ [StoreNext]_storeVars => AllPaidFor'
  BY PaidForInductive
<1>3. StoreInv /\ AllPaidFor => AllLand
  <2>1. SUFFICES ASSUME StoreInv, AllPaidFor, Cardinality(Call) + MaxForeign <= MaxAttempts,
                        NEW c \in Call, job[c].replay, outcome[c] = "conflict"
                 PROVE  FALSE
    BY DEF AllLand
  <2>2. attempt[c] = MaxAttempts /\ foreign \in Nat /\ foreign <= MaxForeign
    BY <2>1, CdbStoreConstants DEF CdbStoreConstants, StoreInv, StoreTypeOK, ChangesCounted,
       Replays
  <2>3. todo[c] # <<>> /\ attempt[c] <= Paid(todo, foreign)
    BY <2>1 DEF AllPaidFor, PaidFor
  <2>4. Cardinality(Landed(todo)) \in Nat /\ Cardinality(Landed(todo)) < Cardinality(Call)
        /\ Cardinality(Call) \in Nat
    <3>1. Landed(todo) \subseteq Call /\ Landed(todo) # Call
      BY <2>3 DEF Landed
    <3>2. QED
      BY <3>1, FS_Subset, FS_CardinalityType
  <2>5. MaxForeign \in Nat /\ MaxAttempts \in Nat
    BY CdbStoreConstants DEF CdbStoreConstants
  <2>6. QED
    BY <2>1, <2>2, <2>3, <2>4, <2>5 DEF Paid
<1>4. QED
  BY <1>1, <1>2, <1>3, StoreInvariant, PTL DEF StoreSpec

-----------------------------------------------------------------------------
(* One record for each (target, user).                                     *)

Distinct(recs) ==
  \A i, k \in DOMAIN recs :
    recs[i].target = recs[k].target /\ recs[i].user = recs[k].user => i = k

DistinctIn(d) == d # Absent => Distinct(d.recs)

AllDistinct == DistinctIn(disk) /\ \A c \in Call : DistinctIn(snap[c])

(* Records keep their identities, in their places.                         *)
LEMMA SameIdentities ==
  ASSUME NEW old, NEW new, DOMAIN new = DOMAIN old, Distinct(old),
         \A i \in DOMAIN old : new[i].target = old[i].target /\ new[i].user = old[i].user
  PROVE  Distinct(new)
BY DEF Distinct

LEMMA DistinctAppend ==
  ASSUME NEW recs \in Seq(Rec), NEW r \in Rec, Distinct(recs),
         Matches(recs, r.target, r.user) = {}
  PROVE  Distinct(Append(recs, r))
<1> DEFINE n == Len(recs)
           s == Append(recs, r)
<1>1. /\ n \in Nat /\ DOMAIN recs = 1..n /\ DOMAIN s = 1..(n + 1)
      /\ s[n + 1] = r /\ \A i \in 1..n : s[i] = recs[i]
  BY AppendProperties, LenProperties
<1>2. \A i \in 1..n : ~(recs[i].target = r.target /\ recs[i].user = r.user)
  BY <1>1 DEF Matches
<1>3. \A i, k \in 1..n : recs[i].target = recs[k].target /\ recs[i].user = recs[k].user
                           => i = k
  BY <1>1 DEF Distinct
<1> HIDE DEF n, s
<1>4. \A i \in 1..(n + 1) : i \in 1..n \/ i = n + 1
  BY <1>1
<1>5. \A i, k \in DOMAIN s : s[i].target = s[k].target /\ s[i].user = s[k].user => i = k
  <2>1. SUFFICES ASSUME NEW i \in 1..(n + 1), NEW k \in 1..(n + 1),
                        s[i].target = s[k].target, s[i].user = s[k].user
                 PROVE  i = k
    BY <1>1
  <2>2. CASE i \in 1..n /\ k \in 1..n
    BY <1>1, <1>3, <2>1, <2>2
  <2>3. CASE i \in 1..n /\ k = n + 1
    BY <1>1, <1>2, <2>1, <2>3
  <2>4. CASE i = n + 1 /\ k \in 1..n
    BY <1>1, <1>2, <2>1, <2>4
  <2>5. QED
    BY <1>4, <2>2, <2>3, <2>4
<1>6. QED
  BY <1>5 DEF Distinct, s

(* What RemoveAt leaves.                                                   *)
LEMMA RemovedElements ==
  ASSUME NEW S, NEW s \in Seq(S), NEW i \in 1..Len(s)
  PROVE  /\ DOMAIN RemoveAt(s, i) = 1..(Len(s) - 1)
         /\ \A k \in 1..(Len(s) - 1) :
              RemoveAt(s, i)[k] = IF k < i THEN s[k] ELSE s[k + 1]
<1> DEFINE n == Len(s)
           a == SubSeq(s, 1, i - 1)
           b == SubSeq(s, i + 1, n)
<1>1. n \in Nat /\ i \in Int /\ i >= 1 /\ i <= n
  BY LenProperties
<1>2. /\ a \in Seq(S) /\ Len(a) = i - 1
      /\ \A k \in 1..(i - 1) : a[k] = s[k]
  <2>1. \A k \in 1..(i - 1) : s[k] \in S
    BY <1>1, ElementOfSeq
  <2>2. 1 \in Int /\ i - 1 \in Int
    BY <1>1
  <2>3. /\ a \in Seq(S)
        /\ Len(a) = IF 1 <= i - 1 THEN (i - 1) - 1 + 1 ELSE 0
        /\ \A k \in 1..((i - 1) - 1 + 1) : a[k] = s[1 + k - 1]
    BY <2>1, <2>2, SubSeqProperties
  <2> HIDE DEF a
  <2>4. (i - 1) - 1 + 1 = i - 1 /\ \A k \in Int : 1 + k - 1 = k
    BY <1>1
  <2>5. QED
    BY <1>1, <2>3, <2>4
<1>3. /\ b \in Seq(S) /\ Len(b) = n - i
      /\ \A k \in 1..(n - i) : b[k] = s[i + k]
  <2>1. \A k \in (i + 1)..n : s[k] \in S
    BY <1>1, ElementOfSeq
  <2>2. i + 1 \in Int /\ n \in Int
    BY <1>1
  <2>3. /\ b \in Seq(S)
        /\ Len(b) = IF i + 1 <= n THEN n - (i + 1) + 1 ELSE 0
        /\ \A k \in 1..(n - (i + 1) + 1) : b[k] = s[(i + 1) + k - 1]
    BY <2>1, <2>2, SubSeqProperties
  <2> HIDE DEF b, n
  <2>4. n - (i + 1) + 1 = n - i /\ \A k \in Int : (i + 1) + k - 1 = i + k
    BY <1>1
  <2>5. QED
    BY <1>1, <2>3, <2>4
<1>4. /\ RemoveAt(s, i) \in Seq(S)
      /\ Len(RemoveAt(s, i)) = Len(a) + Len(b)
      /\ \A k \in 1..(Len(a) + Len(b)) :
           RemoveAt(s, i)[k] = IF k <= Len(a) THEN a[k] ELSE b[k - Len(a)]
  BY <1>2, <1>3, ConcatProperties DEF RemoveAt
<1>5. DOMAIN RemoveAt(s, i) = 1..(Len(a) + Len(b))
  BY <1>4, LenProperties
<1> DEFINE r == RemoveAt(s, i)
<1> HIDE DEF a, b, n, r
<1>6. Len(a) + Len(b) = n - 1
  BY <1>1, <1>2, <1>3
<1>7. ASSUME NEW k \in 1..(n - 1)
      PROVE  r[k] = IF k < i THEN s[k] ELSE s[k + 1]
  <2>1. CASE k < i
    <3>1. k \in 1..(i - 1) /\ k <= i - 1
      BY <1>1, <2>1
    <3>2. r[k] = a[k]
      BY <1>2, <1>4, <1>6, <3>1 DEF r
    <3>3. QED
      BY <1>2, <2>1, <3>1, <3>2
  <2>2. CASE ~(k < i)
    <3>1. /\ ~(k <= i - 1) /\ k - (i - 1) \in 1..(n - i) /\ i + (k - (i - 1)) = k + 1
      BY <1>1, <2>2
    <3>2. r[k] = b[k - (i - 1)]
      BY <1>2, <1>4, <1>6, <3>1 DEF r
    <3>3. b[k - (i - 1)] = s[k + 1]
      BY <1>3, <3>1
    <3>4. QED
      BY <2>2, <3>2, <3>3
  <2>3. QED
    BY <2>1, <2>2
<1>8. QED
  BY <1>5, <1>6, <1>7 DEF r, n

LEMMA DistinctRemove ==
  ASSUME NEW recs \in Seq(Rec), NEW j \in 1..Len(recs), Distinct(recs)
  PROVE  Distinct(RemoveAt(recs, j))
<1> DEFINE n == Len(recs)
           s == RemoveAt(recs, j)
           f(k) == IF k < j THEN k ELSE k + 1
<1>1. n \in Nat /\ DOMAIN recs = 1..n /\ j \in 1..n
  BY LenProperties
<1>2. DOMAIN s = 1..(n - 1) /\ \A k \in 1..(n - 1) : s[k] = recs[f(k)]
  BY RemovedElements
<1> HIDE DEF n, s
<1>3. \A k \in 1..(n - 1) : f(k) \in 1..n
  BY <1>1
<1>4. \A i, k \in 1..(n - 1) : f(i) = f(k) => i = k
  BY <1>1
<1> HIDE DEF f
<1>5. \A i, k \in 1..n : recs[i].target = recs[k].target /\ recs[i].user = recs[k].user
                         => i = k
  BY <1>1 DEF Distinct
<1>6. ASSUME NEW i \in 1..(n - 1), NEW k \in 1..(n - 1),
             s[i].target = s[k].target, s[i].user = s[k].user
      PROVE  i = k
  <2>1. recs[f(i)].target = recs[f(k)].target /\ recs[f(i)].user = recs[f(k)].user
    BY <1>2, <1>6
  <2>2. f(i) = f(k)
    BY <1>3, <1>5, <2>1
  <2>3. QED
    BY <1>4, <2>2
<1>7. QED
  BY <1>2, <1>6 DEF Distinct, s

LEMMA DistinctAdd ==
  ASSUME NEW c \in Call, NEW j \in Job, NEW t \in Target, NEW recs \in Seq(Rec),
         j.kind \in {"add", "force", "save"}, Distinct(recs)
  PROVE  Distinct(Added(c, j, t, recs))
<1> DEFINE new == [target |-> t, user |-> j.user, edits |-> {c}]
           old == Matches(recs, t, j.user)
<1>1. j.user # Anyone /\ new \in Rec
  <2>1. j.user \in User
    BY DEF Job
  <2>2. QED
    BY <2>1, CdbDataConstants DEF CdbDataConstants, Rec
<1>2. CASE old = {}
  <2>1. Distinct(Append(recs, new))
    BY <1>1, <1>2, DistinctAppend
  <2>2. QED
    BY <1>2, <2>1 DEF Added
<1>3. CASE old # {}
  <2> DEFINE s == [i \in DOMAIN recs |-> IF i \in old THEN new ELSE recs[i]]
  <2>1. \A i \in old : recs[i].target = t /\ recs[i].user = j.user
    BY <1>1 DEF Matches
  <2>2. \A i \in DOMAIN recs : s[i].target = recs[i].target /\ s[i].user = recs[i].user
    BY <2>1
  <2>3. DOMAIN s = DOMAIN recs
    OBVIOUS
  <2>4. Added(c, j, t, recs) = s
    BY <1>3 DEF Added
  <2> HIDE DEF s
  <2>5. QED
    BY <2>2, <2>3, <2>4, SameIdentities
<1>4. QED
  BY <1>2, <1>3

LEMMA DistinctSet ==
  ASSUME NEW c \in Call, NEW j \in Job, NEW t, NEW recs \in Seq(Rec), j.to = Anyone,
         Distinct(recs)
  PROVE  Distinct(Changed(c, j, t, recs))
<1> DEFINE s == Changed(c, j, t, recs)
<1>1. DOMAIN s = DOMAIN recs
  BY DEF Changed
<1>2. \A i \in DOMAIN recs : recs[i] \in Rec
  BY LenProperties, ElementOfSeq
<1>3. \A i \in DOMAIN recs : s[i].target = recs[i].target /\ s[i].user = recs[i].user
  BY <1>2 DEF Changed, Rec
<1> HIDE DEF s
<1>4. Distinct(s)
  BY <1>1, <1>3, SameIdentities
<1>5. QED
  BY <1>4 DEF s

LEMMA DistinctNew ==
  ASSUME NEW c \in Call, NEW j \in Job, NEW t \in Target, NEW d \in Cdb,
         ~Refuses(j, t, d), j.kind = "set" => j.to = Anyone, Distinct(d.recs)
  PROVE  DistinctIn(NewCdb(c, j, t, d))
<1>1. d.recs \in Seq(Rec)
  BY DEF Cdb
<1>2. Distinct(NewRecs(c, j, t, d.recs))
  <2>1. CASE j.kind \in {"add", "force", "save"}
    BY <1>1, <2>1, DistinctAdd DEF NewRecs
  <2>2. CASE j.kind = "set"
    BY <1>1, <2>2, DistinctSet DEF NewRecs
  <2>3. CASE j.kind = "remove"
    <3>1. Matches(d.recs, t, j.user) # {}
      BY <2>3 DEF Refuses, Single
    <3>2. (CHOOSE i \in Matches(d.recs, t, j.user) : TRUE) \in 1..Len(d.recs)
      BY <1>1, <3>1, MatchesInRange
    <3>3. QED
      BY <1>1, <2>3, <3>2, DistinctRemove DEF NewRecs, Removed
  <2>4. CASE j.kind \notin {"add", "force", "save", "set", "remove"}
    BY <2>4 DEF NewRecs
  <2>5. QED
    BY <2>1, <2>2, <2>3, <2>4
<1>3. NewCdb(c, j, t, d).recs = NewRecs(c, j, t, d.recs)
  BY DEF NewCdb
<1>4. QED
  BY <1>2, <1>3 DEF DistinctIn

LEMMA DistinctForeign ==
  ASSUME NEW recs \in Seq(Rec), NEW new \in ForeignRecs(recs), Distinct(recs)
  PROVE  Distinct(new)
<1>1. ASSUME NEW t \in Target, Matches(recs, t, NoUser) = {},
             new = Append(recs, [target |-> t, user |-> NoUser, edits |-> {}])
      PROVE  Distinct(new)
  <2> DEFINE r == [target |-> t, user |-> NoUser, edits |-> {}]
  <2>1. r \in Rec /\ r.target = t /\ r.user = NoUser
    BY CdbDataConstants DEF CdbDataConstants, Rec
  <2> HIDE DEF r
  <2>2. Distinct(Append(recs, r))
    BY <1>1, <2>1, DistinctAppend
  <2>3. QED
    BY <1>1, <2>2 DEF r
<1>2. ASSUME NEW i \in 1..Len(recs), new = RemoveAt(recs, i) PROVE Distinct(new)
  BY <1>2, DistinctRemove
<1>3. QED
  BY <1>1, <1>2, LenProperties DEF ForeignRecs

KeepsUsers == \A c \in Call : job[c].kind = "set" => job[c].to = Anyone

LEMMA DistinctInductive ==
  ASSUME StoreInv, AllDistinct, KeepsUsers, [StoreNext]_storeVars
  PROVE  AllDistinct' /\ KeepsUsers'
<1> USE DEF StoreInv
<1>1. KeepsUsers'
  <2>1. job' = job
    BY DEF StoreNext, StoreEnv, StoreProgress, Load, Create, Read, LockEnter, LockRefuse,
       Check, Replace, Release, LoadFault, WriteFault, Crash, ForeignWrite, registerVars,
       storeVars
  <2>2. QED
    BY <2>1 DEF KeepsUsers
<1>2. ASSUME NEW c \in Call, Create(c) PROVE AllDistinct'
  <2>1. Distinct(<<>>)
    BY DEF Distinct
  <2>2. DistinctIn(EmptyCdb(job[c].kind = "initenc"))
    BY <2>1 DEF EmptyCdb, DistinctIn
  <2>3. disk' = disk \/ disk' = EmptyCdb(job[c].kind = "initenc")
    BY <1>2 DEF Create
  <2>4. DistinctIn(disk') /\ snap' = snap
    BY <1>2, <2>2, <2>3 DEF AllDistinct, Create
  <2>5. QED
    BY <2>4 DEF AllDistinct
<1>3. ASSUME NEW c \in Call, Read(c) PROVE AllDistinct'
  <2>1. disk' = disk /\ snap' = [snap EXCEPT ![c] = disk]
    BY <1>3 DEF Read
  <2>2. QED
    BY <2>1 DEF AllDistinct, StoreTypeOK
<1>4. ASSUME NEW c \in Call, Crash(c) PROVE AllDistinct'
  <2>1. disk' = disk /\ snap' = [snap EXCEPT ![c] = Absent]
    BY <1>4 DEF Crash, registerVars
  <2>2. QED
    BY <2>1 DEF AllDistinct, DistinctIn, StoreTypeOK
<1>5. ASSUME NEW c \in Call, Replace(c) PROVE AllDistinct'
  <2>1. ValidatedAt(c)
    BY <1>5 DEF Replace, Goto, At, Validated
  <2>2. snap[c] \in Cdb /\ todo[c] \in Seq(Target) /\ job[c] \in Job
    BY <2>1 DEF ValidatedAt, StoreTypeOK, Disk
  <2>3. Head(todo[c]) \in Target
    BY <2>1, <2>2, HeadTailProperties DEF ValidatedAt
  <2>4. Distinct(snap[c].recs)
    BY <2>1 DEF ValidatedAt, AllDistinct, DistinctIn
  <2>5. DistinctIn(NewCdb(c, job[c], Head(todo[c]), snap[c]))
    BY <2>1, <2>2, <2>3, <2>4, DistinctNew DEF ValidatedAt, KeepsUsers
  <2>6. DistinctIn(disk') /\ snap' = snap
    BY <1>5, <2>5 DEF Replace
  <2>7. QED
    BY <2>6 DEF AllDistinct
<1>6. ASSUME ForeignWrite PROVE AllDistinct'
  <2>1. PICK recs \in ForeignRecs(disk.recs) :
          disk' = [recs |-> recs, enc |-> disk.enc, salt |-> Seal(disk.enc, disk.salt)]
    BY <1>6 DEF ForeignWrite
  <2>2. disk \in Cdb /\ Distinct(disk.recs)
    BY <1>6 DEF ForeignWrite, StoreTypeOK, Disk, AllDistinct, DistinctIn
  <2>3. Distinct(recs)
    BY <2>2, DistinctForeign DEF Cdb
  <2>4. DistinctIn(disk') /\ snap' = snap
    BY <1>6, <2>1, <2>3 DEF ForeignWrite, localVars, DistinctIn
  <2>5. QED
    BY <2>4 DEF AllDistinct
<1>7. ASSUME NEW c \in Call,
             Load(c) \/ LockEnter(c) \/ LockRefuse(c) \/ Check(c) \/ Release(c)
               \/ LoadFault(c) \/ WriteFault(c)
      PROVE  AllDistinct'
  <2>1. disk' = disk /\ snap' = snap
    BY <1>7 DEF Load, LockEnter, LockRefuse, Check, Release, LoadFault, WriteFault,
       registerVars
  <2>2. QED
    BY <2>1 DEF AllDistinct
<1>8. ASSUME UNCHANGED storeVars PROVE AllDistinct'
  <2>1. disk' = disk /\ snap' = snap
    BY <1>8 DEF storeVars
  <2>2. QED
    BY <2>1 DEF AllDistinct
<1>9. QED
  BY <1>1, <1>2, <1>3, <1>4, <1>5, <1>6, <1>7, <1>8
     DEF StoreNext, StoreEnv, StoreProgress

(* "Record identity is the (target, user) pair": as long as no caller is
   asked to move a record to another user, a file that held one record for
   each identity goes on to, whatever races with whatever.  A set with a new
   user checks for no such record, and breaks it.                           *)
THEOREM StoreUniqueIdentity ==
  ASSUME \A w \in Work : w.job.kind = "set" => w.job.to = Anyone,
         \A f \in Files : DistinctIn(f)
  PROVE  StoreSpec => []UniqueIdentity
<1>1. StoreInit => AllDistinct /\ KeepsUsers
  <2>1. SUFFICES ASSUME StoreInit PROVE AllDistinct /\ KeepsUsers
    OBVIOUS
  <2>2. AllDistinct
    BY <2>1 DEF StoreInit, AllDistinct, DistinctIn
  <2>3. KeepsUsers
    BY <2>1 DEF StoreInit, KeepsUsers
  <2>4. QED
    BY <2>2, <2>3
<1>2. StoreInv /\ (AllDistinct /\ KeepsUsers) /\ [StoreNext]_storeVars
        => (AllDistinct /\ KeepsUsers)'
  BY DistinctInductive
<1>3. AllDistinct => UniqueIdentity
  BY DEF AllDistinct, DistinctIn, Distinct, UniqueIdentity
<1>4. QED
  BY <1>1, <1>2, <1>3, StoreInvariant, PTL DEF StoreSpec

-----------------------------------------------------------------------------
(* Every non-empty set of naturals has a least element, and a greatest one
   when it is bounded.                                                     *)

LEMMA Least ==
  ASSUME NEW S \in SUBSET Nat, S # {}
  PROVE  \E m \in S : \A n \in S : m <= n
<1> DEFINE R == OpToRel(<, Nat)
<1>1. IsWellFoundedOn(R, Nat)
  BY NatLessThanWellFounded
<1>2. \A m, n \in Nat : m < n => <<m, n>> \in R
  BY DEF OpToRel
<1> HIDE DEF R
<1>3. PICK m \in S : \A n \in S : <<n, m>> \notin R
  BY <1>1, WFMin
<1>4. ASSUME NEW n \in S PROVE m <= n
  <2>1. m \in Nat /\ n \in Nat
    OBVIOUS
  <2>2. ~(n < m)
    BY <1>2, <1>3, <2>1
  <2>3. QED
    BY <2>1, <2>2
<1>5. QED
  BY <1>4

LEMMA Greatest ==
  ASSUME NEW S \in SUBSET Nat, S # {}, NEW bound \in Nat, \A n \in S : n <= bound
  PROVE  Max(S) \in S /\ \A n \in S : Max(S) >= n
<1> DEFINE Above == {k \in Nat : \A n \in S : n <= k}
<1>1. Above \in SUBSET Nat /\ bound \in Above
  OBVIOUS
<1>2. PICK m \in Above : \A k \in Above : m <= k
  BY <1>1, Least
<1>3. m \in S
  <2> SUFFICES ASSUME m \notin S PROVE FALSE
    OBVIOUS
  <2>1. \A n \in S : n < m
    BY <1>2
  <2>2. m # 0 /\ m - 1 \in Nat
    <3>1. PICK n \in S : TRUE
      OBVIOUS
    <3>2. m \in Nat /\ n \in Nat /\ n < m
      BY <2>1, <3>1
    <3>3. QED
      BY <3>2
  <2>3. \A n \in S : n <= m - 1
    BY <2>1
  <2>4. m - 1 \in Above
    BY <2>2, <2>3
  <2>5. QED
    BY <1>2, <2>4
<1>4. \E x \in S : \A y \in S : x >= y
  BY <1>2, <1>3
<1>5. QED
  BY <1>4 DEF Max

-----------------------------------------------------------------------------
(* Every copy has a name of its own, and while the clock is not set back
   the names tell the order: a copy made later has the newer name.         *)

BackupsTyped ==
  /\ held \in SUBSET Copy /\ IsFiniteSet(held)
  /\ writes \in Seq(Overwrite)

Named(copies) ==
  /\ \A a, b \in copies : a.of = b.of => a = b
  /\ \A a, b \in copies : a.stamp = b.stamp /\ a.suffix = b.suffix => a = b

Ordered(copies) == \A a, b \in copies : a.of < b.of => Newer(b, a)

BackupsNamed ==
  /\ \A b \in held : b.of \in 1..Len(writes) /\ b.suffix < b.of
  /\ Named(held)

BackupsOrdered ==
  Steady => /\ \A b \in held : b.stamp <= writes[Len(writes)].at
            /\ Ordered(held)

BackupInv == BackupsTyped /\ BackupsNamed /\ BackupsOrdered /\ NewestBackupsStay

LEMMA CopyParts ==
  ASSUME NEW b \in Copy
  PROVE  b.of \in Nat /\ b.suffix \in Nat /\ b.stamp \in Nat
BY BackupConstants DEF Copy

LEMMA NewerIsLater ==
  ASSUME NEW copies \in SUBSET Copy, Named(copies), Ordered(copies),
         NEW a \in copies, NEW b \in copies
  PROVE  Newer(a, b) <=> a.of > b.of
<1>1. a.of \in Nat /\ b.of \in Nat /\ a.suffix \in Nat /\ b.suffix \in Nat
       /\ a.stamp \in Nat /\ b.stamp \in Nat
  BY CopyParts
<1>2. ~(Newer(a, b) /\ Newer(b, a))
  BY <1>1 DEF Newer
<1>3. QED
  BY <1>1, <1>2 DEF Named, Ordered, Newer

(* The copies newer than one are no more than the overwrites since.        *)
LEMMA NewerAreFew ==
  ASSUME NEW copies \in SUBSET Copy, Named(copies), Ordered(copies), NEW b \in copies,
         NEW n \in Nat, \A x \in copies : x.of <= n
  PROVE  Cardinality({x \in copies : Newer(x, b)}) <= n - b.of
<1> DEFINE New == {x \in copies : Newer(x, b)}
           f == [x \in New |-> x.of]
<1>1. b.of \in Nat /\ b.of <= n /\ \A x \in New : x.of \in b.of + 1..n
  <2>1. \A x \in copies : x.of \in Nat
    BY DEF Copy
  <2>2. QED
    BY <2>1, NewerIsLater
<1>2. \A x, y \in New : f[x] = f[y] => x = y
  BY DEF Named
<1>3. f \in [New -> b.of + 1..n]
  BY <1>1
<1>4. f \in Injection(New, b.of + 1..n)
  BY <1>2, <1>3 DEF Injection, IsInjective
<1>5. IsFiniteSet(b.of + 1..n) /\ Cardinality(b.of + 1..n) = n - b.of
  <2>1. b.of + 1 \in Int /\ n \in Int /\ (b.of + 1 > n => n - b.of = 0)
          /\ n - (b.of + 1) + 1 = n - b.of
    BY <1>1
  <2> DEFINE a == b.of + 1
  <2>2. IsFiniteSet(a..n) /\ Cardinality(a..n) = IF a > n THEN 0 ELSE n - a + 1
    <3> HIDE DEF a
    <3>1. a \in Int
      BY <2>1 DEF a
    <3>2. QED
      BY <2>1, <3>1, FS_Interval
  <2>3. QED
    BY <2>1, <2>2
<1>6. Cardinality(New) <= Cardinality(b.of + 1..n)
  BY <1>4, <1>5, FS_Injection
<1>7. QED
  BY <1>5, <1>6

(* Of some copies one has the oldest name.                                 *)
LEMMA Oldest ==
  ASSUME NEW copies \in SUBSET Copy, Named(copies), copies # {}
  PROVE  \E b \in copies : \A x \in copies : x # b => Newer(x, b)
<1> DEFINE Stamped == {x.stamp : x \in copies}
<1>1. \A x \in copies : x.stamp \in Nat /\ x.suffix \in Nat
  BY CopyParts
<1>2. Stamped \in SUBSET Nat /\ Stamped # {}
  BY <1>1
<1>3. PICK first \in Stamped : \A k \in Stamped : first <= k
  BY <1>2, Least
<1> DEFINE Numbered == {x.suffix : x \in {y \in copies : y.stamp = first}}
<1>4. Numbered \in SUBSET Nat /\ Numbered # {}
  BY <1>1
<1>5. PICK low \in Numbered : \A k \in Numbered : low <= k
  BY <1>4, Least
<1>6. PICK b \in copies : b.stamp = first /\ b.suffix = low
  BY <1>5
<1>7. ASSUME NEW x \in copies, x # b PROVE Newer(x, b)
  <2>1. x.stamp \in Nat /\ x.suffix \in Nat /\ b.stamp \in Nat /\ b.suffix \in Nat
    BY <1>1
  <2>2. b.stamp <= x.stamp
    BY <1>3, <1>6
  <2>3. x.stamp = b.stamp => b.suffix <= x.suffix
    BY <1>5, <1>6
  <2>4. ~(x.stamp = b.stamp /\ x.suffix = b.suffix)
    BY <1>7 DEF Named
  <2>5. QED
    BY <2>1, <2>2, <2>3, <2>4 DEF Newer
<1>8. QED
  BY <1>7

(* What a pruning without an error leaves.                                 *)
LEMMA StayedAreFew ==
  ASSUME NEW copies \in SUBSET Copy, IsFiniteSet(copies), Named(copies),
         NEW keep \in Nat
  PROVE  Cardinality(copies \ Stale(copies, keep)) <= keep
<1> DEFINE Kept == copies \ Stale(copies, keep)
<1>1. CASE Kept = {}
  BY <1>1, FS_EmptySet
<1>2. CASE Kept # {}
  <2>1. Kept \in SUBSET Copy /\ Named(Kept)
    BY DEF Named
  <2>2. PICK b \in Kept : \A x \in Kept : x # b => Newer(x, b)
    <3> HIDE DEF Kept
    <3>1. QED
      BY <1>2, <2>1, Oldest
  <2> DEFINE New == {x \in copies : Newer(x, b)}
  <2>3. Kept \ {b} \in SUBSET New
    BY <2>2
  <2>4. IsFiniteSet(New) /\ IsFiniteSet(Kept) /\ New \in SUBSET copies
    BY FS_Subset
  <2>5. Cardinality(Kept \ {b}) <= Cardinality(New)
    BY <2>3, <2>4, FS_Subset
  <2>6. Cardinality(New) \in Nat /\ Cardinality(Kept) \in Nat
    BY <2>4, FS_CardinalityType
  <2>7. ~(Cardinality(New) >= keep)
    BY DEF Stale
  <2>8. Cardinality(Kept \ {b}) = Cardinality(Kept) - 1
    BY <2>4, FS_RemoveElement
  <2>9. QED
    BY <2>5, <2>6, <2>7, <2>8
<1>3. QED
  BY <1>1, <1>2

(* The name of a new copy is the newest, and its number stays small.       *)
LEMMA SuffixIsNext ==
  ASSUME BackupsTyped, BackupsNamed, NEW stamp \in Stamps
  PROVE  /\ NextSuffix(stamp) \in Nat /\ NextSuffix(stamp) <= Len(writes)
         /\ \A b \in held : b.stamp = stamp => b.suffix < NextSuffix(stamp)
<1>1. Len(writes) \in Nat
  BY DEF BackupsTyped
<1>2. \A b \in held : b.suffix \in Nat /\ b.suffix < Len(writes)
  BY <1>1 DEF BackupsTyped, BackupsNamed, Copy
<1>3. Taken(stamp) \in SUBSET Nat /\ \A n \in Taken(stamp) : n < Len(writes)
  BY <1>2 DEF Taken
<1>4. \A b \in held : b.stamp = stamp => b.suffix \in Taken(stamp)
  BY DEF Taken
<1>5. CASE Taken(stamp) = {}
  BY <1>1, <1>4, <1>5 DEF NextSuffix
<1>6. CASE Taken(stamp) # {}
  <2>1. Max(Taken(stamp)) \in Taken(stamp) /\ \A n \in Taken(stamp) : Max(Taken(stamp)) >= n
    <3>1. \A n \in Taken(stamp) : n <= Len(writes)
      BY <1>1, <1>3
    <3>2. QED
      BY <1>1, <1>3, <1>6, <3>1, Greatest
  <2>2. NextSuffix(stamp) = Max(Taken(stamp)) + 1
    BY <1>6 DEF NextSuffix
  <2>3. Max(Taken(stamp)) \in Nat /\ Max(Taken(stamp)) < Len(writes)
    BY <1>3, <2>1
  <2>4. QED
    BY <1>1, <1>2, <1>4, <2>1, <2>2, <2>3
<1>7. QED
  BY <1>5, <1>6

-----------------------------------------------------------------------------
LEMMA BackupStep ==
  ASSUME BackupInv, NEW at \in Stamps, NEW keep \in Retentions, Overwrites(at, keep)
  PROVE  BackupInv'
<1> DEFINE n == Len(writes)
           copy == [stamp |-> at, suffix |-> NextSuffix(at), of |-> n + 1]
           copies == held \cup {copy}
<1>1. PICK gone \in SUBSET Stale(copies, keep) :
        /\ held' = copies \ gone
        /\ writes' = Append(writes, [at |-> at, keep |-> keep,
                                     clean |-> gone = Stale(copies, keep)])
  BY DEF Overwrites
<1> DEFINE now == [at |-> at, keep |-> keep, clean |-> gone = Stale(copies, keep)]
<1>2. /\ n \in Nat /\ held \in SUBSET Copy /\ IsFiniteSet(held)
      /\ writes \in Seq(Overwrite) /\ now \in Overwrite
  BY DEF BackupInv, BackupsTyped, Overwrite
<1>3. /\ writes' \in Seq(Overwrite) /\ Len(writes') = n + 1 /\ writes'[n + 1] = now
      /\ \A i \in 1..n : writes'[i] = writes[i]
  BY <1>1, <1>2
<1>4. /\ NextSuffix(at) \in Nat /\ NextSuffix(at) <= n
      /\ \A b \in held : b.stamp = at => b.suffix < NextSuffix(at)
  BY SuffixIsNext DEF BackupInv
<1>5. copy \in Copy
  BY <1>2, <1>4 DEF Copy
<1>6. copies \in SUBSET Copy /\ IsFiniteSet(copies)
  BY <1>2, <1>5, FS_AddElement
<1>7. \A b \in held : b.of \in 1..n /\ b.suffix < b.of
  BY DEF BackupInv, BackupsNamed
<1>8. copy.of = n + 1 /\ copy.suffix = NextSuffix(at) /\ copy.stamp = at
  OBVIOUS
<1> HIDE DEF copy
<1>9. \A x \in copies : x.of \in 1..n + 1 /\ x.suffix < x.of
  BY <1>2, <1>4, <1>7, <1>8
<1>10. held' \in SUBSET copies
  BY <1>1
<1>11. Named(copies)
  <2>1. Named(held)
    BY DEF BackupInv, BackupsNamed
  <2>2. \A b \in held : ~(b.of = copy.of) /\ ~(b.stamp = copy.stamp /\ b.suffix = copy.suffix)
    <3>1. ASSUME NEW b \in held
          PROVE  ~(b.of = copy.of) /\ ~(b.stamp = copy.stamp /\ b.suffix = copy.suffix)
      <4>1. b.of \in 1..n /\ b.suffix \in Nat
        BY <1>2, <1>7, CopyParts
      <4>2. QED
        BY <1>2, <1>4, <1>8, <4>1
    <3>2. QED
      BY <3>1
  <2>3. QED
    BY <2>1, <2>2 DEF Named
<1>12. BackupsTyped'
  BY <1>3, <1>6, <1>10, FS_Subset DEF BackupsTyped
<1>13. BackupsNamed'
  BY <1>2, <1>3, <1>9, <1>10, <1>11 DEF BackupsNamed, Named
<1>14. ASSUME Steady' PROVE Steady /\ (n # 0 => writes[n].at <= at)
  <2>1. Steady
    <3> SUFFICES ASSUME NEW i \in 2..n PROVE writes[i - 1].at <= writes[i].at
      BY DEF Steady
    <3>1. i \in 2..Len(writes') /\ i \in 1..n /\ i - 1 \in 1..n
      BY <1>2, <1>3
    <3>2. writes'[i - 1].at <= writes'[i].at
      BY <1>14, <3>1 DEF Steady
    <3>3. QED
      BY <1>3, <3>1, <3>2
  <2>2. ASSUME n # 0 PROVE writes[n].at <= at
    <3> DEFINE m == n + 1
    <3>1. m \in 2..Len(writes') /\ m - 1 = n /\ n \in 1..n
      BY <1>2, <1>3, <2>2
    <3>2. writes'[m - 1].at <= writes'[m].at
      BY <1>14, <3>1 DEF Steady
    <3>3. writes'[m] = now /\ writes'[n] = writes[n]
      BY <1>3, <3>1
    <3>4. QED
      BY <3>1, <3>2, <3>3
  <2>3. QED
    BY <2>1, <2>2
<1>15. ASSUME Steady' PROVE Ordered(copies) /\ \A x \in copies : x.stamp <= at
  <2>1. Steady /\ Ordered(held)
    BY <1>14, <1>15 DEF BackupInv, BackupsOrdered
  <2>2. \A b \in held : b.stamp <= at
    <3> SUFFICES ASSUME NEW b \in held PROVE b.stamp <= at
      OBVIOUS
    <3>1. b.stamp <= writes[n].at
      BY <2>1 DEF BackupInv, BackupsOrdered
    <3>2. n # 0 /\ writes[n] \in Overwrite
      BY <1>2, <1>7
    <3>3. writes[n].at <= at
      BY <1>14, <1>15, <3>2
    <3>4. b.stamp \in Nat /\ writes[n].at \in Nat /\ at \in Nat
      BY <1>2, <3>2, BackupConstants DEF Copy, Overwrite
    <3>5. QED
      BY <3>1, <3>3, <3>4
  <2>3. \A b \in held : Newer(copy, b)
    <3> SUFFICES ASSUME NEW b \in held PROVE Newer(copy, b)
      OBVIOUS
    <3>1. b.stamp \in Nat /\ at \in Nat /\ b.suffix \in Nat
      BY <1>2, BackupConstants, CopyParts
    <3>2. QED
      BY <1>4, <1>8, <2>2, <3>1 DEF Newer
  <2>4. at <= at
    BY BackupConstants
  <2>5. Ordered(copies)
    BY <1>2, <1>7, <1>8, <2>1, <2>3 DEF Ordered
  <2>6. QED
    BY <1>8, <2>2, <2>4, <2>5
<1>16. BackupsOrdered'
  <2> SUFFICES ASSUME Steady'
               PROVE  (\A b \in held' : b.stamp <= writes'[Len(writes')].at) /\ Ordered(held')
    BY DEF BackupsOrdered
  <2>1. Ordered(copies) /\ \A x \in copies : x.stamp <= at
    BY <1>15
  <2>2. writes'[Len(writes')].at = at
    BY <1>3
  <2>3. QED
    BY <1>10, <2>1, <2>2 DEF Ordered
<1>17. ASSUME Steady', NEW i \in 1..n + 1, Due(i)' PROVE \E b \in held' : b.of = i
  <2>1. PICK b \in copies : b.of = i
    <3>1. CASE i = n + 1
      BY <1>8, <3>1
    <3>2. CASE i \in 1..n
      <4>1. Due(i)
        BY <1>2, <1>3, <1>17, <3>2 DEF Due
      <4>2. Steady
        BY <1>14, <1>17
      <4>3. QED
        BY <3>2, <4>1, <4>2 DEF BackupInv, NewestBackupsStay
    <3>3. QED
      BY <1>2, <3>1, <3>2
  <2>2. keep >= 0 => n + 1 - i < keep
    <3> DEFINE m == n + 1
    <3>1. m \in i..Len(writes')
      BY <1>2, <1>3
    <3>2. writes'[m].keep >= 0 => m - i < writes'[m].keep
      BY <1>17, <3>1 DEF Due
    <3>3. writes'[m].keep = keep
      BY <1>3
    <3>4. QED
      BY <3>2, <3>3
  <2>3. Cardinality({x \in copies : Newer(x, b)}) <= n + 1 - i
    <3>1. n + 1 \in Nat /\ \A x \in copies : x.of <= n + 1
      BY <1>2, <1>9
    <3> DEFINE m == n + 1
    <3>2. m \in Nat /\ \A x \in copies : x.of <= m
      BY <3>1
    <3>3. Cardinality({x \in copies : Newer(x, b)}) <= m - b.of
      <4>1. Ordered(copies)
        BY <1>15, <1>17
      <4> HIDE DEF m, n, copies
      <4>2. QED
        BY <1>6, <1>11, <3>2, <4>1, NewerAreFew
    <3>4. QED
      BY <2>1, <3>3
  <2>4. Cardinality({x \in copies : Newer(x, b)}) \in Nat
    BY <1>6, FS_Subset, FS_CardinalityType
  <2>5. keep \in Int
    BY BackupConstants
  <2>6. b \notin Stale(copies, keep)
    BY <1>2, <2>2, <2>3, <2>4, <2>5 DEF Stale
  <2>7. QED
    BY <1>1, <2>1, <2>6
<1>18. ASSUME now.clean, keep >= 0 PROVE Cardinality(held') <= keep
  <2>1. held' = copies \ Stale(copies, keep)
    BY <1>1, <1>18
  <2>2. keep \in Nat
    BY <1>18, BackupConstants
  <2>3. QED
    BY <1>6, <1>11, <2>1, <2>2, StayedAreFew
<1>19. NewestBackupsStay'
  <2>1. writes'[Len(writes')].clean = now.clean /\ writes'[Len(writes')].keep = keep
    BY <1>3
  <2> HIDE DEF now
  <2>2. Steady' => \A i \in 1..Len(writes') : Due(i)' => \E b \in held' : b.of = i
    BY <1>3, <1>17
  <2>3. writes'[Len(writes')].clean /\ writes'[Len(writes')].keep >= 0
          => Cardinality(held') <= writes'[Len(writes')].keep
    BY <1>18, <2>1
  <2>4. \A a, b \in held' : a.stamp = b.stamp /\ a.suffix = b.suffix => a = b
    BY <1>13 DEF BackupsNamed, Named
  <2>5. QED
    BY <2>2, <2>3, <2>4 DEF NewestBackupsStay
<1>20. QED
  BY <1>12, <1>13, <1>16, <1>19 DEF BackupInv

(* Whatever the clock shows at each overwrite, whatever each keeps and
   wherever an unlink fails: no two copies share a name, a pruning without
   an error leaves no more than it keeps, and unless the clock was set back
   the copies made last stay until as many newer ones were made as an
   overwrite keeps.                                                        *)
THEOREM BackupsKeepNewest == BackupSpec => []NewestBackupsStay
<1>1. BackupInit => BackupInv
  <2> SUFFICES ASSUME BackupInit PROVE BackupInv
    OBVIOUS
  <2>1. held = {} /\ writes = <<>> /\ Len(writes) = 0
    BY DEF BackupInit
  <2>2. BackupsTyped /\ BackupsNamed /\ BackupsOrdered
    BY <2>1, FS_EmptySet DEF BackupsTyped, BackupsNamed, BackupsOrdered, Named, Ordered
  <2>3. NewestBackupsStay
    BY <2>1 DEF NewestBackupsStay
  <2>4. QED
    BY <2>2, <2>3 DEF BackupInv
<1>2. BackupInv /\ [BackupNext]_backupVars => BackupInv'
  <2>1. ASSUME BackupInv, BackupNext PROVE BackupInv'
    BY <2>1, BackupStep DEF BackupNext
  <2>2. ASSUME BackupInv, UNCHANGED backupVars PROVE BackupInv'
    <3>1. held' = held /\ writes' = writes
      BY <2>2 DEF backupVars
    <3>2. BackupsTyped' /\ BackupsNamed' /\ BackupsOrdered'
      BY <2>2, <3>1 DEF BackupInv, BackupsTyped, BackupsNamed, BackupsOrdered, Steady
    <3>3. NewestBackupsStay'
      BY <2>2, <3>1 DEF BackupInv, NewestBackupsStay, Due, Steady
    <3>4. QED
      BY <3>2, <3>3 DEF BackupInv
  <2>3. QED
    BY <2>1, <2>2
<1>3. BackupInv => NewestBackupsStay
  BY DEF BackupInv
<1>4. QED
  BY <1>1, <1>2, <1>3, PTL DEF BackupSpec
=============================================================================
