------------------------------ MODULE CdbData ------------------------------
(***************************************************************************)
(* The contents of a WinBox CDB as src/devices.ts sees them, the jobs its  *)
(* callers bring, what each job finds in a loaded snapshot and the file it *)
(* writes from it.  A record is its identity (target, user) and the edits  *)
(* it carries: one mark per caller that wrote a field of it.               *)
(***************************************************************************)
EXTENDS Naturals, Sequences, SequencesExt

CONSTANTS
  Call,     \* callers: a devices command, an MCP call, a discover --save
  Target,   \* canonical router keys
  User,     \* the values of a record's user
  NoUser,   \* the user of a saved neighbor and of an add without --user
  Anyone,      \* no --match in set and remove, no --user in set
  Absent    \* there is no CDB file

ASSUME CdbDataConstants == NoUser \in User /\ Anyone \notin User

Rec == [target : Target, user : User, edits : SUBSET Call]

(* The revision is a hash of the file.  An open file hashes by its contents;
   every encrypted write rolls a salt, so the salt numbers them.           *)
Cdb == [recs : Seq(Rec), enc : BOOLEAN, salt : Nat]

ASSUME AbsentIsNoCdb == Absent \notin Cdb

Disk == Cdb \cup {Absent}

Kind == {"add", "force", "set", "remove", "save", "encrypt", "init", "initenc"}

(* replay: whether the caller goes through retryOnCdbConflict.             *)
Job == {j \in [kind : Kind, user : User \cup {Anyone}, to : User \cup {Anyone},
               pw : BOOLEAN, replay : BOOLEAN] :
          j.kind \in {"add", "force", "save"} => j.user # Anyone}

Seal(enc, salt) == IF enc THEN salt + 1 ELSE 0

EmptyCdb(enc) == [recs |-> <<>>, enc |-> enc, salt |-> Seal(enc, 0)]

-----------------------------------------------------------------------------
(* matchTargetUser and requireSingleMatch: the indexes of the matches.     *)
Matches(recs, t, u) ==
  {i \in DOMAIN recs : recs[i].target = t /\ u \in {recs[i].user, Anyone}}

Single(S) == \E i \in S : S = {i}

(* What a job finds for target t in the snapshot d, which it could load.   *)
Refuses(j, t, d) ==
  \/ j.kind = "add" /\ Matches(d.recs, t, j.user) # {}
  \/ j.kind = "force" /\ Matches(d.recs, t, j.user) # {}
                      /\ ~Single(Matches(d.recs, t, j.user))
  \/ j.kind \in {"set", "remove"} /\ ~Single(Matches(d.recs, t, j.user))
  \/ j.kind = "initenc" /\ ~d.enc

Skips(j, t, d) ==
  \/ j.kind = "save" /\ Matches(d.recs, t, Anyone) # {}
  \/ j.kind \in {"encrypt", "initenc"} /\ d.enc
  \/ j.kind = "init"

CanLoad(j, d) == d.enc => j.pw

(* How far a snapshot takes a job: the first target it has to write, after
   those it passes over.                                                   *)
NextAt(j, todo, d) ==
  {k \in 1..(Len(todo) + 1) : /\ \A i \in 1..(k - 1) : Skips(j, todo[i], d)
                              /\ k <= Len(todo) => ~Skips(j, todo[k], d)}

-----------------------------------------------------------------------------
(* Mutant: add --force appends, whatever is there.                         *)
AddedLast(c, j, t, recs) ==
  Append(recs, [target |-> t, user |-> j.user, edits |-> {c}])

(* addDevice, setDevice and removeDevice on the records of a snapshot.     *)
Added(c, j, t, recs) ==
  LET new == [target |-> t, user |-> j.user, edits |-> {c}]
      old == Matches(recs, t, j.user)
  IN  IF old = {} THEN Append(recs, new)
      ELSE [i \in DOMAIN recs |-> IF i \in old THEN new ELSE recs[i]]

Changed(c, j, t, recs) ==
  [i \in DOMAIN recs |->
     IF i \in Matches(recs, t, j.user)
       THEN [recs[i] EXCEPT !.user = IF j.to = Anyone THEN @ ELSE j.to,
                            !.edits = @ \cup {c}]
       ELSE recs[i]]

Removed(j, t, recs) ==
  RemoveAt(recs, CHOOSE i \in Matches(recs, t, j.user) : TRUE)

NewRecs(c, j, t, recs) ==
  CASE j.kind \in {"add", "force", "save"} -> Added(c, j, t, recs)
    [] j.kind = "set" -> Changed(c, j, t, recs)
    [] j.kind = "remove" -> Removed(j, t, recs)
    [] OTHER -> recs

(* Mutant: only encrypt writes an encrypted file.                          *)
NewCdbAsAsked(c, j, t, d) ==
  LET enc == j.kind = "encrypt"
  IN  [recs |-> NewRecs(c, j, t, d.recs), enc |-> enc,
       salt |-> Seal(enc, d.salt)]

(* The whole file that replaces snapshot d.                                *)
NewCdb(c, j, t, d) ==
  LET enc == d.enc \/ j.kind = "encrypt"
  IN  [recs |-> NewRecs(c, j, t, d.recs), enc |-> enc,
       salt |-> Seal(enc, d.salt)]
=============================================================================
