---------------------------- MODULE CdbRegister ----------------------------
(***************************************************************************)
(* What a CDB mutation promises: it takes effect at one instant, on the    *)
(* contents the file has at that instant, or not at all; and an answer     *)
(* other than success is true of the file at some instant of the call and  *)
(* leaves it as it is.  CdbStore implements it.                            *)
(***************************************************************************)
EXTENDS CdbData

VARIABLES
  disk,     \* the CDB file
  job,      \* [Call -> the job it was given]
  todo,     \* [Call -> the targets it has still to write]
  outcome   \* [Call -> "none", or how the call ended]

registerVars == <<disk, job, todo, outcome>>

RegisterInit ==
  /\ disk \in Disk
  /\ job \in [Call -> Job]
  /\ todo \in [Call -> Seq(Target)]
  /\ outcome = [c \in Call |-> "none"]

Running(c) == outcome[c] = "none"

(* The file comes into being, empty.                                       *)
Establish(c) ==
  /\ Running(c)
  /\ disk = Absent
  /\ disk' = EmptyCdb(job[c].kind = "initenc")
  /\ outcome' \in {outcome, [outcome EXCEPT ![c] = "ok"]}
  /\ UNCHANGED <<job, todo>>

(* One mutation: applied once, to what the file holds now.                 *)
Commit(c) ==
  /\ Running(c)
  /\ disk # Absent /\ CanLoad(job[c], disk) /\ todo[c] # <<>>
  /\ ~Refuses(job[c], Head(todo[c]), disk) /\ ~Skips(job[c], Head(todo[c]), disk)
  /\ disk' = NewCdb(c, job[c], Head(todo[c]), disk)
  /\ todo' = [todo EXCEPT ![c] = Tail(@)]
  /\ outcome' \in {outcome, [outcome EXCEPT ![c] = "ok"]}
  /\ job' = job

(* Nothing to write, or not allowed to, as the file stands now.            *)
Answer(c) ==
  /\ Running(c)
  /\ \/ /\ disk # Absent /\ CanLoad(job[c], disk)
        /\ \E k \in NextAt(job[c], todo[c], disk) :
             todo' = [todo EXCEPT ![c] = SubSeq(@, k, Len(@))]
        /\ outcome' \in {outcome,
             [outcome EXCEPT ![c] = IF todo'[c] = <<>> THEN "ok" ELSE "refused"]}
        /\ outcome' # outcome /\ todo'[c] # <<>>
             => Refuses(job[c], Head(todo'[c]), disk)
     \/ /\ disk = Absent \/ ~CanLoad(job[c], disk)
        /\ outcome' = [outcome EXCEPT ![c] = "refused"]
        /\ UNCHANGED todo
  /\ UNCHANGED <<disk, job>>

(* A fault, a lock that does not come free, a file that keeps changing.    *)
Fail(c) ==
  /\ Running(c)
  /\ outcome' \in {[outcome EXCEPT ![c] = o] : o \in {"error", "conflict"}}
  /\ UNCHANGED <<disk, job, todo>>

RegisterNext ==
  \E c \in Call : Establish(c) \/ Commit(c) \/ Answer(c) \/ Fail(c)

RegisterSpec == RegisterInit /\ [][RegisterNext]_registerVars
=============================================================================
