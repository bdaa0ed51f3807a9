----------------------------- MODULE MCCdbStore -----------------------------
(* Small instances of CdbStore: the jobs and the files of each run.        *)
EXTENDS CdbStore, TLC

CONSTANTS c1, c2, c3, t1, t2, t3, t4, t5, u0, u1

Give(kind, user, to, pw, replay, targets) ==
  [job |-> [kind |-> kind, user |-> user, to |-> to, pw |-> pw,
            replay |-> replay], todo |-> targets]

One(t, u) == [target |-> t, user |-> u, edits |-> {}]

Open(recs) == [recs |-> recs, enc |-> FALSE, salt |-> 0]

Sealed(recs) == [recs |-> recs, enc |-> TRUE, salt |-> 1]

(* One of each verb, on a file with one record, with and without the
   password; conversion and a library caller do not replay.                *)
MixedWork ==
  {Give("add", u0, Anyone, FALSE, TRUE, <<t2>>),
   Give("add", u0, Anyone, TRUE, TRUE, <<t2>>),
   Give("force", u0, Anyone, TRUE, TRUE, <<t1>>),
   Give("set", Anyone, Anyone, TRUE, TRUE, <<t1>>),
   Give("set", Anyone, Anyone, TRUE, FALSE, <<t1>>),
   Give("remove", Anyone, Anyone, FALSE, TRUE, <<t1>>),
   Give("save", u0, Anyone, TRUE, TRUE, <<t1, t2, t3>>),
   Give("encrypt", Anyone, Anyone, TRUE, FALSE, <<t1>>),
   Give("init", Anyone, Anyone, FALSE, FALSE, <<t1>>),
   Give("initenc", Anyone, Anyone, TRUE, FALSE, <<t1>>)}

MixedFiles == {Absent, Open(<<One(t1, u0)>>), Sealed(<<>>)}

(* Single mutations of the same identity.                                  *)
RaceWork ==
  {Give("force", u0, Anyone, TRUE, TRUE, <<t1>>),
   Give("remove", u0, Anyone, TRUE, TRUE, <<t1>>),
   Give("encrypt", Anyone, Anyone, TRUE, FALSE, <<t1>>)}

Callers == Permutations(Call)

RaceFiles == {Open(<<One(t1, u0)>>)}

(* One discover --save of five new neighbors against one devices add.      *)
DiscoverWork ==
  {Give("add", u1, Anyone, FALSE, TRUE, <<t1>>),
   Give("save", u0, Anyone, FALSE, TRUE, <<t1, t2, t3, t4, t5>>)}

DiscoverFiles == {Open(<<>>)}

(* A record is moved to another user while a record of that user exists.   *)
RenameWork ==
  {Give("add", u1, Anyone, FALSE, TRUE, <<t1>>),
   Give("set", u0, u1, FALSE, TRUE, <<t1>>)}
=============================================================================
