--------------------------- MODULE RetrieveFollow ---------------------------
(***************************************************************************)
(* retrieve --follow (src/retrieve-follow.ts): keep a reader's copy of a   *)
(* router menu current.  A listen and a print share one native connection; *)
(* their replies enter one queue in wire order (the taps), and a loop      *)
(* drains it at the reader's pace.  With a query, the listen only tells    *)
(* which ids changed, and a membership read asks for their rows; a sweep   *)
(* finds the rows that left without a word.                                *)
(*                                                                         *)
(* A reply is seen when the router sends it: the delay of the one FIFO     *)
(* connection is part of the delay before the router sends it, and of the  *)
(* time between serving a print and sending its rows.                      *)
(***************************************************************************)
EXTENDS Naturals, Sequences, FiniteSets

CONSTANTS
  Id,          \* rows of the menu
  Menus,       \* kinds of follow: query or not, .dead announced or not, --count;
               \* and a bound: writes to the menu
  BufferLimit, \* bufferLimit
  BatchLimit,  \* 256: ids of one membership read
  MaxWrites    \* the largest of those bounds

ASSUME FollowConstants ==
  /\ IsFiniteSet(Id)
  /\ Menus \subseteq [query : BOOLEAN, dead : BOOLEAN,
                        count : Nat, writes : 0..MaxWrites]
  /\ BufferLimit \in Nat /\ BatchLimit \in Nat \ {0}
  /\ MaxWrites \in Nat

VARIABLES
  menu,     \* the follow at hand
  \* the router (external)
  table,    \* [Id -> its version; 0 before it exists, Gone after]
  sel,      \* ids whose row matches the query
  news,     \* ids with a change not yet announced
  writes,   \* writes so far
  run,      \* [command -> how far it is]
  shot,     \* [Id -> rows of the print still to be sent]
  reply,    \* what the membership read, or the sweep, saw
  \* the taps
  queue,    \* FollowQueue's events
  draining, \* events are still taken in
  stopReq,  \* a stop waits to jump the queue
  fatal,    \* so does an error
  aborted,  \* the controller's signal
  version,  \* listen replies counted so far
  latest,   \* [Id -> version of its last listen reply, 0 for none]
  \* the loop
  pc,       \* where it is
  left,     \* the rest of the batch at hand
  pending,  \* listen replies before the snapshot's end
  complete, \* snapshotComplete
  synced,   \* synced was reported
  view,     \* [Id -> version the reader holds, 0 for none]
  dirty,    \* [Id -> version waiting for a membership read]
  boot,     \* [Id -> version that bootstrap waits for]
  asking,   \* membershipRunning
  asked,    \* membershipSize
  sweep,    \* "idle", "set" (in this very turn), "armed", "due" or "running"
  touching, \* a sweep is in flight as far as the queue tells
  touched,  \* ids a listen reply named since then
  changes,  \* live frames, as far as --count counts them
  outcome,  \* the summary: "none" until there is one
  \* history
  silent,   \* ids that changed without a word since their last write
  buried,   \* ids whose .dead was applied
  erred     \* a command failed

router == <<table, sel, news, writes, silent>>
taps == <<queue, draining, stopReq, fatal, aborted, version, latest>>
loop == <<pending, complete, synced, view, dirty, boot, asking, asked, sweep,
          touching, touched, changes, buried>>
followVars == <<menu, router, run, shot, reply, taps, pc, left, loop, outcome, erred>>

Gone == MaxWrites + 2

Command == {"listen", "print", "member", "sweep"}

Zero == [i \in Id |-> 0]

NoReply == [versions |-> Zero, rows |-> Zero, ids |-> {}]

Ids(f) == {i \in Id : f[i] # 0}

Here(i) == table[i] \notin {0, Gone}

Selected(i) == Here(i) /\ (menu.query => i \in sel)

(* The rows a print with the caller's query returns.                       *)
Rows == [i \in Id |-> IF Selected(i) THEN table[i] ELSE 0]

FollowTypeOK ==
  /\ menu \in Menus
  /\ table \in [Id -> 0..Gone]
  /\ sel \subseteq Id /\ news \subseteq Id
  /\ writes \in 0..MaxWrites
  /\ run \in [Command -> {"off", "sent", "served", "over"}]
  /\ view \in [Id -> 0..Gone - 1]
  /\ latest \in [Id -> 0..version]
  /\ \A i \in Id : dirty[i] # 0 => dirty[i] <= latest[i]
  /\ Ids(dirty) # {} => menu.query
  /\ asking => run["member"] # "off" \/ outcome # "none" \/ Len(queue) > 0
  /\ asked <= BatchLimit
  /\ pc = "member" => asked = Cardinality(left.ids)
  /\ synced => complete /\ (menu.query => boot = Zero)
  /\ changes \in 0..menu.count
  /\ outcome \in {"none", "ok", "failed", "left"}
  /\ sweep \in {"idle", "set", "armed", "due", "running"}

(* One listen and one print are on the wire; the menu holds what it holds. *)
FollowInit ==
  /\ menu \in Menus
  /\ table \in [Id -> {0, 1}]
  /\ sel \in IF menu.query THEN SUBSET {i \in Id : table[i] = 1} ELSE {{}}
  /\ news = {} /\ writes = 0 /\ silent = {}
  /\ run = [c \in Command |-> IF c = "listen" THEN "served"
                              ELSE IF c = "print" THEN "sent" ELSE "off"]
  /\ shot = Zero
  /\ reply = NoReply
  /\ queue = <<>> /\ draining = TRUE
  /\ stopReq = FALSE /\ fatal = FALSE /\ aborted = FALSE
  /\ version = 0 /\ latest = Zero
  /\ pc = "take" /\ left = [ids |-> {}]
  /\ pending = <<>> /\ complete = FALSE /\ synced = FALSE
  /\ view = Zero /\ dirty = Zero /\ boot = Zero
  /\ asking = FALSE /\ asked = 0
  /\ sweep = "idle" /\ touching = FALSE /\ touched = {}
  /\ changes = 0 /\ outcome = "none"
  /\ buried = {} /\ erred = FALSE

-----------------------------------------------------------------------------
(* The router (external).  An id is never used again; what happens once the
   follow was told to stop is of no interest.                              *)
Write(i) ==
  /\ ~aborted /\ table[i] # Gone /\ writes < menu.writes
  /\ writes' = writes + 1
  /\ table' = [table EXCEPT ![i] = writes + 2]
  /\ \E s \in IF menu.query THEN SUBSET {i} ELSE {{}} : sel' = (sel \ {i}) \cup s
  /\ news' = news \cup {i}
  /\ silent' = silent \ {i}
  /\ UNCHANGED <<menu, run, shot, reply, taps, pc, left, loop, outcome, erred>>

(* A view menu never sends .dead.                                          *)
Remove(i) ==
  /\ ~aborted /\ Here(i)
  /\ table' = [table EXCEPT ![i] = Gone]
  /\ IF menu.dead THEN news' = news \cup {i} /\ UNCHANGED silent
     ELSE news' = news \ {i} /\ silent' = silent \cup {i}
  /\ sel' = sel \ {i}
  /\ UNCHANGED <<menu, writes, run, shot, reply, taps, pc, left, loop,
                 outcome, erred>>

(* A row stops matching the query although nothing was written to it.      *)
Slip(i) ==
  /\ ~aborted /\ menu.query /\ Selected(i)
  /\ sel' = sel \ {i}
  /\ silent' = silent \cup {i}
  /\ UNCHANGED <<menu, table, news, writes, run, shot, reply, taps, pc, left,
                 loop, outcome, erred>>

-----------------------------------------------------------------------------
(* push: what the taps take in, unless the buffer is full.                 *)
Waiting == Len(queue) + Len(pending) + Cardinality(Ids(dirty)) + asked

Halt == draining' = FALSE /\ aborted' = TRUE

Push(e) ==
  IF draining THEN queue' = Append(queue, e) ELSE UNCHANGED queue

(* Mutant: a full buffer drops the change.                                 *)
PushBoundedDropping(e) ==
  \/ /\ draining /\ Waiting < BufferLimit
     /\ queue' = Append(queue, e)
     /\ UNCHANGED <<draining, fatal, aborted>>
  \/ /\ ~(draining /\ Waiting < BufferLimit)
     /\ UNCHANGED <<queue, draining, fatal, aborted>>

PushBounded(e) ==
  \/ ~draining /\ UNCHANGED <<queue, draining, fatal, aborted>>
  \/ /\ draining /\ Waiting >= BufferLimit
     /\ fatal' = TRUE /\ Halt
     /\ UNCHANGED queue
  \/ /\ draining /\ Waiting < BufferLimit
     /\ queue' = Append(queue, e)
     /\ UNCHANGED <<draining, fatal, aborted>>

(* The router announces what became of an id, whatever happened before.    *)
Announce(i) ==
  /\ run["listen"] = "served" /\ i \in news
  /\ news' = news \ {i}
  /\ IF menu.query /\ draining
     THEN version' = version + 1 /\ latest' = [latest EXCEPT ![i] = version + 1]
     ELSE UNCHANGED <<version, latest>>
  /\ PushBounded([is |-> "listen", id |-> i, ver |-> table[i],
                  at |-> IF menu.query THEN version + 1 ELSE 0])
  /\ UNCHANGED <<menu, table, sel, writes, silent, run, shot, reply, stopReq, pc,
                 left, loop, outcome, erred>>

(* The snapshot's print is served, sends its rows, and is done.            *)
ServePrint ==
  /\ run["print"] = "sent"
  /\ run' = [run EXCEPT !["print"] = "served"]
  /\ shot' = Rows
  /\ UNCHANGED <<menu, router, reply, taps, pc, left, loop, outcome, erred>>

PrintRow(i) ==
  /\ run["print"] = "served" /\ shot[i] # 0
  /\ shot' = [shot EXCEPT ![i] = 0]
  /\ PushBounded([is |-> "row", id |-> i, ver |-> shot[i]])
  /\ UNCHANGED <<menu, router, run, reply, stopReq, version, latest, pc, left,
                 loop, outcome, erred>>

PrintDone ==
  /\ run["print"] = "served" /\ shot = Zero
  /\ run' = [run EXCEPT !["print"] = "over"]
  /\ Push([is |-> "done", boot |-> IF menu.query THEN latest ELSE Zero])
  /\ UNCHANGED <<menu, router, shot, reply, draining, stopReq, fatal, aborted,
                 version, latest, pc, left, loop, outcome, erred>>

(* The membership read and the sweep: served at one moment, done at another. *)
ServeMember ==
  /\ run["member"] = "sent"
  /\ run' = [run EXCEPT !["member"] = "served"]
  /\ reply' = [reply EXCEPT !.rows =
                 [i \in Id |-> IF reply.versions[i] # 0 THEN Rows[i] ELSE 0]]
  /\ UNCHANGED <<menu, router, shot, taps, pc, left, loop, outcome, erred>>

MemberDone ==
  /\ run["member"] = "served"
  /\ run' = [run EXCEPT !["member"] = "over"]
  /\ Push([is |-> "member", versions |-> reply.versions, rows |-> reply.rows])
  /\ reply' = NoReply
  /\ UNCHANGED <<menu, router, shot, draining, stopReq, fatal, aborted,
                 version, latest, pc, left, loop, outcome, erred>>

ServeSweep ==
  /\ run["sweep"] = "sent"
  /\ run' = [run EXCEPT !["sweep"] = "served"]
  /\ reply' = [reply EXCEPT !.ids = Ids(Rows)]
  /\ UNCHANGED <<menu, router, shot, taps, pc, left, loop, outcome, erred>>

SweepDone ==
  /\ run["sweep"] = "served"
  /\ run' = [run EXCEPT !["sweep"] = "over"]
  /\ Push([is |-> "sweep", ids |-> reply.ids])
  /\ reply' = NoReply
  /\ UNCHANGED <<menu, router, shot, draining, stopReq, fatal, aborted,
                 version, latest, pc, left, loop, outcome, erred>>

(* A command fails; or ends because it was cancelled (NativeSession's grace
   period bounds that); or the router closes the listen by itself.         *)
Running(c) == run[c] \in {"sent", "served"}

CommandFails(c) ==
  /\ Running(c)
  /\ run' = [run EXCEPT ![c] = "over"]
  /\ fatal' = TRUE /\ Halt
  /\ erred' = TRUE
  /\ UNCHANGED <<menu, router, shot, reply, queue, stopReq, version, latest, pc,
                 left, loop, outcome>>

CommandEnds(c) ==
  /\ Running(c) /\ (aborted \/ c = "listen")
  /\ run' = [run EXCEPT ![c] = "over"]
  /\ IF c = "listen" THEN Push([is |-> "end"]) ELSE UNCHANGED queue
  /\ UNCHANGED <<menu, router, shot, reply, draining, stopReq, fatal, aborted,
                 version, latest, pc, left, loop, outcome, erred>>

(* stop(): Ctrl-C, or the duration has elapsed.                            *)
Stop ==
  /\ outcome = "none" /\ ~stopReq
  /\ stopReq' = TRUE /\ aborted' = TRUE
  /\ UNCHANGED <<menu, router, run, shot, reply, queue, draining, fatal, version,
                 latest, pc, left, loop, outcome, erred>>

-----------------------------------------------------------------------------
(* Mutant: an error does not jump the queue.                               *)
HaltedByStop == stopReq

Halted == stopReq \/ fatal

Leave == pc' = "leave" /\ Halt

Next_ == IF menu.query THEN "post" ELSE "take"

(* A live frame counts towards --count; its last one ends the loop.        *)
Tell(framed, then) ==
  LET counts == framed /\ synced /\ menu.count > 0
      n == IF counts THEN changes + 1 ELSE changes
  IN  /\ changes' = n
      /\ IF counts /\ n >= menu.count
         THEN Leave
         ELSE pc' = then /\ UNCHANGED <<draining, aborted>>

(* applyListen: a listen reply, from the queue or from the replay.         *)
Stale(e) == menu.query /\ e.at # latest[e.id]

Dead(e) == e.ver = Gone

(* Mutant: bootstrap still waits for the deleted id.                       *)
ForgetLoosely(i) ==
  /\ dirty' = [dirty EXCEPT ![i] = 0]
  /\ latest' = [latest EXCEPT ![i] = 0]
  /\ UNCHANGED boot

Forget(i) ==
  /\ dirty' = [dirty EXCEPT ![i] = 0]
  /\ latest' = [latest EXCEPT ![i] = 0]
  /\ boot' = [boot EXCEPT ![i] = 0]

ApplyListen(e, then) ==
  /\ touched' = IF touching THEN touched \cup {e.id} ELSE touched
  /\ \/ /\ Stale(e)
        /\ UNCHANGED <<latest, dirty, boot, view, buried>>
        /\ Tell(FALSE, then)
     \/ /\ ~Stale(e) /\ menu.query /\ ~Dead(e)
        /\ dirty' = [dirty EXCEPT ![e.id] = e.at]
        /\ UNCHANGED <<latest, boot, view, buried>>
        /\ Tell(FALSE, then)
     \/ /\ ~Stale(e) /\ Dead(e)
        /\ Forget(e.id)
        /\ view' = [view EXCEPT ![e.id] = 0]
        /\ buried' = buried \cup {e.id}
        /\ Tell(view[e.id] # 0, then)
     \/ /\ ~menu.query /\ ~Dead(e)
        /\ view' = [view EXCEPT ![e.id] = e.ver]
        /\ UNCHANGED <<latest, dirty, boot, buried>>
        /\ Tell(TRUE, then)

(* The loop takes the next event.                                          *)
Taking(what) ==
  /\ pc = "take" /\ ~Halted /\ queue # <<>> /\ Head(queue).is = what
  /\ queue' = Tail(queue)
  /\ UNCHANGED <<menu, router, shot, reply, stopReq, fatal, version, outcome, erred>>

(* Mutant: a change is applied before the snapshot that is older.          *)
TakeListenAtOnce ==
  /\ Taking("listen")
  /\ ApplyListen(Head(queue), Next_)
  /\ UNCHANGED <<pending, run, left, complete, synced, asking, asked, sweep, touching>>

TakeListen ==
  /\ Taking("listen")
  /\ \/ /\ ~complete
        /\ pending' = Append(pending, Head(queue))
        /\ pc' = Next_
        /\ UNCHANGED <<draining, aborted, latest, view, dirty, boot, touched,
                       changes, buried>>
     \/ /\ complete
        /\ ApplyListen(Head(queue), Next_)
        /\ UNCHANGED pending
  /\ UNCHANGED <<run, left, complete, synced, asking, asked, sweep, touching>>

TakeRow ==
  /\ Taking("row")
  /\ view' = [view EXCEPT ![Head(queue).id] = Head(queue).ver]
  /\ pc' = Next_
  /\ UNCHANGED <<run, left, draining, aborted, latest, pending, complete, synced,
                 dirty, boot, asking, asked, sweep, touching, touched, changes,
                 buried>>

(* Mutant: synced before the replay.                                       *)
TakeDoneInStep ==
  /\ Taking("done")
  /\ complete' = TRUE /\ synced' = ~menu.query
  /\ boot' = Head(queue).boot
  /\ left' = [replay |-> pending, ids |-> {}]
  /\ pending' = <<>>
  /\ pc' = "replay"
  /\ UNCHANGED <<run, draining, aborted, latest, view, dirty, asking,
                 asked, sweep, touching, touched, changes, buried>>

(* The snapshot is complete: what the listen said meanwhile is replayed.   *)
TakeDone ==
  /\ Taking("done")
  /\ complete' = TRUE
  /\ boot' = Head(queue).boot
  /\ left' = [replay |-> pending, ids |-> {}]
  /\ pending' = <<>>
  /\ pc' = "replay"
  /\ UNCHANGED <<run, draining, aborted, latest, synced, view, dirty, asking,
                 asked, sweep, touching, touched, changes, buried>>

Halting ==
  /\ pc \in {"take", "replay", "member", "sweep", "post"} /\ Halted
  /\ Leave
  /\ UNCHANGED <<menu, router, run, shot, reply, queue, stopReq, fatal, version,
                 latest, left, loop, outcome, erred>>

Batch(at) ==
  /\ pc = at /\ ~Halted
  /\ UNCHANGED <<menu, router, run, shot, reply, queue, stopReq, fatal, version,
                 pending, complete, asking, touching, outcome, erred>>

ReplayStep ==
  /\ Batch("replay") /\ left.replay # <<>>
  /\ ApplyListen(Head(left.replay), "replay")
  /\ left' = [left EXCEPT !.replay = Tail(@)]
  /\ UNCHANGED <<synced, asked, sweep>>

(* Without a query the snapshot is now in step; with one it waits for the
   membership of the ids that changed meanwhile.                           *)
ReplayEnd ==
  /\ Batch("replay") /\ left.replay = <<>>
  /\ pc' = Next_
  /\ left' = [ids |-> {}]
  /\ synced' = ~menu.query
  /\ sweep' = IF menu.query THEN sweep ELSE "armed"
  /\ UNCHANGED <<draining, aborted, latest, view, dirty, boot, asked, touched,
                 changes, buried>>

TakeMember ==
  /\ Taking("member")
  /\ asking' = FALSE
  /\ left' = [ids |-> Ids(Head(queue).versions),
              versions |-> Head(queue).versions, rows |-> Head(queue).rows]
  /\ pc' = "member"
  /\ run' = [run EXCEPT !["member"] = "off"]
  /\ UNCHANGED <<draining, aborted, latest, pending, complete, synced, view, dirty,
                 boot, asked, sweep, touching, touched, changes, buried>>

(* Mutant: the answer is applied although a newer change is known.         *)
MemberStepTrusting(i) ==
  /\ Batch("member") /\ i \in left.ids
  /\ asked' = asked - 1
  /\ left' = [left EXCEPT !.ids = @ \ {i}]
  /\ boot' = IF boot[i] # 0 /\ left.versions[i] >= boot[i]
             THEN [boot EXCEPT ![i] = 0] ELSE boot
  /\ latest' = [latest EXCEPT ![i] = IF @ = left.versions[i] THEN 0 ELSE @]
  /\ view' = [view EXCEPT ![i] = left.rows[i]]
  /\ Tell(left.rows[i] # 0 \/ view[i] # 0, "member")
  /\ UNCHANGED <<synced, dirty, sweep, touched, buried>>

MemberStep(i) ==
  /\ Batch("member") /\ i \in left.ids
  /\ asked' = asked - 1
  /\ left' = [left EXCEPT !.ids = @ \ {i}]
  /\ boot' = IF boot[i] # 0 /\ left.versions[i] >= boot[i]
             THEN [boot EXCEPT ![i] = 0] ELSE boot
  /\ \/ /\ latest[i] # left.versions[i]
        /\ pc' = "member"
        /\ UNCHANGED <<draining, aborted, latest, view, changes>>
     \/ /\ latest[i] = left.versions[i]
        /\ latest' = [latest EXCEPT ![i] = 0]
        /\ view' = [view EXCEPT ![i] = left.rows[i]]
        /\ Tell(left.rows[i] # 0 \/ view[i] # 0, "member")
  /\ UNCHANGED <<synced, dirty, sweep, touched, buried>>

TakeSweepStart ==
  /\ Taking("start")
  /\ touching' = TRUE /\ touched' = {}
  /\ pc' = Next_
  /\ UNCHANGED <<run, left, draining, aborted, latest, pending, complete, synced,
                 view, dirty, boot, asking, asked, sweep, changes, buried>>

(* The ids the sweep may remove: not listed, not named by a listen reply
   since it was sent, and with no change still to be looked at.            *)
TakeSweep ==
  /\ Taking("sweep")
  /\ sweep' = "idle"
  /\ touching' = FALSE /\ touched' = {}
  /\ left' = [ids |-> Ids(view) \ (Head(queue).ids \cup touched)]
  /\ pc' = "sweep"
  /\ run' = [run EXCEPT !["sweep"] = "off"]
  /\ UNCHANGED <<draining, aborted, latest, pending, complete, synced, view, dirty,
                 boot, asking, asked, changes, buried>>

SweepStep(i) ==
  /\ Batch("sweep") /\ i \in left.ids
  /\ left' = [left EXCEPT !.ids = @ \ {i}]
  /\ \/ /\ menu.query /\ latest[i] # 0
        /\ pc' = "sweep"
        /\ UNCHANGED <<draining, aborted, view, changes>>
     \/ /\ ~(menu.query /\ latest[i] # 0)
        /\ view' = [view EXCEPT ![i] = 0]
        /\ Tell(TRUE, "sweep")
  /\ UNCHANGED <<latest, synced, dirty, boot, asked, sweep, touched, buried>>

BatchEnd ==
  /\ \/ Batch("member") /\ UNCHANGED sweep
     \/ Batch("sweep") /\ sweep' = IF menu.query THEN "set" ELSE "armed"
  /\ left.ids = {}
  /\ pc' = Next_
  /\ left' = [ids |-> {}]
  /\ UNCHANGED <<draining, aborted, latest, synced, view, dirty, boot, asked,
                 touched, changes, buried>>

TakeEnd ==
  /\ Taking("end")
  /\ Leave
  /\ UNCHANGED <<run, left, latest, loop>>

-----------------------------------------------------------------------------
(* startSweep, from the timer or after an event; never beside a membership
   read.                                                                   *)
StartSweep ==
  /\ sweep' = "running"
  /\ run' = [run EXCEPT !["sweep"] = "sent"]
  /\ Push([is |-> "start"])

SweepTimer ==
  /\ sweep = "armed" /\ ~aborted
  /\ IF asking THEN sweep' = "due" /\ UNCHANGED <<run, queue>> ELSE StartSweep
  /\ UNCHANGED <<menu, router, shot, reply, draining, stopReq, fatal, aborted,
                 version, latest, pc, left, pending, complete, synced, view, dirty,
                 boot, asking, asked, touching, touched, changes, outcome, buried,
                 erred>>

(* With a query, after each event: synced once the bootstrap's ids are
   settled, then a sweep that is due, else a membership read.              *)
Posting ==
  /\ pc = "post" /\ ~Halted
  /\ UNCHANGED <<menu, router, shot, draining, stopReq, fatal, aborted, version,
                 latest, left, pending, complete, view, boot, touching, touched,
                 changes, outcome, buried, erred>>

(* A timer set in this turn cannot fire before the turn is over.           *)
Armed == IF sweep = "set" THEN "armed" ELSE sweep

(* Mutant: synced is reported while bootstrap's ids are being asked about. *)
PostSyncEarly ==
  /\ Posting /\ complete /\ ~synced
  /\ synced' = TRUE
  /\ sweep' = "set"
  /\ UNCHANGED <<run, reply, queue, pc, dirty, asking, asked>>

PostSync ==
  /\ Posting /\ complete /\ ~synced /\ boot = Zero
  /\ synced' = TRUE
  /\ sweep' = "set"
  /\ UNCHANGED <<run, reply, queue, pc, dirty, asking, asked>>

(* Mutant: a sweep that came due beside a membership read is forgotten.    *)
PostSweepNever ==
  /\ Posting /\ (complete /\ boot = Zero => synced)
  /\ sweep = "due" /\ ~asking
  /\ pc' = "take"
  /\ UNCHANGED <<run, reply, queue, synced, dirty, asking, asked, sweep>>

PostSweep ==
  /\ Posting /\ (complete /\ boot = Zero => synced)
  /\ sweep = "due" /\ ~asking
  /\ pc' = "take"
  /\ StartSweep
  /\ UNCHANGED <<reply, synced, dirty, asking, asked>>

(* scheduleMembership: at most BatchLimit ids, those of the bootstrap first.*)
PostMember(batch) ==
  /\ Posting /\ (complete /\ boot = Zero => synced)
  /\ ~asking /\ sweep \notin {"due", "running"}
  /\ batch \subseteq Ids(dirty) /\ batch # {}
  /\ \/ batch = Ids(dirty) /\ Cardinality(batch) <= BatchLimit
     \/ Cardinality(batch) = BatchLimit
  /\ LET first == Ids(boot) \cap Ids(dirty)
     IN  first \subseteq batch \/ batch \subseteq first
  /\ dirty' = [i \in Id |-> IF i \in batch THEN 0 ELSE dirty[i]]
  /\ asking' = TRUE /\ asked' = Cardinality(batch)
  /\ run' = [run EXCEPT !["member"] = "sent"]
  /\ reply' = [reply EXCEPT !.versions =
                 [i \in Id |-> IF i \in batch THEN dirty[i] ELSE 0]]
  /\ pc' = "take"
  /\ sweep' = Armed
  /\ UNCHANGED <<queue, synced>>

PostNothing ==
  /\ Posting /\ (complete /\ boot = Zero => synced)
  /\ \/ asking
     \/ sweep = "running"
     \/ sweep \in {"idle", "set", "armed"} /\ Ids(dirty) = {}
  /\ pc' = "take"
  /\ sweep' = Armed
  /\ UNCHANGED <<run, reply, queue, synced, dirty, asking, asked>>

-----------------------------------------------------------------------------
(* endListen waits for every command; an error that came meanwhile counts. *)
AllOver == \A c \in Command : ~Running(c)

(* Mutant: a follow that was asked to stop succeeds.                       *)
FinishByStop ==
  /\ pc = "leave" /\ AllOver
  /\ pc' = "over"
  /\ outcome' = IF fatal /\ ~stopReq THEN "failed" ELSE "ok"
  /\ UNCHANGED <<menu, router, run, shot, reply, taps, left, loop, erred>>

Finish ==
  /\ pc = "leave" /\ AllOver
  /\ pc' = "over"
  /\ outcome' = IF fatal THEN "failed" ELSE "ok"
  /\ UNCHANGED <<menu, router, run, shot, reply, taps, left, loop, erred>>

(* The reader stops reading, between two lines.                            *)
Abandon ==
  /\ outcome = "none" /\ pc \in {"take", "replay", "member", "sweep", "post"}
  /\ pc' = "over" /\ aborted' = TRUE
  /\ outcome' = "left"
  /\ UNCHANGED <<menu, router, run, shot, reply, queue, draining, stopReq, fatal,
                 version, latest, left, loop, erred>>

Wire ==
  \/ ServePrint \/ PrintDone \/ ServeMember \/ MemberDone \/ ServeSweep \/ SweepDone
  \/ \E i \in Id : Announce(i) \/ PrintRow(i)

Loop ==
  \/ TakeListen \/ TakeRow \/ TakeDone \/ TakeMember \/ TakeSweepStart
  \/ TakeSweep \/ TakeEnd
  \/ Halting \/ ReplayStep \/ ReplayEnd \/ BatchEnd \/ Finish
  \/ \E i \in Id : MemberStep(i) \/ SweepStep(i)
  \/ PostSync \/ PostSweep \/ PostNothing
  \/ \E batch \in SUBSET Id : PostMember(batch)

FollowNext ==
  /\ outcome = "none"
  /\ \/ Wire \/ Loop \/ SweepTimer \/ Stop \/ Abandon
     \/ \E i \in Id : Write(i) \/ Remove(i) \/ Slip(i)
     \/ \E c \in Command : CommandFails(c) \/ CommandEnds(c)

FollowSpec == FollowInit /\ [][FollowNext]_followVars

(* The router answers what it was asked and announces what it changed, the
   loop and its timer run, and a cancelled command ends.                   *)
FollowLiveSpec ==
  /\ FollowSpec
  /\ WF_followVars(outcome = "none" /\ Wire)
  /\ WF_followVars(outcome = "none" /\ Loop)
  /\ WF_followVars(outcome = "none" /\ SweepTimer)
  /\ \A c \in Command : WF_followVars(outcome = "none" /\ aborted /\ CommandEnds(c))

-----------------------------------------------------------------------------
(* With nothing under way, the reader holds what the router holds, save for
   ids that changed without a word.                                        *)
AtRest ==
  /\ pc = "take" /\ ~Halted /\ queue = <<>> /\ outcome = "none"
  /\ run["listen"] = "served" /\ run["print"] = "over"
  /\ news = {} /\ ~asking /\ sweep \in {"idle", "armed"}

Converged ==
  AtRest => synced /\ \A i \in Id \ silent : view[i] = Rows[i]

(* Once its .dead was applied, no late answer brings a row back.           *)
NoResurrection == \A i \in buried : view[i] = 0

(* After synced the reader never goes back to an older row.                *)
LiveMonotone ==
  [][\A i \in Id : synced /\ view[i] # 0 /\ view'[i] # 0
                     => view'[i] >= view[i]]_followVars

(* A successful summary hides no failure of a command.                     *)
SummaryTruth == outcome = "ok" => ~erred

(* A row that is gone, or no longer matches, leaves the report, also where
   nothing announces it; unless the follow ends or the row comes back.     *)
GoneRowsLeave ==
  \A i \in Id :
    (synced /\ view[i] # 0 /\ ~Selected(i))
      ~> (view[i] = 0 \/ Selected(i) \/ Halted \/ outcome # "none" \/ pc = "leave")

(* Told to stop, or failed, it ends.                                       *)
EndsOnceTold == aborted ~> outcome # "none"

(* The follow gets in step, or ends.                                       *)
Syncs == <>(synced \/ Halted \/ outcome # "none" \/ pc = "leave")
=============================================================================
