--------------------------- MODULE NativeSession ---------------------------
(***************************************************************************)
(* One RouterOS API connection (src/protocols/native-api.ts): the connect  *)
(* and login of connectNativeApi, the calls talk and listen of             *)
(* NativeApiSession, which share the connection by tags, and the router at *)
(* the other end.  A chunk of bytes is handled in one go (handleData), and *)
(* generators resume between chunks; `chunk` counts the sentences of the   *)
(* chunk at hand that are still to be dispatched.                          *)
(***************************************************************************)
EXTENDS NativeCodec, FiniteSets

CONSTANTS
  Talk,          \* calls of talk(): one answer
  Stream,        \* calls of listen(): an async generator
  Hello, Proof,  \* the two talks of login()
  GraceGiven,    \* the streams called with cancelGraceMs
  MaxRows,       \* bound: [Call -> rows the router sends for the command]
  MaxInFlight    \* bound: what the router sends before some of it is read

Call == Talk \cup Stream

ASSUME NativeConstants ==
  /\ Hello \in Talk /\ Proof \in Talk /\ Hello # Proof
  /\ Talk \cap Stream = {}
  /\ IsFiniteSet(Call)
  /\ GraceGiven \subseteq Stream
  /\ MaxRows \in [Call -> Nat]
  /\ MaxInFlight \in Nat \ {0}

VARIABLES
  answer,  \* [Call -> how the call ended for its caller]
  got,     \* [Call -> the replies handed to it]
  conn,    \* how far connectNativeApi is
  socket,  \* "open" until either side or the network ends it
  closed,  \* the session's flag
  up,      \* requests on their way to the router
  down,    \* sentences on their way to the session
  chunk,   \* sentences of the current chunk not yet dispatched
  nextTag, \* tagCounter
  tagOf,   \* [Call -> its tag, 0 before it has one]
  pending, \* tags with a waiter
  subs,    \* tags with a subscription
  trap,    \* [Call -> the trap heard: "none", "bad", or "ack" of our cancel]
  gen,     \* [Stream -> state of its generator]
  job      \* [Tag -> the router's side of the command]

sessionVars == <<answer, got, conn, socket, closed, up, down, chunk, nextTag,
                 tagOf, pending, subs, trap, gen, job>>

Tag == 1..(Cardinality(Call) + 2 * Cardinality(Stream))

Login == {Hello, Proof}

(* A stream's generator: replies routed to it, those being handed out, the
   subscription's end, and what became of its signal and grace timer.      *)
Generator ==
  [queue : Seq(Tag \X Nat), batch : Seq(Tag \X Nat), ended : BOOLEAN,
   failure : BOOLEAN, aborted : BOOLEAN, grace : {"off", "armed", "spent"}]

Sentence == [tag : Tag \cup {0},
             is : {"row", "empty", "trap", "interrupted", "done", "fatal", "garbage"},
             n : Nat]

SessionTypeOK ==
  /\ answer \in [Call -> {"idle", "open", "ok", "failed", "left"}]
  /\ got \in [Call -> Seq(Tag \X Nat)]
  /\ conn \in {"dialing", "hello", "proof", "ready", "lost"}
  /\ socket \in {"open", "shut"}
  /\ closed \in BOOLEAN
  /\ up \in Seq([tag : Tag, cancels : Tag \cup {0}])
  /\ down \in Seq(Sentence)
  /\ chunk \in 0..Len(down)
  /\ nextTag \in Nat
  /\ tagOf \in [Call -> Tag \cup {0}]
  /\ \A t \in pending \cup subs : \E c \in Call : answer[c] = "open" /\ tagOf[c] = t
  /\ \A c \in Talk : answer[c] = "open" => tagOf[c] \in pending
  /\ trap \in [Call -> {"none", "bad", "ack"}]
  /\ gen \in [Stream -> Generator]
  /\ job \in [Tag -> [rows : Nat, is : {"none", "runs", "done", "trap", "halted"}]]

SessionInit ==
  /\ answer = [c \in Call |-> "idle"]
  /\ got = [c \in Call |-> <<>>]
  /\ conn = "dialing"
  /\ socket = "open"
  /\ closed = FALSE
  /\ up = <<>>
  /\ down = <<>>
  /\ chunk = 0
  /\ nextTag = 0
  /\ tagOf = [c \in Call |-> 0]
  /\ pending = {}
  /\ subs = {}
  /\ trap = [c \in Call |-> "none"]
  /\ gen = [s \in Stream |->
              [queue |-> <<>>, batch |-> <<>>, ended |-> FALSE, failure |-> FALSE,
               aborted |-> FALSE, grace |-> "off"]]
  /\ job = [t \in Tag |-> [rows |-> 0, is |-> "none"]]

-----------------------------------------------------------------------------
(* Between two chunks every promise that was settled has been seen.        *)
Quiet == chunk = 0

Owner(t) == CHOOSE c \in Call : tagOf[c] = t

Finish(c, how) == answer' = [answer EXCEPT ![c] = how]

(* failAll: waiters are rejected, subscriptions told; the maps are emptied.
   What is still on its way, or in the chunk at hand, finds nobody.        *)
FailAll ==
  /\ closed' = TRUE
  /\ up' = <<>> /\ down' = <<>> /\ chunk' = 0
  /\ answer' = [c \in Call |-> IF c \in Talk /\ tagOf[c] \in pending
                               THEN "failed" ELSE answer[c]]
  /\ gen' = [s \in Stream |-> IF tagOf[s] \in subs
                              THEN [gen[s] EXCEPT !.failure = TRUE, !.ended = TRUE]
                              ELSE gen[s]]
  /\ pending' = {}
  /\ subs' = {}

NoFailure == UNCHANGED <<answer, closed, gen, pending, subs>>

Nothing == NoFailure /\ UNCHANGED <<up, down, chunk>>

(* close(): nothing if the session is closed already, the socket included. *)
Close ==
  \/ closed /\ UNCHANGED socket /\ Nothing
  \/ ~closed /\ socket' = "shut" /\ FailAll

-----------------------------------------------------------------------------
(* talk: the waiter is registered, then the request is written; a write
   that throws takes it back.                                              *)
SendTalk(c) ==
  /\ answer[c] = "idle"
  /\ \/ /\ closed
        /\ Finish(c, "failed")
        /\ UNCHANGED <<nextTag, tagOf, pending, up>>
     \/ /\ ~closed
        /\ nextTag' = nextTag + 1
        /\ tagOf' = [tagOf EXCEPT ![c] = nextTag']
        /\ \/ /\ pending' = pending \cup {nextTag'}
              /\ up' = Append(up, [tag |-> nextTag', cancels |-> 0])
              /\ Finish(c, "open")
           \/ Finish(c, "failed") /\ UNCHANGED <<pending, up>>

(* connectNativeApi: the transport is ready, and login() begins.           *)
Connected ==
  /\ Quiet /\ conn = "dialing" /\ socket = "open" /\ ~closed
  /\ conn' = "hello"
  /\ SendTalk(Hello)
  /\ UNCHANGED <<got, socket, closed, down, chunk, subs, trap, gen, job>>

(* A talk of login() has settled: what login and connectNativeApi do next runs
   in microtasks, before the event loop hands over data, a close or a timer. *)
LoginSettled ==
  \/ conn = "hello" /\ answer[Hello] \in {"ok", "failed"}
  \/ conn = "proof" /\ answer[Proof] \in {"ok", "failed"}

(* login(): a =ret= in the answer asks for the legacy response.            *)
LoginAnswered ==
  /\ Quiet
  /\ \/ /\ conn = "hello" /\ answer[Hello] = "ok" /\ got[Hello] # <<>>
        /\ conn' = "proof"
        /\ SendTalk(Proof)
        /\ UNCHANGED <<socket, closed, gen, subs, down, chunk>>
     \/ /\ \/ conn = "hello" /\ answer[Hello] = "ok" /\ got[Hello] = <<>>
           \/ conn = "proof" /\ answer[Proof] = "ok"
        /\ conn' = "ready"
        /\ Nothing
        /\ UNCHANGED <<socket, nextTag, tagOf>>
     \/ /\ \/ conn = "hello" /\ answer[Hello] = "failed"
           \/ conn = "proof" /\ answer[Proof] = "failed"
        /\ conn' = "lost"
        /\ Close
        /\ UNCHANGED <<nextTag, tagOf>>
  /\ UNCHANGED <<got, trap, job>>

(* The deadline or the caller's signal ends the attempt.                   *)
ConnectGivenUp ==
  /\ Quiet /\ ~LoginSettled /\ conn \in {"dialing", "hello", "proof"}
  /\ conn' = "lost"
  /\ Close
  /\ UNCHANGED <<got, nextTag, tagOf, trap, job>>

-----------------------------------------------------------------------------
Talks(c) ==
  /\ Quiet /\ conn = "ready" /\ c \in Talk \ Login
  /\ SendTalk(c)
  /\ UNCHANGED <<conn, got, socket, closed, down, chunk, subs, trap, gen, job>>

(* listen(), up to its first wait for a reply.                             *)
Listens(s) ==
  /\ Quiet /\ conn = "ready" /\ answer[s] = "idle"
  /\ \/ gen[s].aborted /\ Finish(s, "left") /\ UNCHANGED <<nextTag, tagOf, subs, up>>
     \/ /\ ~gen[s].aborted /\ closed
        /\ Finish(s, "failed")
        /\ UNCHANGED <<nextTag, tagOf, subs, up>>
     \/ /\ ~gen[s].aborted /\ ~closed
        /\ nextTag' = nextTag + 1
        /\ tagOf' = [tagOf EXCEPT ![s] = nextTag']
        /\ \/ /\ subs' = subs \cup {nextTag'}
              /\ up' = Append(up, [tag |-> nextTag', cancels |-> 0])
              /\ Finish(s, "open")
           \/ Finish(s, "failed") /\ UNCHANGED <<subs, up>>
  /\ UNCHANGED <<conn, got, socket, closed, down, chunk, pending, trap, gen, job>>

(* cancel: /cancel under a tag of its own, best effort.                    *)
Cancel(s) ==
  \/ closed /\ UNCHANGED <<nextTag, up>>
  \/ /\ ~closed
     /\ nextTag' = nextTag + 1
     /\ up' = Append(up, [tag |-> nextTag', cancels |-> tagOf[s]])

Abort(s) ==
  /\ Quiet /\ conn = "ready" /\ ~gen[s].aborted
  /\ \/ /\ answer[s] = "open"
        /\ Cancel(s)
        /\ gen' = [gen EXCEPT ![s].aborted = TRUE,
                              ![s].grace = IF s \in GraceGiven THEN "armed" ELSE "off"]
     \/ /\ answer[s] = "idle"
        /\ gen' = [gen EXCEPT ![s].aborted = TRUE]
        /\ UNCHANGED <<nextTag, up>>
  /\ UNCHANGED <<answer, got, conn, socket, closed, down, chunk, tagOf, pending,
                 subs, trap, job>>

(* Mutant: the loop goes on until the router says !done.                   *)
GracePatient(s) ==
  /\ Quiet /\ answer[s] = "open" /\ gen[s].grace = "armed"
  /\ gen' = [gen EXCEPT ![s].queue = <<>>, ![s].grace = "spent"]
  /\ UNCHANGED <<answer, got, conn, socket, closed, up, down, chunk, nextTag,
                 tagOf, pending, subs, trap, job>>

(* The grace timer: a peer that ignores the cancel is waited for no longer.*)
GraceExpires(s) ==
  /\ Quiet /\ answer[s] = "open" /\ gen[s].grace = "armed"
  /\ \/ /\ gen[s].ended
        /\ gen' = [gen EXCEPT ![s].grace = "off"]
        /\ UNCHANGED subs
     \/ /\ ~gen[s].ended
        /\ subs' = subs \ {tagOf[s]}
        /\ gen' = [gen EXCEPT ![s].queue = <<>>, ![s].ended = TRUE,
                              ![s].grace = "spent"]
  /\ UNCHANGED <<answer, got, conn, socket, closed, up, down, chunk, nextTag,
                 tagOf, pending, trap, job>>

(* The consumer asks, and one reply is yielded; a new batch is taken when
   the last is used up.                                                    *)
Yields(s) ==
  LET fresh == gen[s].batch = <<>>
      batch == IF fresh THEN gen[s].queue ELSE gen[s].batch
  IN  /\ Quiet /\ answer[s] = "open" /\ batch # <<>>
      /\ got' = [got EXCEPT ![s] = Append(@, Head(batch))]
      /\ gen' = [gen EXCEPT ![s].batch = Tail(batch),
                            ![s].queue = IF fresh THEN <<>> ELSE @]
      /\ UNCHANGED <<answer, conn, socket, closed, up, down, chunk, nextTag,
                     tagOf, pending, subs, trap, job>>

(* The finally block: no more routing, a cancel if the router still works
   for it, and what went wrong is thrown.                                  *)
Wrong(s) == gen[s].failure \/ trap[s] = "bad"

(* Mutant: an early return leaves its tag routed.                          *)
UnwindRouted(s, how) ==
  /\ Finish(s, IF Wrong(s) THEN "failed" ELSE how)
  /\ IF ~gen[s].ended THEN Cancel(s) ELSE UNCHANGED <<nextTag, up>>
  /\ UNCHANGED <<got, conn, socket, closed, down, chunk, tagOf, pending, subs,
                 trap, gen, job>>

Unwind(s, how) ==
  /\ Finish(s, IF Wrong(s) THEN "failed" ELSE how)
  /\ subs' = subs \ {tagOf[s]}
  /\ IF ~gen[s].ended THEN Cancel(s) ELSE UNCHANGED <<nextTag, up>>
  /\ UNCHANGED <<got, conn, socket, closed, down, chunk, tagOf, pending, trap,
                 gen, job>>

(* Mutant: a consumer that leaves early is not told.                       *)
BreaksQuietly(s) ==
  /\ Quiet /\ answer[s] = "open" /\ got[s] # <<>>
  /\ Finish(s, "left")
  /\ subs' = subs \ {tagOf[s]}
  /\ IF ~gen[s].ended THEN Cancel(s) ELSE UNCHANGED <<nextTag, up>>
  /\ UNCHANGED <<got, conn, socket, closed, down, chunk, tagOf, pending, trap,
                 gen, job>>

(* The consumer leaves the loop at a reply it was given, or asks for the
   next when the stream has ended.                                         *)
Breaks(s) ==
  /\ Quiet /\ answer[s] = "open" /\ got[s] # <<>>
  /\ Unwind(s, "left")

Ends(s) ==
  /\ Quiet /\ answer[s] = "open"
  /\ gen[s].ended /\ gen[s].queue = <<>> /\ gen[s].batch = <<>>
  /\ Unwind(s, IF gen[s].aborted THEN "left" ELSE "ok")

-----------------------------------------------------------------------------
(* handleData: the sentences a chunk completes.  A byte that is no length
   throws before any of them is dispatched.                                *)
Chunk(n) ==
  /\ Quiet /\ ~LoginSettled /\ ~closed /\ n \in 1..Len(down)
  /\ \/ /\ \A i \in 1..n : down[i].is # "garbage"
        /\ chunk' = n
        /\ NoFailure
        /\ UNCHANGED <<up, down>>
     \/ /\ \E i \in 1..n : down[i].is = "garbage"
        /\ FailAll
  /\ UNCHANGED <<got, conn, socket, nextTag, tagOf, trap, job>>

(* dispatch, by where the tag of the sentence leads.                       *)
Next1 == Head(down)

Dispatch ==
  /\ chunk > 0
  /\ UNCHANGED <<conn, nextTag, tagOf, job>>

Consume == down' = Tail(down) /\ chunk' = chunk - 1 /\ UNCHANGED up

(* Mutant: the answer goes to the waiter that has waited longest.          *)
ToOldestWaiter ==
  /\ Dispatch /\ Consume /\ Next1.tag \in pending
  /\ LET oldest == CHOOSE t \in pending : \A u \in pending : t <= u
         c == Owner(oldest)
     IN  \/ /\ Next1.is = "row"
            /\ got' = [got EXCEPT ![c] = Append(@, <<Next1.tag, Next1.n>>)]
            /\ UNCHANGED <<answer, pending, trap>>
         \/ Next1.is = "empty" /\ UNCHANGED <<answer, got, pending, trap>>
         \/ /\ Next1.is \in {"trap", "interrupted"}
            /\ trap' = [trap EXCEPT ![c] = "bad"]
            /\ UNCHANGED <<answer, got, pending>>
         \/ /\ Next1.is = "done"
            /\ pending' = pending \ {oldest}
            /\ Finish(c, IF trap[c] = "bad" THEN "failed" ELSE "ok")
            /\ UNCHANGED <<got, trap>>
  /\ UNCHANGED <<socket, closed, gen, subs>>

ToWaiter ==
  /\ Dispatch /\ Consume /\ Next1.tag \in pending
  /\ LET c == Owner(Next1.tag)
     IN  \/ /\ Next1.is = "row"
            /\ got' = [got EXCEPT ![c] = Append(@, <<Next1.tag, Next1.n>>)]
            /\ UNCHANGED <<answer, pending, trap>>
         \/ Next1.is = "empty" /\ UNCHANGED <<answer, got, pending, trap>>
         \/ /\ Next1.is \in {"trap", "interrupted"}
            /\ trap' = [trap EXCEPT ![c] = "bad"]
            /\ UNCHANGED <<answer, got, pending>>
         \/ /\ Next1.is = "done"
            /\ pending' = pending \ {Next1.tag}
            /\ Finish(c, IF trap[c] = "bad" THEN "failed" ELSE "ok")
            /\ got' = IF trap[c] # "bad" /\ Next1.n > 0
                      THEN [got EXCEPT ![c] = Append(@, <<Next1.tag, Next1.n>>)]
                      ELSE got
            /\ UNCHANGED trap
  /\ UNCHANGED <<socket, closed, gen, subs>>

ToSubscription ==
  /\ Dispatch /\ Consume /\ Next1.tag \in subs
  /\ LET s == Owner(Next1.tag)
     IN  \/ /\ Next1.is \in {"row", "empty"}
            /\ gen' = [gen EXCEPT ![s].queue = Append(@, <<Next1.tag, Next1.n>>)]
            /\ UNCHANGED <<subs, trap>>
         \/ /\ Next1.is \in {"trap", "interrupted"}
            /\ trap' = [trap EXCEPT ![s] =
                          IF Next1.is = "interrupted" /\ gen[s].aborted
                          THEN "ack" ELSE "bad"]
            /\ UNCHANGED <<gen, subs>>
         \/ /\ Next1.is = "done"
            /\ subs' = subs \ {Next1.tag}
            /\ gen' = [gen EXCEPT ![s].ended = TRUE]
            /\ UNCHANGED trap
  /\ UNCHANGED <<answer, got, socket, closed, pending>>

(* A tag nobody waits for any more: a late answer, or that of a /cancel.   *)
ToNobody ==
  /\ Dispatch /\ Consume /\ Next1.is # "fatal" /\ Next1.tag \notin pending \cup subs
  /\ UNCHANGED <<got, socket, trap>>
  /\ NoFailure

(* !fatal ends the session, and the socket although the peer may not.      *)
Fatal ==
  /\ Dispatch /\ Next1.is = "fatal"
  /\ socket' = "shut"
  /\ FailAll
  /\ UNCHANGED <<got, trap>>

(* handleClose: the transport is gone, what was on its way with it.        *)
LinkLost ==
  /\ Quiet /\ ~LoginSettled /\ socket = "open"
  /\ socket' = "shut"
  /\ IF closed THEN Nothing ELSE FailAll
  /\ UNCHANGED <<got, conn, nextTag, tagOf, trap, job>>

(* The owner of a ready session closes it.                                 *)
CallerCloses ==
  /\ Quiet /\ conn = "ready" /\ ~closed
  /\ Close
  /\ UNCHANGED <<got, conn, nextTag, tagOf, trap, job>>

-----------------------------------------------------------------------------
(* The router (external): it works on all tags at once and answers in any
   order, until it gives up; a service that is no router shows at the login,
   by bytes that are no sentence.  What it does for a closed session is seen by nobody.      *)
Speaks ==
  /\ Quiet /\ ~closed
  /\ Len(down) < MaxInFlight
  /\ \A i \in 1..Len(down) : down[i].is \notin {"fatal", "garbage"}

Say(t, what, n) == [tag |-> t, is |-> what, n |-> n]

RouterVars == <<answer, got, conn, socket, closed, chunk, nextTag, tagOf,
                pending, subs, trap, gen>>

RouterTakes ==
  /\ Speaks /\ up # <<>>
  /\ up' = Tail(up)
  /\ LET r == Head(up)
     IN  \/ /\ r.cancels = 0
            /\ job' = [job EXCEPT ![r.tag].is = "runs"]
            /\ UNCHANGED down
         \/ /\ r.cancels # 0 /\ job[r.cancels].is = "runs"
            /\ job' = [job EXCEPT ![r.cancels].is = "halted"]
            /\ down' = down \o <<Say(r.cancels, "interrupted", 0), Say(r.cancels, "done", 0),
                                 Say(r.tag, "done", 0)>>
         \/ /\ r.cancels # 0 /\ job[r.cancels].is # "runs"
            /\ down' = Append(down, Say(r.tag, "trap", 0))
            /\ UNCHANGED job
  /\ UNCHANGED RouterVars

RouterRow(t) ==
  /\ Speaks /\ job[t].is = "runs" /\ job[t].rows < MaxRows[Owner(t)]
  /\ job' = [job EXCEPT ![t].rows = @ + 1]
  /\ down' = Append(down, Say(t, "row", job[t].rows + 1))
  /\ UNCHANGED <<up, RouterVars>>

(* A command ends: !done, after !empty where there was no row, with =ret= in
   the legacy login; or !trap and !done.                                   *)
RouterEnds(t) ==
  /\ Speaks /\ job[t].is = "runs"
  /\ \/ /\ job' = [job EXCEPT ![t].is = "done"]
        /\ \/ down' = Append(down, Say(t, "done", 0))
           \/ /\ job[t].rows = 0
              /\ \A s \in Stream : tagOf[s] # t
              /\ down' = down \o <<Say(t, "empty", 0), Say(t, "done", 0)>>
     \/ /\ t = tagOf[Hello]
        /\ job' = [job EXCEPT ![t].is = "done", ![t].rows = @ + 1]
        /\ down' = Append(down, Say(t, "done", job[t].rows + 1))
     \/ /\ job' = [job EXCEPT ![t].is = "trap"]
        /\ down' = down \o <<Say(t, "trap", 0), Say(t, "done", 0)>>
     \/ /\ \E s \in Stream : tagOf[s] = t
        /\ job' = [job EXCEPT ![t].is = "halted"]
        /\ down' = down \o <<Say(t, "interrupted", 0), Say(t, "done", 0)>>
  /\ UNCHANGED <<up, RouterVars>>

RouterFails ==
  /\ Speaks
  /\ \/ conn = "ready" /\ down' = Append(down, Say(0, "fatal", 0))
     \/ conn = "hello" /\ answer[Hello] = "open"
        /\ down' = Append(down, Say(0, "garbage", 0))
  /\ UNCHANGED <<up, job, RouterVars>>

-----------------------------------------------------------------------------
Client ==
  \/ Connected \/ LoginAnswered \/ ConnectGivenUp \/ CallerCloses \/ LinkLost
  \/ \E c \in Talk : Talks(c)
  \/ \E s \in Stream : \/ Listens(s) \/ Abort(s) \/ GraceExpires(s) \/ Yields(s)
                       \/ Breaks(s) \/ Ends(s)
  \/ \E n \in 1..Len(down) : Chunk(n)
  \/ ToWaiter \/ ToSubscription \/ ToNobody \/ Fatal

Router ==
  \/ RouterTakes \/ RouterFails
  \/ \E t \in Tag : RouterRow(t) \/ RouterEnds(t)

SessionNext == Client \/ Router

SessionSpec == SessionInit /\ [][SessionNext]_sessionVars

(* The event loop goes on, the socket hands over what has arrived, timers
   fire, and a consumer asks for the next reply.  Nothing of the router.   *)
SessionFairness ==
  /\ WF_sessionVars(\E n \in 1..Len(down) : Chunk(n))
  /\ WF_sessionVars(ToWaiter \/ ToSubscription \/ ToNobody \/ Fatal)
  /\ \A s \in Stream : WF_sessionVars(Yields(s) \/ Ends(s) \/ GraceExpires(s))

SessionLiveSpec == SessionSpec /\ SessionFairness

-----------------------------------------------------------------------------
(* Every call has the router to itself: it gets the rows of its own command,
   all of them, once and in order, or it fails for a reason.               *)
RouterSide(c) ==
  IF tagOf[c] = 0 THEN [rows |-> 0, is |-> "none"] ELSE job[tagOf[c]]

Private == INSTANCE NativeCalls WITH
  rows <- [c \in Call |-> RouterSide(c).rows],
  verdict <- [c \in Call |-> IF RouterSide(c).is = "runs" THEN "none"
                             ELSE RouterSide(c).is],
  got <- [c \in Call |->
            IF c \in Talk /\ answer[c] # "ok" THEN <<>>
            ELSE [i \in 1..Len(got[c]) |->
                   <<IF got[c][i][1] = tagOf[c] THEN c ELSE Owner(got[c][i][1]),
                     got[c][i][2]>>]],
  gone <- closed

ImplementsCalls == Private!CallsSpec

(* A consumer that has what it wanted, or stopped, is still told of a trap
   that had been routed to its stream: it leaves without an error only if
   the trap was not yet dispatched or the subscription was given up.       *)
EarlyEndHidesNoTrap ==
  [][\A s \in Stream :
       answer[s] = "open" /\ answer'[s] = "left" /\ RouterSide(s).is = "trap"
         => \/ gen[s].grace = "spent"
            \/ \E i \in 1..Len(down) : down[i] = Say(tagOf[s], "trap", 0)]_sessionVars

(* The stop of a stream with a grace period ends its generator, whatever
   the router does or does not answer.                                     *)
StopEnds ==
  \A s \in GraceGiven : (answer[s] = "open" /\ gen[s].aborted) ~> (answer[s] # "open")

(* A failed connect leaves no connection behind: "Destroy even a pending
   connection when its deadline or login fails".                           *)
FailedConnectShutsSocket == conn = "lost" => socket = "shut"
=============================================================================
