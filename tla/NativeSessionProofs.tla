------------------------ MODULE NativeSessionProofs ------------------------
(***************************************************************************)
(* Proofs about NativeSession, for any calls, rows and length of the link: *)
(* its types, that each call has the router to itself, and that no stream  *)
(* hides a trap from its consumer.                                         *)
(***************************************************************************)
EXTENDS NativeSession, FiniteSetTheorems, SequenceTheorems, TLAPS

Request == [tag : Tag, cancels : Tag \cup {0}]

Job == [rows : Nat, is : {"none", "runs", "done", "trap", "halted"}]

Typed ==
  /\ answer \in [Call -> {"idle", "open", "ok", "failed", "left"}]
  /\ got \in [Call -> Seq(Tag \X Nat)]
  /\ conn \in {"dialing", "hello", "proof", "ready", "lost"}
  /\ socket \in {"open", "shut"}
  /\ closed \in BOOLEAN
  /\ up \in Seq(Request)
  /\ down \in Seq(Sentence)
  /\ chunk \in 0..Len(down)
  /\ nextTag \in Nat
  /\ tagOf \in [Call -> Tag \cup {0}]
  /\ pending \subseteq Tag /\ subs \subseteq Tag
  /\ trap \in [Call -> {"none", "bad", "ack"}]
  /\ gen \in [Stream -> Generator]
  /\ job \in [Tag -> Job]

(* Every tag that is given out is that of a call, of the cancel of an abort
   or of that of an early end: there are enough of them.                   *)
Idle == {c \in Call : answer[c] = "idle"}

Unaborted == {s \in Stream : ~gen[s].aborted}

Unended == {s \in Stream : answer[s] \in {"idle", "open"}}

Room ==
  nextTag + Cardinality(Idle) + Cardinality(Unaborted) + Cardinality(Unended)
    <= Cardinality(Call) + 2 * Cardinality(Stream)

(* A tag belongs to one call, or to a cancel.                              *)
Owned == {tagOf[c] : c \in Call} \ {0}

Streamed == {tagOf[s] : s \in Stream} \ {0}

Tagged ==
  /\ \A c \in Call : tagOf[c] <= nextTag
  /\ \A c, d \in Call : tagOf[c] # 0 /\ tagOf[c] = tagOf[d] => c = d
  /\ \A c \in Call : answer[c] = "idle" =>
       tagOf[c] = 0 /\ got[c] = <<>> /\ trap[c] = "none"
  /\ \A c \in Call : answer[c] = "open" => tagOf[c] # 0
  /\ \A s \in Stream : answer[s] = "idle" =>
       /\ gen[s].queue = <<>> /\ gen[s].batch = <<>>
       /\ ~gen[s].ended /\ ~gen[s].failure /\ gen[s].grace = "off"

(* Who waits, and who is subscribed, is an open call.                      *)
Routed ==
  /\ \A t \in pending : \E c \in Talk : answer[c] = "open" /\ tagOf[c] = t
  /\ \A c \in Talk : answer[c] = "open" => tagOf[c] \in pending
  /\ \A t \in subs : \E s \in Stream : answer[s] = "open" /\ tagOf[s] = t
  /\ \A s \in Stream : answer[s] = "open" => (tagOf[s] \in subs <=> ~gen[s].ended)
  /\ \A s \in Stream :
       /\ gen[s].failure => gen[s].ended /\ closed
       /\ gen[s].grace # "off" => gen[s].aborted
       /\ gen[s].grace = "spent" => gen[s].ended
  /\ closed => pending = {} /\ subs = {} /\ up = <<>> /\ down = <<>>

(* Requests on their way are not yet worked on; cancels are of streams.    *)
Underway ==
  /\ \A i \in 1..Len(up) :
       /\ up[i].tag <= nextTag
       /\ up[i].cancels = 0 => up[i].tag \in Owned /\ job[up[i].tag].is = "none"
       /\ up[i].cancels # 0 => up[i].cancels \in Streamed /\ up[i].tag \notin Owned
  /\ \A i, j \in 1..Len(up) : up[i].tag = up[j].tag => i = j

Worked ==
  \A t \in Tag :
    /\ job[t].is = "none" => job[t].rows = 0
    /\ job[t].is # "none" => t \in Owned
    /\ job[t].is = "halted" => t \in Streamed

(* What a sentence says of its command is so, and !done is the last one.   *)
Over(is) == is = "done" \/ is = "trap" \/ is = "halted"

Fits(x, owned, streamed, last, jobs) ==
  /\ x.tag <= last
  /\ x.is = "row" => x.n > 0
  /\ x.n > 0 => x.is = "row" \/ x.is = "done"
  /\ x.tag \in owned =>
       /\ x.is # "fatal" /\ x.is # "garbage"
       /\ x.is = "done" => Over(jobs[x.tag].is)
       /\ x.is = "trap" => jobs[x.tag].is = "trap" /\ x.n = 0
       /\ x.is = "interrupted" => jobs[x.tag].is = "halted" /\ x.n = 0
  /\ x.tag \in streamed => x.is # "empty" /\ (x.n > 0 => x.is = "row")

AllFit(d, owned, streamed, last, jobs) ==
  /\ \A i \in 1..Len(d) : Fits(d[i], owned, streamed, last, jobs)
  /\ \A i, j \in 1..Len(d) :
       i < j /\ d[i].is = "done" /\ d[i].tag \in owned => d[j].tag # d[i].tag

Said == AllFit(down, Owned, Streamed, nextTag, job)

(* Rows h + 1 to r of a command are on their way, in order.                *)
Follows(d, t, h, r) ==
  /\ h <= r
  /\ \A i \in 1..Len(d) : d[i].tag = t /\ d[i].n > 0 => h < d[i].n /\ d[i].n <= r
  /\ \A i, j \in 1..Len(d) :
       i < j /\ d[i].tag = t /\ d[j].tag = t /\ d[i].n > 0 /\ d[j].n > 0 => d[i].n < d[j].n
  /\ \A n \in h + 1..r : \E i \in 1..Len(d) : d[i].tag = t /\ d[i].n = n

Heard ==
  [c \in Call |-> IF c \in Stream
                  THEN Len(got[c]) + Len(gen[c].batch) + Len(gen[c].queue)
                  ELSE Len(got[c])]

(* Its trap was heard, or is on its way.                                   *)
Holds(d, x) == \E i \in 1..Len(d) : d[i] = x

Heeds(d, t, is, heard) ==
  /\ is = "trap" => heard = "bad" \/ Holds(d, Say(t, "trap", 0))
  /\ is = "halted" => heard # "none" \/ Holds(d, Say(t, "interrupted", 0))

Unheard ==
  \A c \in Call : tagOf[c] \in pending \cup subs =>
    /\ Follows(down, tagOf[c], Heard[c], job[tagOf[c]].rows)
    /\ Heeds(down, tagOf[c], job[tagOf[c]].is, trap[c])

(* What was handed out, and what waits to be, are its own rows in order.   *)
Numbered(q, t, k) == \A i \in 1..Len(q) : q[i] = <<t, k + i>>

OwnRows ==
  /\ \A c \in Call : Numbered(got[c], tagOf[c], 0)
  /\ \A s \in Stream :
       /\ Numbered(gen[s].batch, tagOf[s], Len(got[s]))
       /\ Numbered(gen[s].queue, tagOf[s], Len(got[s]) + Len(gen[s].batch))

(* A trap is heard because there was one.                                  *)
Warned ==
  /\ \A c \in Call : trap[c] # "none" =>
       tagOf[c] # 0 /\ (job[tagOf[c]].is = "trap" \/ job[tagOf[c]].is = "halted")
  /\ \A s \in Stream : trap[s] = "ack" => gen[s].aborted /\ job[tagOf[s]].is = "halted"
  /\ \A c \in Talk : trap[c] # "ack"

(* A stream that !done ended has heard everything.                         *)
Complete(s) ==
  /\ Over(job[tagOf[s]].is)
  /\ Heard[s] = job[tagOf[s]].rows
  /\ job[tagOf[s]].is = "trap" => trap[s] = "bad"
  /\ job[tagOf[s]].is = "halted" => trap[s] # "none"

Completed ==
  \A s \in Stream : answer[s] = "open" =>
    /\ Heard[s] <= job[tagOf[s]].rows
    /\ gen[s].ended /\ ~gen[s].failure /\ gen[s].grace # "spent" => Complete(s)

SessionInv ==
  /\ Typed /\ Room /\ Tagged /\ Routed /\ Underway /\ Worked
  /\ Said /\ Unheard /\ OwnRows /\ Warned /\ Completed

-----------------------------------------------------------------------------
(* The kinds of steps.                                                     *)
Dies == FailAll /\ UNCHANGED <<got, nextTag, tagOf, trap, job>>

Rests ==
  UNCHANGED <<answer, got, closed, up, down, nextTag, tagOf, pending, subs, trap, gen, job>>

Sends(c) == SendTalk(c) /\ UNCHANGED <<got, closed, down, chunk, subs, trap, gen, job>>

Unwinds(s) ==
  /\ answer[s] = "open"
  /\ \/ Unwind(s, "left")
     \/ /\ gen[s].ended /\ gen[s].queue = <<>> /\ gen[s].batch = <<>> /\ ~gen[s].aborted
        /\ Unwind(s, "ok")

LEMMA CloseKinds ==
  ASSUME Close, UNCHANGED <<got, nextTag, tagOf, trap, job>>
  PROVE  Dies \/ Rests
BY DEF Close, Dies, Rests, Nothing, NoFailure

LEMMA ClientKinds ==
  ASSUME Client
  PROVE  \/ Dies \/ Rests
         \/ \E c \in Talk : Sends(c)
         \/ \E s \in Stream : Listens(s) \/ Abort(s) \/ GraceExpires(s) \/ Yields(s) \/ Unwinds(s)
         \/ ToWaiter \/ ToSubscription \/ ToNobody
<1>1. Hello \in Talk /\ Proof \in Talk
  BY NativeConstants
<1>2. CASE Connected
  BY <1>1, <1>2 DEF Connected, Sends
<1>3. CASE LoginAnswered
  <2>1. CASE SendTalk(Proof) /\ UNCHANGED <<got, trap, job, socket, closed, gen, subs, down, chunk>>
    BY <1>1, <2>1 DEF Sends
  <2>2. CASE Nothing /\ UNCHANGED <<got, trap, job, nextTag, tagOf>>
    BY <2>2 DEF Rests, Nothing, NoFailure
  <2>3. CASE Close /\ UNCHANGED <<got, trap, job, nextTag, tagOf>>
    BY <2>3, CloseKinds
  <2> QED
    BY <1>3, <2>1, <2>2, <2>3 DEF LoginAnswered
<1>4. CASE ConnectGivenUp \/ CallerCloses
  BY <1>4, CloseKinds DEF ConnectGivenUp, CallerCloses
<1>5. CASE LinkLost
  BY <1>5 DEF LinkLost, Dies, Rests, Nothing, NoFailure
<1>6. CASE \E c \in Talk : Talks(c)
  BY <1>6 DEF Talks, Sends
<1>7. ASSUME NEW n \in 1..Len(down), Chunk(n)
      PROVE  Dies \/ Rests
  BY <1>7 DEF Chunk, Dies, Rests, NoFailure
<1>8. CASE Fatal
  BY <1>8 DEF Fatal, Dispatch, Dies
<1>9. CASE \E s \in Stream : Breaks(s) \/ Ends(s)
  BY <1>9 DEF Breaks, Ends, Unwinds
<1> QED
  BY <1>2, <1>3, <1>4, <1>5, <1>6, <1>7, <1>8, <1>9 DEF Client

LEMMA StepKinds ==
  ASSUME [SessionNext]_sessionVars
  PROVE  \/ Dies \/ Rests
         \/ \E c \in Talk : Sends(c)
         \/ \E s \in Stream : Listens(s) \/ Abort(s) \/ GraceExpires(s) \/ Yields(s) \/ Unwinds(s)
         \/ ToWaiter \/ ToSubscription \/ ToNobody
         \/ RouterTakes \/ RouterFails
         \/ \E t \in Tag : RouterRow(t) \/ RouterEnds(t)
<1>1. CASE UNCHANGED sessionVars
  BY <1>1 DEF sessionVars, Rests
<1>2. CASE Client
  BY <1>2, ClientKinds
<1>3. CASE Router
  BY <1>3 DEF Router
<1> QED
  BY <1>1, <1>2, <1>3 DEF SessionNext

-----------------------------------------------------------------------------
(* Types, and tags enough.                                                 *)
LEMMA Fewer ==
  ASSUME NEW S, IsFiniteSet(S), NEW T \in SUBSET S
  PROVE  /\ IsFiniteSet(T) /\ Cardinality(T) \in Nat /\ Cardinality(S) \in Nat
         /\ Cardinality(T) <= Cardinality(S)
         /\ \A x \in S \ T : Cardinality(T) + 1 <= Cardinality(S)
<1>1. IsFiniteSet(T) /\ Cardinality(T) <= Cardinality(S)
  BY FS_Subset
<1>2. Cardinality(T) \in Nat /\ Cardinality(S) \in Nat
  BY <1>1, FS_CardinalityType
<1>3. ASSUME NEW x \in S \ T
      PROVE  Cardinality(T) + 1 <= Cardinality(S)
  <2>1. Cardinality(T \cup {x}) = Cardinality(T) + 1
    BY <1>1, FS_AddElement
  <2>2. T \cup {x} \in SUBSET S
    OBVIOUS
  <2>3. Cardinality(T \cup {x}) <= Cardinality(S)
    BY <2>2, FS_Subset
  <2> QED
    BY <2>1, <2>3
<1> QED
  BY <1>1, <1>2, <1>3

LEMMA Calls ==
  /\ IsFiniteSet(Call) /\ IsFiniteSet(Stream)
  /\ Cardinality(Call) \in Nat /\ Cardinality(Stream) \in Nat
  /\ Talk \subseteq Call /\ Stream \subseteq Call
  /\ \A c \in Call : c \in Talk <=> c \notin Stream
  /\ Tag = 1..Cardinality(Call) + 2 * Cardinality(Stream)
<1>1. IsFiniteSet(Call) /\ Stream \in SUBSET Call
  BY NativeConstants DEF Call
<1>2. IsFiniteSet(Stream) /\ Cardinality(Call) \in Nat /\ Cardinality(Stream) \in Nat
  BY <1>1, Fewer
<1> QED
  BY <1>1, <1>2, NativeConstants DEF Call, Tag

LEMMA Remaining ==
  /\ IsFiniteSet(Idle) /\ IsFiniteSet(Unaborted) /\ IsFiniteSet(Unended)
  /\ Cardinality(Idle) \in Nat /\ Cardinality(Unaborted) \in Nat
  /\ Cardinality(Unended) \in Nat
<1>1. Idle \in SUBSET Call /\ Unaborted \in SUBSET Stream /\ Unended \in SUBSET Stream
  BY DEF Idle, Unaborted, Unended
<1> QED
  BY <1>1, Calls, Fewer

(* Where there is a call to be sent or a stream to be cancelled, a tag is
   left for it.                                                            *)
LEMMA TagLeft ==
  ASSUME Typed, Room, Idle \cup Unaborted \cup Unended # {}
  PROVE  nextTag + 1 \in Tag
<1>1. nextTag \in Nat
  BY DEF Typed
<1>2. \/ Cardinality(Idle) # 0 \/ Cardinality(Unaborted) # 0 \/ Cardinality(Unended) # 0
  BY Remaining, FS_EmptySet
<1> QED
  BY <1>1, <1>2, Remaining, Calls DEF Room

LEMMA Sums ==
  ASSUME NEW n \in Nat, NEW m, NEW a \in Nat, NEW b \in Nat, NEW c \in Nat,
         NEW p \in Nat, NEW q \in Nat, NEW r \in Nat, NEW all \in Int,
         p <= a, q <= b, r <= c, n + a + b + c <= all,
         m = n \/ (m = n + 1 /\ (p + 1 <= a \/ q + 1 <= b \/ r + 1 <= c))
  PROVE  m + p + q + r <= all
OBVIOUS

LEMMA Spends ==
  ASSUME Typed, Room, Idle' \subseteq Idle, Unaborted' \subseteq Unaborted,
         Unended' \subseteq Unended,
         \/ nextTag' = nextTag
         \/ /\ nextTag' = nextTag + 1
            /\ \/ \E c : c \in Idle \ Idle'
               \/ \E c : c \in Unaborted \ Unaborted'
               \/ \E c : c \in Unended \ Unended'
  PROVE  Room'
<1>1. nextTag \in Nat
  BY DEF Typed
<1>2. /\ Cardinality(Idle') \in Nat /\ Cardinality(Idle') <= Cardinality(Idle)
      /\ \A x \in Idle \ Idle' : Cardinality(Idle') + 1 <= Cardinality(Idle)
  BY Remaining, Fewer
<1>3. /\ Cardinality(Unaborted') \in Nat /\ Cardinality(Unaborted') <= Cardinality(Unaborted)
      /\ \A x \in Unaborted \ Unaborted' : Cardinality(Unaborted') + 1 <= Cardinality(Unaborted)
  BY Remaining, Fewer
<1>4. /\ Cardinality(Unended') \in Nat /\ Cardinality(Unended') <= Cardinality(Unended)
      /\ \A x \in Unended \ Unended' : Cardinality(Unended') + 1 <= Cardinality(Unended)
  BY Remaining, Fewer
<1>5. \/ nextTag' = nextTag
      \/ /\ nextTag' = nextTag + 1
         /\ \/ Cardinality(Idle') + 1 <= Cardinality(Idle)
            \/ Cardinality(Unaborted') + 1 <= Cardinality(Unaborted)
            \/ Cardinality(Unended') + 1 <= Cardinality(Unended)
  BY <1>2, <1>3, <1>4
<1>6. nextTag + Cardinality(Idle) + Cardinality(Unaborted) + Cardinality(Unended)
        <= Cardinality(Call) + 2 * Cardinality(Stream)
  BY DEF Room
<1>7. nextTag' + Cardinality(Idle') + Cardinality(Unaborted') + Cardinality(Unended')
        <= Cardinality(Call) + 2 * Cardinality(Stream)
  <2>1. Cardinality(Call) + 2 * Cardinality(Stream) \in Int
    BY Calls
  <2> QED
    BY <1>1, <1>2, <1>3, <1>4, <1>5, <1>6, <2>1, Remaining, Sums
<1> QED
  BY <1>7 DEF Room

LEMMA LinkTyped ==
  ASSUME Typed, [SessionNext]_sessionVars
  PROVE  /\ conn' \in {"dialing", "hello", "proof", "ready", "lost"}
         /\ socket' \in {"open", "shut"}
         /\ chunk' \in 0..Len(down')
<1>0. /\ conn \in {"dialing", "hello", "proof", "ready", "lost"}
      /\ socket \in {"open", "shut"}
      /\ chunk \in 0..Len(down) /\ down \in Seq(Sentence)
  BY DEF Typed
<1>1. CASE UNCHANGED <<chunk, down>> /\ \/ Connected \/ LoginAnswered \/ ConnectGivenUp
                                        \/ CallerCloses \/ LinkLost
  <2>1. conn' \in {conn, "hello", "proof", "ready", "lost"} /\ socket' \in {socket, "shut"}
    BY <1>1 DEF Connected, LoginAnswered, ConnectGivenUp, CallerCloses, LinkLost, Close
  <2> QED
    BY <1>0, <1>1, <2>1
<1>2. CASE FailAll /\ \/ Connected \/ LoginAnswered \/ ConnectGivenUp
                      \/ CallerCloses \/ LinkLost \/ Fatal \/ \E n \in 1..Len(down) : Chunk(n)
  <2>1. conn' \in {conn, "hello", "proof", "ready", "lost"} /\ socket' \in {socket, "shut"}
    BY <1>2 DEF Connected, LoginAnswered, ConnectGivenUp, CallerCloses, LinkLost, Close, Fatal,
      Dispatch, Chunk
  <2>2. chunk' = 0 /\ down' = <<>>
    BY <1>2 DEF FailAll
  <2> QED
    BY <1>0, <2>1, <2>2
<1>3. CASE Connected \/ LoginAnswered \/ ConnectGivenUp \/ CallerCloses \/ LinkLost
  <2>1. UNCHANGED <<chunk, down>> \/ FailAll
    BY <1>3 DEF Connected, LoginAnswered, ConnectGivenUp, CallerCloses, LinkLost, Close, Nothing
  <2> QED
    BY <1>1, <1>2, <1>3, <2>1
<1>4. CASE UNCHANGED <<conn, socket, chunk, down>>
  BY <1>0, <1>4
<1>5. CASE \/ \E c \in Talk : Talks(c)
           \/ \E s \in Stream : \/ Listens(s) \/ Abort(s) \/ GraceExpires(s) \/ Yields(s)
                                \/ Breaks(s) \/ Ends(s)
           \/ UNCHANGED sessionVars
  BY <1>4, <1>5 DEF Talks, Listens, Abort, GraceExpires, Yields, Breaks, Ends, Unwind, sessionVars
<1>6. CASE ToWaiter \/ ToSubscription \/ ToNobody
  <2>1. chunk > 0 /\ UNCHANGED <<conn, socket>> /\ down' = Tail(down) /\ chunk' = chunk - 1
    BY <1>6 DEF ToWaiter, ToSubscription, ToNobody, Dispatch, Consume
  <2> QED
    BY <1>0, <2>1
<1>7. ASSUME NEW n \in 1..Len(down), Chunk(n), ~FailAll
      PROVE  chunk' = n /\ UNCHANGED <<conn, socket, down>>
  BY <1>7 DEF Chunk
<1>8. CASE Router
  <2>1. UNCHANGED <<conn, socket, chunk>> /\ chunk = 0
    BY <1>8 DEF Router, RouterTakes, RouterFails, RouterRow, RouterEnds, RouterVars, Speaks, Quiet
  <2> QED
    BY <1>0, <2>1
<1>9. CASE Fatal
  BY <1>2, <1>9 DEF Fatal
<1>10. ASSUME NEW n \in 1..Len(down), Chunk(n)
       PROVE  /\ conn' \in {"dialing", "hello", "proof", "ready", "lost"}
              /\ socket' \in {"open", "shut"}
              /\ chunk' \in 0..Len(down')
  <2>1. CASE FailAll
    BY <1>2, <1>10, <2>1
  <2>2. CASE ~FailAll
    BY <1>0, <1>7, <1>10, <2>2
  <2> QED
    BY <2>1, <2>2
<1> QED
  BY <1>3, <1>5, <1>6, <1>8, <1>9, <1>10 DEF SessionNext, Client

LEMMA Owners ==
  ASSUME Tagged, NEW c \in Call, tagOf[c] # 0
  PROVE  Owner(tagOf[c]) = c
<1>1. \A d \in Call : tagOf[d] = tagOf[c] => d = c
  BY DEF Tagged
<1> QED
  BY <1>1 DEF Owner

LEMMA Waiters ==
  ASSUME Tagged, Routed, NEW t \in pending
  PROVE  Owner(t) \in Talk /\ answer[Owner(t)] = "open" /\ tagOf[Owner(t)] = t /\ t \notin subs
<1>1. PICK c \in Talk : answer[c] = "open" /\ tagOf[c] = t
  BY DEF Routed
<1>2. c \in Call /\ tagOf[c] # 0
  BY <1>1, Calls DEF Tagged
<1>3. Owner(t) = c
  BY <1>1, <1>2, Owners
<1>4. ASSUME t \in subs
      PROVE  FALSE
  <2>1. PICK s \in Stream : tagOf[s] = t
    BY <1>4 DEF Routed
  <2>2. s = c
    BY <1>1, <1>2, <2>1, Calls DEF Tagged
  <2> QED
    BY <2>2, Calls
<1> QED
  BY <1>1, <1>3, <1>4

LEMMA Subscribers ==
  ASSUME Tagged, Routed, NEW t \in subs
  PROVE  Owner(t) \in Stream /\ answer[Owner(t)] = "open" /\ tagOf[Owner(t)] = t
<1>1. PICK s \in Stream : answer[s] = "open" /\ tagOf[s] = t
  BY DEF Routed
<1>2. s \in Call /\ tagOf[s] # 0
  BY <1>1, Calls DEF Tagged
<1>3. Owner(t) = s
  BY <1>1, <1>2, Owners
<1> QED
  BY <1>1, <1>3

LEMMA Heads ==
  ASSUME Typed, Dispatch
  PROVE  /\ Len(down) \in Nat \ {0} /\ down[1] = Next1 /\ 1 \in 1..Len(down)
         /\ Next1 \in Sentence /\ Tail(down) \in Seq(Sentence)
         /\ Len(Tail(down)) = Len(down) - 1
         /\ \A i \in 1..Len(Tail(down)) : i + 1 \in 1..Len(down) /\ Tail(down)[i] = down[i + 1]
<1>1. down \in Seq(Sentence) /\ chunk \in 0..Len(down) /\ chunk > 0
  BY DEF Typed, Dispatch
<1> QED
  BY <1>1 DEF Next1

LEMMA Appended ==
  ASSUME NEW S, NEW q \in Seq(S), NEW e \in S
  PROVE  Append(q, e) \in Seq(S)
OBVIOUS

LEMMA Spent ==
  ASSUME NEW g \in Generator, NEW q \in Seq(Tag \X Nat)
  PROVE  [g EXCEPT !.queue = q, !.ended = TRUE, !.grace = "spent"] \in Generator
BY DEF Generator

LEMMA SentTyped ==
  ASSUME Typed, Room, NEW c \in Talk, SendTalk(c)
  PROVE  /\ answer' \in [Call -> {"idle", "open", "ok", "failed", "left"}]
         /\ up' \in Seq(Request) /\ nextTag' \in Nat /\ tagOf' \in [Call -> Tag \cup {0}]
         /\ pending' \subseteq Tag
<1>1. c \in Call /\ answer[c] = "idle"
  BY Calls DEF SendTalk
<1>2. nextTag + 1 \in Tag
  BY <1>1, TagLeft DEF Idle
<1>3. answer' \in [Call -> {"idle", "open", "ok", "failed", "left"}]
  BY <1>1 DEF SendTalk, Finish, Typed
<1>4. nextTag' \in Nat /\ tagOf' \in [Call -> Tag \cup {0}] /\ pending' \subseteq Tag
  <2>1. nextTag \in Nat /\ nextTag + 1 \in Nat /\ pending \subseteq Tag
        /\ tagOf \in [Call -> Tag \cup {0}]
    BY DEF Typed
  <2>2. CASE UNCHANGED <<nextTag, tagOf, pending>>
    BY <2>1, <2>2
  <2>3. CASE nextTag' = nextTag + 1 /\ tagOf' = [tagOf EXCEPT ![c] = nextTag']
             /\ (pending' = pending \/ pending' = pending \cup {nextTag'})
    <3>1. tagOf' = [tagOf EXCEPT ![c] = nextTag + 1]
      BY <2>3
    <3>2. tagOf' \in [Call -> Tag \cup {0}]
      BY <1>1, <1>2, <2>1, <3>1
    <3> QED
      BY <1>2, <2>1, <2>3, <3>2
  <2> QED
    BY <2>2, <2>3 DEF SendTalk
<1>5. [tag |-> nextTag + 1, cancels |-> 0] \in Request
  BY <1>2 DEF Request
<1>6. up' = up \/ up' = Append(up, [tag |-> nextTag + 1, cancels |-> 0])
  BY DEF SendTalk
<1>7. up' \in Seq(Request)
  <2>1. up \in Seq(Request)
    BY DEF Typed
  <2> QED
    BY <1>5, <1>6, <2>1, Appended
<1> QED
  BY <1>3, <1>4, <1>7

LEMMA CancelTyped ==
  ASSUME Typed, Room, NEW s \in Stream, tagOf[s] # 0, Cancel(s), Unaborted \cup Unended # {}
  PROVE  up' \in Seq(Request) /\ nextTag' \in Nat
<1>1. nextTag + 1 \in Tag
  BY TagLeft
<1>2. [tag |-> nextTag + 1, cancels |-> tagOf[s]] \in Request
  <2>1. tagOf[s] \in Tag
    BY Calls DEF Typed
  <2> QED
    BY <1>1, <2>1 DEF Request
<1>3. \/ up' = up /\ nextTag' = nextTag
      \/ up' = Append(up, [tag |-> nextTag + 1, cancels |-> tagOf[s]]) /\ nextTag' = nextTag + 1
  BY DEF Cancel
<1>4. up \in Seq(Request) /\ nextTag \in Nat
  BY DEF Typed
<1>5. nextTag + 1 \in Nat
  BY <1>4
<1>6. Append(up, [tag |-> nextTag + 1, cancels |-> tagOf[s]]) \in Seq(Request)
  BY <1>2, <1>4, Appended
<1> QED
  BY <1>3, <1>4, <1>5, <1>6

LEMMA DiesTyped ==
  ASSUME Typed, FailAll
  PROVE  /\ answer' \in [Call -> {"idle", "open", "ok", "failed", "left"}]
         /\ gen' \in [Stream -> Generator]
         /\ closed' \in BOOLEAN /\ up' \in Seq(Request) /\ down' \in Seq(Sentence)
         /\ pending' \subseteq Tag /\ subs' \subseteq Tag
<1>1. answer' \in [Call -> {"idle", "open", "ok", "failed", "left"}]
  BY DEF FailAll, Typed
<1>2. ASSUME NEW s \in Stream
      PROVE  [gen[s] EXCEPT !.failure = TRUE, !.ended = TRUE] \in Generator
  <2>1. gen[s] \in Generator
    BY DEF Typed
  <2> QED
    BY <2>1 DEF Generator
<1>3. gen' \in [Stream -> Generator]
  <2>1. gen' = [s \in Stream |-> IF tagOf[s] \in subs
                                 THEN [gen[s] EXCEPT !.failure = TRUE, !.ended = TRUE]
                                 ELSE gen[s]]
    BY DEF FailAll
  <2>2. \A s \in Stream : gen[s] \in Generator
    BY DEF Typed
  <2> QED
    BY <1>2, <2>1, <2>2
<1>4. closed' = TRUE /\ up' = <<>> /\ down' = <<>> /\ pending' = {} /\ subs' = {}
  BY DEF FailAll
<1> QED
  BY <1>1, <1>3, <1>4

LEMMA StreamTyped ==
  ASSUME Typed, Tagged, Room, NEW s \in Stream,
         Listens(s) \/ Abort(s) \/ GraceExpires(s) \/ Yields(s) \/ Unwinds(s)
  PROVE  /\ answer' \in [Call -> {"idle", "open", "ok", "failed", "left"}]
         /\ got' \in [Call -> Seq(Tag \X Nat)] /\ gen' \in [Stream -> Generator]
         /\ up' \in Seq(Request) /\ nextTag' \in Nat /\ tagOf' \in [Call -> Tag \cup {0}]
         /\ subs' \subseteq Tag
<1>0. /\ s \in Call /\ gen[s] \in Generator /\ up \in Seq(Request)
      /\ answer \in [Call -> {"idle", "open", "ok", "failed", "left"}]
      /\ got \in [Call -> Seq(Tag \X Nat)] /\ gen \in [Stream -> Generator]
      /\ nextTag \in Nat /\ tagOf \in [Call -> Tag \cup {0}] /\ subs \subseteq Tag
  BY Calls DEF Typed
<1>1. CASE Listens(s)
  <2>1. nextTag + 1 \in Tag
    BY <1>0, <1>1, TagLeft DEF Listens, Idle
  <2>2. [tag |-> nextTag + 1, cancels |-> 0] \in Request
    BY <2>1 DEF Request
  <2>3. up' = up \/ up' = Append(up, [tag |-> nextTag + 1, cancels |-> 0])
    BY <1>1 DEF Listens
  <2>4. up' \in Seq(Request)
    <3>1. up \in Seq(Request)
      BY <1>0
    <3>2. Append(up, [tag |-> nextTag + 1, cancels |-> 0]) \in Seq(Request)
      BY <2>2, <3>1, Appended
    <3> QED
      BY <2>3, <3>1, <3>2
  <2>5. answer' \in [Call -> {"idle", "open", "ok", "failed", "left"}]
    BY <1>0, <1>1 DEF Listens, Finish
  <2>6. nextTag' \in Nat /\ tagOf' \in [Call -> Tag \cup {0}] /\ subs' \subseteq Tag
    <3>1. CASE UNCHANGED <<nextTag, tagOf, subs>>
      BY <1>0, <3>1
    <3>2. CASE nextTag' = nextTag + 1 /\ tagOf' = [tagOf EXCEPT ![s] = nextTag']
               /\ (subs' = subs \/ subs' = subs \cup {nextTag'})
      <4>1. tagOf' = [tagOf EXCEPT ![s] = nextTag + 1]
        BY <3>2
      <4>2. tagOf' \in [Call -> Tag \cup {0}]
        BY <1>0, <2>1, <4>1
      <4> QED
        BY <1>0, <2>1, <3>2, <4>2
    <3> QED
      BY <1>1, <3>1, <3>2 DEF Listens
  <2>7. got' = got /\ gen' = gen
    BY <1>1 DEF Listens
  <2> QED
    BY <1>0, <2>4, <2>5, <2>6, <2>7
<1>2. CASE Abort(s)
  <2>1. [gen EXCEPT ![s].aborted = TRUE] \in [Stream -> Generator]
    BY <1>0 DEF Generator
  <2>2. [gen EXCEPT ![s].aborted = TRUE,
                    ![s].grace = IF s \in GraceGiven THEN "armed" ELSE "off"]
          \in [Stream -> Generator]
    BY <1>0 DEF Generator
  <2>3. gen' \in [Stream -> Generator]
    BY <1>2, <2>1, <2>2 DEF Abort
  <2>4. s \in Unaborted
    BY <1>2 DEF Abort, Unaborted
  <2>5. up' \in Seq(Request) /\ nextTag' \in Nat
    <3>1. CASE answer[s] = "open" /\ Cancel(s)
      BY <1>0, <2>4, <3>1, CancelTyped DEF Tagged
    <3>2. CASE UNCHANGED <<nextTag, up>>
      BY <1>0, <3>2
    <3> QED
      BY <1>2, <3>1, <3>2 DEF Abort
  <2>6. UNCHANGED <<answer, got, tagOf, subs>>
    BY <1>2 DEF Abort
  <2> QED
    BY <1>0, <2>3, <2>5, <2>6
<1>3. CASE GraceExpires(s)
  <2>1. [gen EXCEPT ![s].grace = "off"] \in [Stream -> Generator]
    BY <1>0 DEF Generator
  <2>2. [gen EXCEPT ![s].queue = <<>>, ![s].ended = TRUE, ![s].grace = "spent"]
          \in [Stream -> Generator]
    <3> DEFINE g == [gen[s] EXCEPT !.queue = <<>>, !.ended = TRUE, !.grace = "spent"]
    <3>1. g \in Generator
      <4>1. gen[s] \in Generator /\ <<>> \in Seq(Tag \X Nat)
        BY <1>0
      <4> QED
        BY <4>1, Spent
    <3>2. [gen EXCEPT ![s] = g] \in [Stream -> Generator]
      BY <1>0, <3>1
    <3>3. [gen EXCEPT ![s].queue = <<>>, ![s].ended = TRUE, ![s].grace = "spent"]
            = [gen EXCEPT ![s] = g]
      BY <1>0
    <3> QED
      BY <3>2, <3>3
  <2>3. /\ gen' \in [Stream -> Generator] /\ subs' \subseteq Tag
        /\ UNCHANGED <<answer, got, up, nextTag, tagOf>>
    BY <1>0, <1>3, <2>1, <2>2 DEF GraceExpires
  <2> QED
    BY <1>0, <2>3
<1>4. CASE Yields(s)
  <2> DEFINE fresh == gen[s].batch = <<>>
             batch == IF fresh THEN gen[s].queue ELSE gen[s].batch
  <2>1. batch \in Seq(Tag \X Nat) /\ batch # <<>>
    BY <1>0, <1>4 DEF Generator, Yields
  <2>2. Head(batch) \in Tag \X Nat /\ Tail(batch) \in Seq(Tag \X Nat)
    BY <2>1
  <2>3. got' \in [Call -> Seq(Tag \X Nat)]
    BY <1>0, <1>4, <2>2 DEF Yields
  <2>4. [gen EXCEPT ![s].batch = Tail(batch), ![s].queue = IF fresh THEN <<>> ELSE @]
          \in [Stream -> Generator]
    BY <1>0, <2>2 DEF Generator
  <2>5. gen' \in [Stream -> Generator] /\ UNCHANGED <<answer, up, nextTag, tagOf, subs>>
    BY <1>4, <2>4 DEF Yields
  <2> QED
    BY <1>0, <2>3, <2>5
<1>5. CASE Unwinds(s)
  <2>1. answer[s] = "open" /\ s \in Unended
    BY <1>5 DEF Unwinds, Unended
  <2>2. answer' \in [Call -> {"idle", "open", "ok", "failed", "left"}]
    BY <1>0, <1>5 DEF Unwinds, Unwind, Finish
  <2>3. up' \in Seq(Request) /\ nextTag' \in Nat
    <3>1. CASE Cancel(s)
      BY <1>0, <2>1, <3>1, CancelTyped DEF Tagged
    <3>2. CASE UNCHANGED <<nextTag, up>>
      BY <1>0, <3>2
    <3> QED
      BY <1>5, <3>1, <3>2 DEF Unwinds, Unwind
  <2>4. subs' \subseteq subs /\ UNCHANGED <<got, tagOf, gen>>
    BY <1>5 DEF Unwinds, Unwind
  <2> QED
    BY <1>0, <2>2, <2>3, <2>4
<1> QED
  BY <1>1, <1>2, <1>3, <1>4, <1>5

LEMMA ReceivedTyped ==
  ASSUME Typed, Tagged, Routed, ToWaiter \/ ToSubscription \/ ToNobody
  PROVE  /\ answer' \in [Call -> {"idle", "open", "ok", "failed", "left"}]
         /\ got' \in [Call -> Seq(Tag \X Nat)] /\ gen' \in [Stream -> Generator]
         /\ down' \in Seq(Sentence) /\ pending' \subseteq Tag /\ subs' \subseteq Tag
         /\ trap' \in [Call -> {"none", "bad", "ack"}]
<1>0. /\ answer \in [Call -> {"idle", "open", "ok", "failed", "left"}]
      /\ got \in [Call -> Seq(Tag \X Nat)] /\ gen \in [Stream -> Generator]
      /\ pending \subseteq Tag /\ subs \subseteq Tag
      /\ trap \in [Call -> {"none", "bad", "ack"}]
  BY DEF Typed
<1>1. Dispatch /\ down' = Tail(down)
  BY DEF ToWaiter, ToSubscription, ToNobody, Consume
<1>2. down' \in Seq(Sentence)
  BY <1>1, Heads
<1>3. Next1.n \in Nat
  BY <1>1, Heads DEF Sentence
<1>4. CASE ToWaiter
  <2> DEFINE c == Owner(Next1.tag)
             e == <<Next1.tag, Next1.n>>
  <2>1. Next1.tag \in Tag /\ c \in Call
    BY <1>0, <1>4, Waiters, Calls DEF ToWaiter
  <2>2. e \in Tag \X Nat /\ Append(got[c], e) \in Seq(Tag \X Nat)
    BY <1>0, <1>3, <2>1, Appended
  <2>3. got' \in [Call -> Seq(Tag \X Nat)]
    <3>1. got' = got \/ got' = [got EXCEPT ![c] = Append(@, e)]
      BY <1>4 DEF ToWaiter
    <3> QED
      BY <1>0, <2>1, <2>2, <3>1
  <2>4. answer' \in [Call -> {"idle", "open", "ok", "failed", "left"}]
    BY <1>0, <1>4, <2>1 DEF ToWaiter, Finish
  <2>5. trap' \in [Call -> {"none", "bad", "ack"}]
    BY <1>0, <1>4, <2>1 DEF ToWaiter
  <2>6. pending' \subseteq pending /\ UNCHANGED <<gen, subs>>
    BY <1>4 DEF ToWaiter
  <2> QED
    BY <1>0, <1>2, <2>3, <2>4, <2>5, <2>6
<1>5. CASE ToSubscription
  <2> DEFINE s == Owner(Next1.tag)
             e == <<Next1.tag, Next1.n>>
  <2>1. Next1.tag \in Tag /\ s \in Stream /\ s \in Call /\ gen[s] \in Generator
    BY <1>0, <1>5, Subscribers, Calls DEF ToSubscription
  <2>2. gen' \in [Stream -> Generator]
    <3>1. e \in Tag \X Nat /\ Append(gen[s].queue, e) \in Seq(Tag \X Nat)
      BY <1>3, <2>1, Appended DEF Generator
    <3>2. [gen EXCEPT ![s].queue = Append(@, e)] \in [Stream -> Generator]
      BY <1>0, <2>1, <3>1 DEF Generator
    <3>3. [gen EXCEPT ![s].ended = TRUE] \in [Stream -> Generator]
      BY <1>0, <2>1 DEF Generator
    <3>4. \/ gen' = gen \/ gen' = [gen EXCEPT ![s].queue = Append(@, e)]
          \/ gen' = [gen EXCEPT ![s].ended = TRUE]
      BY <1>5 DEF ToSubscription
    <3> QED
      BY <1>0, <3>2, <3>3, <3>4
  <2>3. trap' \in [Call -> {"none", "bad", "ack"}]
    BY <1>0, <1>5, <2>1 DEF ToSubscription
  <2>4. subs' \subseteq subs /\ UNCHANGED <<answer, got, pending>>
    BY <1>5 DEF ToSubscription
  <2> QED
    BY <1>0, <1>2, <2>2, <2>3, <2>4
<1>6. CASE ToNobody
  BY <1>0, <1>2, <1>6 DEF ToNobody, NoFailure
<1> QED
  BY <1>4, <1>5, <1>6

LEMMA SayTyped ==
  ASSUME NEW t \in Tag \cup {0}, NEW n \in Nat,
         NEW what \in {"row", "empty", "trap", "interrupted", "done", "fatal", "garbage"}
  PROVE  Say(t, what, n) \in Sentence
BY DEF Say, Sentence

(* What the router puts on the link at once: a sentence, or two, or three. *)
LEMMA Appendages ==
  ASSUME NEW S, NEW q \in Seq(S), NEW a \in S, NEW b \in S, NEW c \in S
  PROVE  /\ q \o <<a, b>> = Append(Append(q, a), b)
         /\ q \o <<a, b, c>> = Append(Append(Append(q, a), b), c)
         /\ q \o <<a, b>> \in Seq(S) /\ q \o <<a, b, c>> \in Seq(S)
<1>1. <<a, b>> \in Seq(S) /\ Len(<<a, b>>) = 2 /\ <<a, b, c>> \in Seq(S) /\ Len(<<a, b, c>>) = 3
  OBVIOUS
<1>2. /\ q \o <<a, b>> \in Seq(S) /\ Len(q \o <<a, b>>) = Len(q) + 2
      /\ \A i \in 1..Len(q) : (q \o <<a, b>>)[i] = q[i]
      /\ (q \o <<a, b>>)[Len(q) + 1] = a /\ (q \o <<a, b>>)[Len(q) + 2] = b
  BY <1>1
<1>3. /\ q \o <<a, b, c>> \in Seq(S) /\ Len(q \o <<a, b, c>>) = Len(q) + 3
      /\ \A i \in 1..Len(q) : (q \o <<a, b, c>>)[i] = q[i]
      /\ (q \o <<a, b, c>>)[Len(q) + 1] = a /\ (q \o <<a, b, c>>)[Len(q) + 2] = b
      /\ (q \o <<a, b, c>>)[Len(q) + 3] = c
  BY <1>1
<1>4. q \o <<a, b>> = Append(Append(q, a), b)
  BY <1>2
<1>5. q \o <<a, b, c>> = Append(Append(Append(q, a), b), c)
  BY <1>3
<1> QED
  BY <1>2, <1>3, <1>4, <1>5

(* What the router does: it takes a request, and puts sentences of one
   command on the link, or of a cancel.                                    *)
LEMMA Requests ==
  ASSUME Typed, RouterTakes
  PROVE  /\ Len(up) \in Nat \ {0} /\ up[1] = Head(up) /\ Head(up) \in Request
         /\ up' = Tail(up) /\ up' \in Seq(Request) /\ Len(up') = Len(up) - 1
         /\ \A i \in 1..Len(up') : i + 1 \in 1..Len(up) /\ up'[i] = up[i + 1]
<1>1. up \in Seq(Request) /\ up # <<>> /\ up' = Tail(up)
  BY DEF Typed, RouterTakes
<1> QED
  BY <1>1

LEMMA TakesTyped ==
  ASSUME Typed, RouterTakes
  PROVE  down' \in Seq(Sentence) /\ up' \in Seq(Request) /\ job' \in [Tag -> Job]
<1>0. down \in Seq(Sentence) /\ job \in [Tag -> Job]
  BY DEF Typed
<1> DEFINE r == Head(up)
<1>1. r.tag \in Tag /\ r.cancels \in Tag \cup {0} /\ up' \in Seq(Request)
  BY Requests DEF Request
<1>2. CASE r.cancels = 0 /\ job' = [job EXCEPT ![r.tag].is = "runs"] /\ UNCHANGED down
  BY <1>0, <1>1, <1>2 DEF Job
<1>3. CASE r.cancels # 0 /\ job' = [job EXCEPT ![r.cancels].is = "halted"]
           /\ down' = down \o <<Say(r.cancels, "interrupted", 0), Say(r.cancels, "done", 0),
                                Say(r.tag, "done", 0)>>
  <2>1. job' \in [Tag -> Job]
    BY <1>0, <1>1, <1>3 DEF Job
  <2>2. /\ Say(r.cancels, "interrupted", 0) \in Sentence /\ Say(r.cancels, "done", 0) \in Sentence
        /\ Say(r.tag, "done", 0) \in Sentence
    BY <1>1, SayTyped
  <2>3. down' \in Seq(Sentence)
    BY <1>0, <1>3, <2>2, Appendages
  <2> QED
    BY <1>1, <2>1, <2>3
<1>4. CASE down' = Append(down, Say(r.tag, "trap", 0)) /\ UNCHANGED job
  <2>1. Say(r.tag, "trap", 0) \in Sentence
    BY <1>1, SayTyped
  <2> QED
    BY <1>0, <1>1, <1>4, <2>1, Appended
<1> QED
  BY <1>2, <1>3, <1>4 DEF RouterTakes

LEMMA EndsTyped ==
  ASSUME Typed, NEW t \in Tag, RouterEnds(t)
  PROVE  down' \in Seq(Sentence) /\ job' \in [Tag -> Job]
<1>0. down \in Seq(Sentence) /\ job \in [Tag -> Job] /\ job[t].rows + 1 \in Nat
  BY DEF Typed, Job
<1>1. job' \in [Tag -> Job]
  <2>1. [job EXCEPT ![t].is = "done", ![t].rows = @ + 1] \in [Tag -> Job]
    BY <1>0 DEF Job
  <2>2. \/ job' = [job EXCEPT ![t].is = "done", ![t].rows = @ + 1]
        \/ \E v : v \in {"done", "trap", "halted"} /\ job' = [job EXCEPT ![t].is = v]
    BY DEF RouterEnds
  <2> QED
    BY <1>0, <2>1, <2>2 DEF Job
<1>2. /\ Say(t, "done", 0) \in Sentence /\ Say(t, "done", job[t].rows + 1) \in Sentence
      /\ Say(t, "empty", 0) \in Sentence /\ Say(t, "trap", 0) \in Sentence
      /\ Say(t, "interrupted", 0) \in Sentence
  BY <1>0, SayTyped
<1>3. /\ Append(down, Say(t, "done", 0)) \in Seq(Sentence)
      /\ Append(down, Say(t, "done", job[t].rows + 1)) \in Seq(Sentence)
      /\ down \o <<Say(t, "empty", 0), Say(t, "done", 0)>> \in Seq(Sentence)
      /\ down \o <<Say(t, "trap", 0), Say(t, "done", 0)>> \in Seq(Sentence)
      /\ down \o <<Say(t, "interrupted", 0), Say(t, "done", 0)>> \in Seq(Sentence)
  BY <1>0, <1>2, Appended, Appendages
<1>4. down' \in Seq(Sentence)
  BY <1>3 DEF RouterEnds
<1> QED
  BY <1>1, <1>4

LEMMA TypedStep ==
  ASSUME Typed, Tagged, Routed, Room, [SessionNext]_sessionVars
  PROVE  Typed'
<1>0. /\ conn' \in {"dialing", "hello", "proof", "ready", "lost"}
      /\ socket' \in {"open", "shut"} /\ chunk' \in 0..Len(down')
  BY LinkTyped
<1>1. CASE Dies
  BY <1>0, <1>1, DiesTyped DEF Dies, Typed
<1>2. CASE Rests
  BY <1>0, <1>2 DEF Rests, Typed
<1>3. ASSUME NEW c \in Talk, Sends(c)
      PROVE  Typed'
  BY <1>0, <1>3, SentTyped DEF Sends, Typed
<1>4. ASSUME NEW s \in Stream,
             Listens(s) \/ Abort(s) \/ GraceExpires(s) \/ Yields(s) \/ Unwinds(s)
      PROVE  Typed'
  <2>1. UNCHANGED <<closed, down, pending, trap, job>>
    BY <1>4 DEF Listens, Abort, GraceExpires, Yields, Unwinds, Unwind
  <2> QED
    BY <1>0, <1>4, <2>1, StreamTyped DEF Typed
<1>5. CASE ToWaiter \/ ToSubscription \/ ToNobody
  <2>1. UNCHANGED <<closed, up, nextTag, tagOf, job>>
    BY <1>5 DEF ToWaiter, ToSubscription, ToNobody, Dispatch, Consume, NoFailure
  <2> QED
    BY <1>0, <1>5, <2>1, ReceivedTyped DEF Typed
<1>6. CASE RouterTakes
  <2>1. UNCHANGED RouterVars
    BY <1>6 DEF RouterTakes
  <2> QED
    BY <1>0, <1>6, <2>1, TakesTyped DEF Typed, RouterVars
<1>7. CASE RouterFails
  <2>1. Say(0, "fatal", 0) \in Sentence /\ Say(0, "garbage", 0) \in Sentence
    BY SayTyped
  <2>2. down' \in Seq(Sentence)
    <3>1. down \in Seq(Sentence)
      BY DEF Typed
    <3>2. /\ Append(down, Say(0, "fatal", 0)) \in Seq(Sentence)
          /\ Append(down, Say(0, "garbage", 0)) \in Seq(Sentence)
      BY <2>1, <3>1, Appended
    <3> QED
      BY <1>7, <3>2 DEF RouterFails
  <2> QED
    BY <1>0, <1>7, <2>2 DEF RouterFails, Typed, RouterVars
<1>8. ASSUME NEW t \in Tag, RouterRow(t)
      PROVE  Typed'
  <2>1. job[t].rows + 1 \in Nat /\ job' = [job EXCEPT ![t].rows = @ + 1]
    BY <1>8 DEF RouterRow, Typed, Job
  <2>2. job' \in [Tag -> Job]
    BY <2>1 DEF Typed, Job
  <2>3. Say(t, "row", job[t].rows + 1) \in Sentence
    BY <2>1, SayTyped
  <2>4. down' \in Seq(Sentence)
    BY <1>8, <2>3, Appended DEF RouterRow, Typed
  <2> QED
    BY <1>0, <1>8, <2>2, <2>4 DEF RouterRow, Typed, RouterVars
<1>9. ASSUME NEW t \in Tag, RouterEnds(t)
      PROVE  Typed'
  BY <1>0, <1>9, EndsTyped DEF RouterEnds, Typed, RouterVars
<1> QED
  BY <1>1, <1>2, <1>3, <1>4, <1>5, <1>6, <1>7, <1>8, <1>9, StepKinds

LEMMA RoomSame ==
  ASSUME Typed, Room, nextTag' = nextTag, Idle' \subseteq Idle, Unaborted' \subseteq Unaborted,
         Unended' \subseteq Unended
  PROVE  Room'
BY Spends

LEMMA RoomStep ==
  ASSUME Typed, Tagged, Routed, Room, [SessionNext]_sessionVars
  PROVE  Room'
<1>0. /\ answer \in [Call -> {"idle", "open", "ok", "failed", "left"}]
      /\ gen \in [Stream -> Generator] /\ Talk \subseteq Call /\ Stream \subseteq Call
      /\ \A c \in Call : c \in Talk <=> c \notin Stream
  BY Calls DEF Typed
<1>1. CASE Dies
  <2>1. nextTag' = nextTag /\ \A c \in Call : answer'[c] = "idle" => answer[c] = "idle"
    BY <1>0, <1>1 DEF Dies, FailAll
  <2>2. \A s \in Stream : answer'[s] = answer[s] /\ gen'[s].aborted = gen[s].aborted
    BY <1>0, <1>1 DEF Dies, FailAll, Generator
  <2> QED
    BY <1>0, <2>1, <2>2, RoomSame DEF Idle, Unaborted, Unended
<1>2. CASE UNCHANGED <<answer, nextTag, gen>>
  BY <1>2, RoomSame DEF Idle, Unaborted, Unended
<1>3. ASSUME NEW c \in Talk, Sends(c)
      PROVE  Room'
  <2>1. \E how : how # "idle" /\ answer' = [answer EXCEPT ![c] = how]
    BY <1>3 DEF Sends, SendTalk, Finish
  <2>2. c \in Idle \ Idle' /\ Idle' \subseteq Idle
    BY <1>0, <1>3, <2>1 DEF Sends, SendTalk, Idle
  <2>3. Unaborted' \subseteq Unaborted /\ Unended' \subseteq Unended
    BY <1>0, <1>3, <2>1 DEF Sends, Unaborted, Unended
  <2>4. nextTag' = nextTag \/ nextTag' = nextTag + 1
    BY <1>3 DEF Sends, SendTalk
  <2> QED
    BY <2>2, <2>3, <2>4, Spends
<1>4. ASSUME NEW s \in Stream, Listens(s)
      PROVE  Room'
  <2>1. \E how \in {"open", "failed", "left"} : answer' = [answer EXCEPT ![s] = how]
    BY <1>4 DEF Listens, Finish
  <2>2. s \in Idle \ Idle' /\ Idle' \subseteq Idle
    BY <1>0, <1>4, <2>1 DEF Listens, Idle
  <2>3. Unaborted' \subseteq Unaborted /\ Unended' \subseteq Unended
    BY <1>0, <1>4, <2>1 DEF Listens, Unaborted, Unended
  <2>4. nextTag' = nextTag \/ nextTag' = nextTag + 1
    BY <1>4 DEF Listens
  <2> QED
    BY <2>2, <2>3, <2>4, Spends
<1>5. ASSUME NEW s \in Stream, Abort(s)
      PROVE  Room'
  <2>1. answer' = answer /\ Idle' = Idle /\ Unended' = Unended
    BY <1>5 DEF Abort, Idle, Unended
  <2>2. s \in Unaborted \ Unaborted' /\ Unaborted' \subseteq Unaborted
    <3>1. ~gen[s].aborted /\ gen'[s].aborted
      BY <1>0, <1>5 DEF Abort, Generator
    <3>2. \A r \in Stream : r # s => gen'[r] = gen[r]
      BY <1>0, <1>5 DEF Abort
    <3> QED
      BY <3>1, <3>2 DEF Unaborted
  <2>3. nextTag' = nextTag \/ nextTag' = nextTag + 1
    BY <1>5 DEF Abort, Cancel
  <2> QED
    BY <2>1, <2>2, <2>3, Spends
<1>6. ASSUME NEW s \in Stream, GraceExpires(s) \/ Yields(s)
      PROVE  Room'
  <2>1. \A r \in Stream : gen'[r].aborted = gen[r].aborted
    <3>1. \A r \in Stream : r # s => gen'[r] = gen[r]
      BY <1>0, <1>6 DEF GraceExpires, Yields
    <3>2. gen'[s].aborted = gen[s].aborted
      BY <1>0, <1>6 DEF GraceExpires, Yields, Generator
    <3> QED
      BY <3>1, <3>2
  <2>2. UNCHANGED <<answer, nextTag>>
    BY <1>6 DEF GraceExpires, Yields
  <2> QED
    BY <2>1, <2>2, RoomSame DEF Idle, Unaborted, Unended
<1>7. ASSUME NEW s \in Stream, Unwinds(s)
      PROVE  Room'
  <2>1. answer[s] = "open" /\ gen' = gen
    BY <1>7 DEF Unwinds, Unwind
  <2>2. \E how \in {"ok", "failed", "left"} : answer' = [answer EXCEPT ![s] = how]
    BY <1>7 DEF Unwinds, Unwind, Finish
  <2>3. s \in Unended \ Unended' /\ Unended' \subseteq Unended
    BY <1>0, <2>1, <2>2 DEF Unended
  <2>4. Idle' \subseteq Idle /\ Unaborted' = Unaborted
    BY <1>0, <2>1, <2>2 DEF Idle, Unaborted
  <2>5. nextTag' = nextTag \/ nextTag' = nextTag + 1
    BY <1>7 DEF Unwinds, Unwind, Cancel
  <2> QED
    BY <2>3, <2>4, <2>5, Spends
<1>8. CASE ToWaiter
  <2> DEFINE c == Owner(Next1.tag)
  <2>1. c \in Talk /\ answer[c] = "open"
    BY <1>8, Waiters DEF ToWaiter
  <2>2. answer' = answer \/ \E how \in {"ok", "failed"} : answer' = [answer EXCEPT ![c] = how]
    BY <1>8 DEF ToWaiter, Finish
  <2>3. Idle' \subseteq Idle /\ Unended' \subseteq Unended
    BY <1>0, <2>1, <2>2 DEF Idle, Unended
  <2>4. UNCHANGED <<nextTag, gen>>
    BY <1>8 DEF ToWaiter, Dispatch
  <2> QED
    BY <2>3, <2>4, RoomSame DEF Unaborted
<1>9. CASE ToSubscription
  <2> DEFINE s == Owner(Next1.tag)
  <2>1. s \in Stream
    BY <1>9, Subscribers DEF ToSubscription
  <2>2. UNCHANGED <<answer, nextTag>>
    BY <1>9 DEF ToSubscription, Dispatch
  <2>3. \A r \in Stream : gen'[r].aborted = gen[r].aborted
    <3>1. \A r \in Stream : r # s => gen'[r] = gen[r]
      BY <1>0, <1>9, <2>1 DEF ToSubscription
    <3>2. gen'[s].aborted = gen[s].aborted
      BY <1>0, <1>9, <2>1 DEF ToSubscription, Generator
    <3> QED
      BY <3>1, <3>2
  <2> QED
    BY <2>2, <2>3, RoomSame DEF Idle, Unaborted, Unended
<1>10. CASE \/ Rests \/ ToNobody \/ RouterTakes \/ RouterFails
            \/ \E t \in Tag : RouterRow(t) \/ RouterEnds(t)
  BY <1>2, <1>10 DEF Rests, ToNobody, NoFailure, Dispatch, RouterTakes, RouterFails, RouterRow,
    RouterEnds, RouterVars
<1> QED
  BY <1>1, <1>3, <1>4, <1>5, <1>6, <1>7, <1>8, <1>9, <1>10, StepKinds

-----------------------------------------------------------------------------
(* How tags are given out, and that nobody touches an idle call.           *)
Grants(c) ==
  /\ answer[c] = "idle" /\ nextTag' = nextTag + 1
  /\ tagOf' = [tagOf EXCEPT ![c] = nextTag + 1]

LEMMA TagSteps ==
  ASSUME [SessionNext]_sessionVars
  PROVE  \/ tagOf' = tagOf /\ (nextTag' = nextTag \/ nextTag' = nextTag + 1)
         \/ \E c \in Call : Grants(c)
<1>1. CASE \/ Dies \/ Rests \/ ToWaiter \/ ToSubscription \/ ToNobody \/ RouterTakes \/ RouterFails
           \/ \E t \in Tag : RouterRow(t) \/ RouterEnds(t)
           \/ \E s \in Stream : GraceExpires(s) \/ Yields(s)
  BY <1>1 DEF Dies, Rests, ToWaiter, ToSubscription, ToNobody, Dispatch, RouterTakes,
    RouterFails, RouterRow, RouterEnds, RouterVars, GraceExpires, Yields
<1>2. ASSUME NEW c \in Talk, Sends(c)
      PROVE  UNCHANGED <<tagOf, nextTag>> \/ Grants(c)
  BY <1>2 DEF Sends, SendTalk, Grants
<1>3. ASSUME NEW s \in Stream, Listens(s)
      PROVE  UNCHANGED <<tagOf, nextTag>> \/ Grants(s)
  BY <1>3 DEF Listens, Grants
<1>4. CASE \E s \in Stream : Abort(s) \/ Unwinds(s)
  BY <1>4 DEF Abort, Unwinds, Unwind, Cancel
<1> QED
  BY <1>1, <1>2, <1>3, <1>4, StepKinds, Calls

(* What a step leaves alone, of a call it is not about.                    *)
Untouched(c) ==
  /\ answer'[c] = answer[c] /\ tagOf'[c] = tagOf[c] /\ got'[c] = got[c] /\ trap'[c] = trap[c]
  /\ c \in Stream => gen'[c] = gen[c]

LEMMA Others ==
  ASSUME Typed, Tagged, Routed, NEW c \in Call
  PROVE  /\ \A d \in Talk : Sends(d) /\ d # c => Untouched(c)
         /\ \A s \in Stream :
              s # c /\ (Listens(s) \/ Abort(s) \/ GraceExpires(s) \/ Yields(s) \/ Unwinds(s))
                => Untouched(c)
         /\ (ToWaiter \/ ToSubscription) /\ c # Owner(Next1.tag) => Untouched(c)
         /\ (Rests \/ ToNobody \/ RouterTakes \/ RouterFails) => Untouched(c)
         /\ \A t \in Tag : RouterRow(t) \/ RouterEnds(t) => Untouched(c)
<1>0. /\ answer \in [Call -> {"idle", "open", "ok", "failed", "left"}]
      /\ got \in [Call -> Seq(Tag \X Nat)] /\ tagOf \in [Call -> Tag \cup {0}]
      /\ trap \in [Call -> {"none", "bad", "ack"}] /\ gen \in [Stream -> Generator]
      /\ Talk \subseteq Call /\ Stream \subseteq Call
  BY Calls DEF Typed
<1>1. ASSUME NEW d \in Talk, Sends(d), d # c
      PROVE  Untouched(c)
  BY <1>0, <1>1 DEF Sends, SendTalk, Finish, Untouched
<1>2. ASSUME NEW s \in Stream, s # c, Listens(s)
      PROVE  Untouched(c)
  BY <1>0, <1>2 DEF Listens, Finish, Untouched
<1>3. ASSUME NEW s \in Stream, s # c, Abort(s) \/ GraceExpires(s) \/ Yields(s)
      PROVE  Untouched(c)
  BY <1>0, <1>3 DEF Abort, GraceExpires, Yields, Untouched
<1>4. ASSUME NEW s \in Stream, s # c, Unwinds(s)
      PROVE  Untouched(c)
  BY <1>0, <1>4 DEF Unwinds, Unwind, Finish, Untouched
<1>5. ASSUME ToWaiter, c # Owner(Next1.tag)
      PROVE  Untouched(c)
  BY <1>0, <1>5 DEF ToWaiter, Dispatch, Finish, Untouched
<1>6. ASSUME ToSubscription, c # Owner(Next1.tag)
      PROVE  Untouched(c)
  BY <1>0, <1>6 DEF ToSubscription, Dispatch, Untouched
<1>7. ASSUME \/ Rests \/ ToNobody \/ RouterTakes \/ RouterFails
             \/ \E t \in Tag : RouterRow(t) \/ RouterEnds(t)
      PROVE  Untouched(c)
  BY <1>7 DEF Rests, ToNobody, NoFailure, Dispatch, RouterTakes, RouterFails, RouterRow,
    RouterEnds, RouterVars, Untouched
<1> QED
  BY <1>1, <1>2, <1>3, <1>4, <1>5, <1>6, <1>7

LEMMA IdleKept ==
  ASSUME Typed, Tagged, Routed, [SessionNext]_sessionVars, NEW c \in Call, answer'[c] = "idle"
  PROVE  \/ Untouched(c)
         \/ /\ c \in Stream /\ answer'[c] = answer[c] /\ tagOf'[c] = tagOf[c]
            /\ got'[c] = got[c] /\ trap'[c] = trap[c]
            /\ gen'[c] = [gen[c] EXCEPT !.aborted = TRUE]
<1>0. /\ answer \in [Call -> {"idle", "open", "ok", "failed", "left"}]
      /\ gen \in [Stream -> Generator] /\ Talk \subseteq Call /\ Stream \subseteq Call
  BY Calls DEF Typed
<1>1. CASE Dies
  <2>1. answer[c] = "idle"
    BY <1>0, <1>1 DEF Dies, FailAll
  <2>2. tagOf[c] = 0 /\ 0 \notin subs
    BY <2>1, Calls DEF Tagged, Typed
  <2> QED
    BY <1>0, <1>1, <2>1, <2>2 DEF Dies, FailAll, Untouched
<1>2. ASSUME NEW d \in Talk, Sends(d)
      PROVE  Untouched(c)
  <2>1. c # d
    BY <1>0, <1>2 DEF Sends, SendTalk, Finish
  <2> QED
    BY <1>2, <2>1, Others
<1>3. ASSUME NEW s \in Stream, Listens(s) \/ Unwinds(s)
      PROVE  Untouched(c)
  <2>1. c # s
    BY <1>0, <1>3 DEF Listens, Unwinds, Unwind, Finish
  <2> QED
    BY <1>3, <2>1, Others
<1>4. ASSUME NEW s \in Stream, GraceExpires(s) \/ Yields(s)
      PROVE  Untouched(c)
  <2>1. c # s
    BY <1>0, <1>4 DEF GraceExpires, Yields
  <2> QED
    BY <1>4, <2>1, Others
<1>5. ASSUME NEW s \in Stream, Abort(s), c = s
      PROVE  /\ answer'[c] = answer[c] /\ tagOf'[c] = tagOf[c]
             /\ got'[c] = got[c] /\ trap'[c] = trap[c]
             /\ gen'[c] = [gen[c] EXCEPT !.aborted = TRUE]
  BY <1>0, <1>5 DEF Abort
<1>6. CASE ToWaiter \/ ToSubscription
  <2>1. CASE c = Owner(Next1.tag)
    <3>1. CASE ToWaiter
      <4>1. answer' = answer \/ \E how \in {"ok", "failed"} : answer' = [answer EXCEPT ![c] = how]
        BY <2>1, <3>1 DEF ToWaiter, Finish
      <4>2. answer[c] = "open"
        BY <2>1, <3>1, Waiters DEF ToWaiter
      <4> QED
        BY <1>0, <4>1, <4>2
    <3>2. CASE ToSubscription
      BY <2>1, <3>2, Subscribers DEF ToSubscription
    <3> QED
      BY <1>6, <3>1, <3>2
  <2> QED
    BY <1>6, <2>1, Others
<1> QED
  BY <1>1, <1>2, <1>3, <1>4, <1>5, <1>6, StepKinds, Others

LEMMA OpenSteps ==
  ASSUME Typed, Tagged, Routed, [SessionNext]_sessionVars, NEW c \in Call
  PROVE  /\ answer'[c] = "open" =>
              \/ answer[c] = "open" /\ tagOf'[c] = tagOf[c]
              \/ Grants(c)
         /\ answer[c] # "idle" => tagOf'[c] = tagOf[c] /\ answer'[c] # "idle"
<1>0. /\ answer \in [Call -> {"idle", "open", "ok", "failed", "left"}]
      /\ gen \in [Stream -> Generator] /\ Talk \subseteq Call /\ Stream \subseteq Call
      /\ tagOf \in [Call -> Tag \cup {0}]
  BY Calls DEF Typed
<1>1. answer[c] # "idle" => tagOf'[c] = tagOf[c] /\ answer'[c] # "idle"
  <2>1. answer'[c] = "idle" => answer[c] = "idle"
    BY IdleKept DEF Untouched
  <2>2. answer[c] # "idle" => tagOf'[c] = tagOf[c]
    BY <1>0, TagSteps DEF Grants
  <2> QED
    BY <2>1, <2>2
<1>2. ASSUME answer'[c] = "open", answer[c] # "open"
      PROVE  Grants(c)
  <2>1. CASE Dies
    BY <1>0, <1>2, <2>1 DEF Dies, FailAll
  <2>2. ASSUME NEW d \in Talk, Sends(d)
        PROVE  Grants(c)
    <3>1. c = d
      BY <1>2, <2>2, Others DEF Untouched
    <3> QED
      BY <1>0, <1>2, <2>2, <3>1 DEF Sends, SendTalk, Finish, Grants
  <2>3. ASSUME NEW s \in Stream, Listens(s)
        PROVE  Grants(c)
    <3>1. c = s
      BY <1>2, <2>3, Others DEF Untouched
    <3> QED
      BY <1>0, <1>2, <2>3, <3>1 DEF Listens, Finish, Grants
  <2>4. ASSUME NEW s \in Stream, Abort(s) \/ GraceExpires(s) \/ Yields(s)
        PROVE  FALSE
    BY <1>2, <2>4 DEF Abort, GraceExpires, Yields
  <2>5. ASSUME NEW s \in Stream, Unwinds(s)
        PROVE  FALSE
    <3>1. \E how \in {"ok", "failed", "left"} : answer' = [answer EXCEPT ![s] = how]
      BY <2>5 DEF Unwinds, Unwind, Finish
    <3> QED
      BY <1>0, <1>2, <3>1
  <2>6. CASE ToWaiter
    <3>1. answer' = answer \/ \E how \in {"ok", "failed"} :
            answer' = [answer EXCEPT ![Owner(Next1.tag)] = how]
      BY <2>6 DEF ToWaiter, Finish
    <3> QED
      BY <1>0, <1>2, <3>1
  <2>7. CASE ToSubscription
    BY <1>2, <2>7 DEF ToSubscription
  <2>8. CASE \/ Rests \/ ToNobody \/ RouterTakes \/ RouterFails
             \/ \E t \in Tag : RouterRow(t) \/ RouterEnds(t)
    BY <1>2, <2>8, Others DEF Untouched
  <2> QED
    BY <2>1, <2>2, <2>3, <2>4, <2>5, <2>6, <2>7, <2>8, StepKinds
<1> QED
  BY <1>1, <1>2, IdleKept, <1>0

LEMMA TaggedStep ==
  ASSUME Typed, Typed', Tagged, Routed, [SessionNext]_sessionVars
  PROVE  Tagged'
<1>0. nextTag \in Nat /\ tagOf \in [Call -> Tag \cup {0}]
  BY DEF Typed
<1>1. \A c \in Call : tagOf'[c] <= nextTag'
  BY <1>0, TagSteps, Calls DEF Tagged, Grants
<1>2. ASSUME NEW c \in Call, NEW d \in Call, tagOf'[c] # 0, tagOf'[c] = tagOf'[d]
      PROVE  c = d
  <2>1. CASE tagOf' = tagOf
    BY <1>2, <2>1 DEF Tagged
  <2>2. ASSUME NEW e \in Call, Grants(e)
        PROVE  c = d
    <3>1. tagOf' = [tagOf EXCEPT ![e] = nextTag + 1]
      BY <2>2 DEF Grants
    <3>2. tagOf[c] < nextTag + 1 /\ tagOf[d] < nextTag + 1
      BY <1>0, Calls DEF Tagged
    <3> QED
      BY <1>0, <1>2, <3>1, <3>2 DEF Tagged
  <2> QED
    BY <2>1, <2>2, TagSteps
<1>3. \A c \in Call : answer'[c] = "idle" => tagOf'[c] = 0 /\ got'[c] = <<>> /\ trap'[c] = "none"
  BY IdleKept DEF Tagged, Untouched
<1>4. \A c \in Call : answer'[c] = "open" => tagOf'[c] # 0
  BY <1>0, OpenSteps DEF Tagged, Grants
<1>5. ASSUME NEW s \in Stream, answer'[s] = "idle"
      PROVE  /\ gen'[s].queue = <<>> /\ gen'[s].batch = <<>>
             /\ ~gen'[s].ended /\ ~gen'[s].failure /\ gen'[s].grace = "off"
  <2>1. s \in Call /\ gen[s] \in Generator
    BY Calls DEF Typed
  <2>2. gen'[s] = gen[s] \/ gen'[s] = [gen[s] EXCEPT !.aborted = TRUE]
    BY <1>5, <2>1, IdleKept DEF Untouched
  <2>3. answer[s] = "idle"
    BY <1>5, <2>1, IdleKept DEF Untouched
  <2> QED
    BY <2>1, <2>2, <2>3 DEF Tagged, Generator
<1> QED
  BY <1>1, <1>2, <1>3, <1>4, <1>5 DEF Tagged

-----------------------------------------------------------------------------
(* Waiters and subscriptions.                                              *)
LEMMA RoutedSame ==
  ASSUME Routed, UNCHANGED <<pending, subs, closed>>,
         \A c \in Talk : answer'[c] = answer[c] /\ tagOf'[c] = tagOf[c],
         \A s \in Stream : /\ answer'[s] = answer[s] /\ tagOf'[s] = tagOf[s]
                           /\ gen'[s].ended = gen[s].ended /\ gen'[s].failure = gen[s].failure
                           /\ gen'[s].grace # "off" => gen'[s].aborted
                           /\ gen'[s].grace = "spent" => gen'[s].ended,
         closed' => up' = <<>> /\ down' = <<>>
  PROVE  Routed'
BY DEF Routed

LEMMA RoutedDies ==
  ASSUME Typed, Tagged, Routed, Dies
  PROVE  Routed'
<1>0. /\ answer \in [Call -> {"idle", "open", "ok", "failed", "left"}]
      /\ gen \in [Stream -> Generator] /\ Talk \subseteq Call /\ Stream \subseteq Call
      /\ \A c \in Call : c \in Talk <=> c \notin Stream
  BY Calls DEF Typed
<1>1. /\ pending' = {} /\ subs' = {} /\ up' = <<>> /\ down' = <<>> /\ closed' = TRUE
      /\ tagOf' = tagOf
  BY DEF Dies, FailAll
<1>2. \A c \in Talk : answer'[c] # "open"
  BY <1>0 DEF Dies, FailAll, Routed
<1>3. ASSUME NEW s \in Stream
      PROVE  /\ answer'[s] = "open" => gen'[s].ended
             /\ gen'[s].failure => gen'[s].ended /\ closed'
             /\ gen'[s].grace # "off" => gen'[s].aborted
             /\ gen'[s].grace = "spent" => gen'[s].ended
  <2>1. answer'[s] = answer[s] /\ gen[s] \in Generator
    BY <1>0 DEF Dies, FailAll
  <2>2. CASE tagOf[s] \in subs
    <3>1. gen'[s] = [gen[s] EXCEPT !.failure = TRUE, !.ended = TRUE]
      BY <1>0, <2>2 DEF Dies, FailAll
    <3>2. gen'[s].ended /\ gen'[s].grace = gen[s].grace /\ gen'[s].aborted = gen[s].aborted
      BY <2>1, <3>1 DEF Generator
    <3> QED
      BY <1>1, <3>2 DEF Routed
  <2>3. CASE tagOf[s] \notin subs
    <3>1. gen'[s] = gen[s]
      BY <1>0, <2>3 DEF Dies, FailAll
    <3> QED
      BY <1>1, <2>1, <2>3, <3>1 DEF Routed
  <2> QED
    BY <2>2, <2>3
<1> QED
  BY <1>1, <1>2, <1>3 DEF Routed

LEMMA RoutedSends ==
  ASSUME Typed, Tagged, Tagged', Routed, NEW d \in Talk, Sends(d)
  PROVE  Routed'
<1>0. /\ answer \in [Call -> {"idle", "open", "ok", "failed", "left"}]
      /\ tagOf \in [Call -> Tag \cup {0}] /\ Talk \subseteq Call /\ Stream \subseteq Call
      /\ \A c \in Call : c \in Talk <=> c \notin Stream
  BY Calls DEF Typed
<1>1. answer[d] = "idle" /\ UNCHANGED <<closed, subs, gen, down>>
  BY DEF Sends, SendTalk
<1>2. \A c \in Call : c # d => answer'[c] = answer[c] /\ tagOf'[c] = tagOf[c]
  BY Others DEF Untouched
<1>3. CASE pending' = pending /\ answer'[d] = "failed" /\ up' = up
  BY <1>0, <1>1, <1>2, <1>3 DEF Routed
<1>4. CASE /\ ~closed /\ answer'[d] = "open" /\ tagOf'[d] = nextTag + 1
           /\ pending' = pending \cup {nextTag + 1}
  BY <1>0, <1>1, <1>2, <1>4 DEF Routed
<1>5. \/ pending' = pending /\ answer'[d] = "failed" /\ up' = up
      \/ /\ ~closed /\ answer'[d] = "open" /\ tagOf'[d] = nextTag + 1
         /\ pending' = pending \cup {nextTag + 1}
  BY <1>0 DEF Sends, SendTalk, Finish
<1> QED
  BY <1>3, <1>4, <1>5

LEMMA RoutedListens ==
  ASSUME Typed, Tagged, Tagged', Routed, NEW s \in Stream, Listens(s)
  PROVE  Routed'
<1>0. /\ answer \in [Call -> {"idle", "open", "ok", "failed", "left"}]
      /\ tagOf \in [Call -> Tag \cup {0}] /\ Talk \subseteq Call /\ Stream \subseteq Call
      /\ \A c \in Call : c \in Talk <=> c \notin Stream
      /\ subs \subseteq Tag
  BY Calls DEF Typed
<1>1. answer[s] = "idle" /\ UNCHANGED <<closed, pending, gen, down>>
  BY DEF Listens
<1>2. \A c \in Call : c # s => answer'[c] = answer[c] /\ tagOf'[c] = tagOf[c]
  BY Others DEF Untouched
<1>3. CASE subs' = subs /\ answer'[s] \in {"failed", "left"} /\ up' = up
  BY <1>0, <1>1, <1>2, <1>3 DEF Routed
<1>4. CASE /\ ~closed /\ answer'[s] = "open" /\ tagOf'[s] = nextTag + 1
           /\ subs' = subs \cup {nextTag + 1}
  <2>1. ~gen[s].ended
    BY <1>1 DEF Tagged
  <2>2. \A r \in Stream : answer[r] = "open" => tagOf[r] # nextTag + 1
    BY <1>0, <1>1, <1>2, <1>4 DEF Tagged
  <2> QED
    BY <1>0, <1>1, <1>2, <1>4, <2>1, <2>2 DEF Routed
<1>5. \/ subs' = subs /\ answer'[s] \in {"failed", "left"} /\ up' = up
      \/ /\ ~closed /\ answer'[s] = "open" /\ tagOf'[s] = nextTag + 1
         /\ subs' = subs \cup {nextTag + 1}
  BY <1>0 DEF Listens, Finish
<1> QED
  BY <1>3, <1>4, <1>5

LEMMA RoutedGivesUp ==
  ASSUME Typed, Tagged, Routed, NEW s \in Stream, Abort(s) \/ GraceExpires(s)
  PROVE  Routed'
<1>0. /\ gen \in [Stream -> Generator] /\ gen[s] \in Generator
      /\ Talk \subseteq Call /\ Stream \subseteq Call
  BY Calls DEF Typed
<1>1. UNCHANGED <<answer, tagOf, pending, closed, down>>
  BY DEF Abort, GraceExpires
<1>2. \A r \in Stream : r # s => gen'[r] = gen[r]
  BY <1>0 DEF Abort, GraceExpires
<1>3. CASE Abort(s)
  <2>1. /\ gen'[s].ended = gen[s].ended /\ gen'[s].failure = gen[s].failure /\ gen'[s].aborted
        /\ gen'[s].grace # "spent" \/ gen'[s].grace = gen[s].grace
    BY <1>0, <1>3 DEF Abort, Generator
  <2>2. subs' = subs /\ (closed => up' = up)
    BY <1>3 DEF Abort, Cancel
  <2> QED
    BY <1>1, <1>2, <2>1, <2>2, RoutedSame DEF Routed
<1>4. CASE GraceExpires(s) /\ gen[s].ended
  <2>1. /\ gen'[s].ended = gen[s].ended /\ gen'[s].failure = gen[s].failure
        /\ gen'[s].grace = "off"
    <3>1. gen' = [gen EXCEPT ![s].grace = "off"]
      BY <1>4 DEF GraceExpires
    <3> QED
      BY <1>0, <3>1 DEF Generator
  <2>2. subs' = subs /\ up' = up
    BY <1>4 DEF GraceExpires
  <2> QED
    BY <1>1, <1>2, <2>1, <2>2, RoutedSame DEF Routed
<1>5. CASE GraceExpires(s) /\ ~gen[s].ended
  <2>1. /\ gen'[s].ended /\ gen'[s].failure = gen[s].failure
        /\ gen'[s].aborted = gen[s].aborted /\ gen[s].grace = "armed" /\ answer[s] = "open"
    BY <1>0, <1>5 DEF GraceExpires, Generator
  <2>2. subs' = subs \ {tagOf[s]} /\ up' = up
    BY <1>5 DEF GraceExpires
  <2>3. \A r \in Stream : answer[r] = "open" /\ r # s => tagOf[r] # tagOf[s]
    BY <1>0, <2>1 DEF Tagged
  <2>4. ASSUME NEW r \in Stream
        PROVE  /\ answer'[r] = "open" => (tagOf'[r] \in subs' <=> ~gen'[r].ended)
               /\ gen'[r].failure => gen'[r].ended /\ closed'
               /\ gen'[r].grace # "off" => gen'[r].aborted
               /\ gen'[r].grace = "spent" => gen'[r].ended
    BY <1>1, <1>2, <2>1, <2>2, <2>3 DEF Routed
  <2>5. \A t \in subs' : \E r \in Stream : answer'[r] = "open" /\ tagOf'[r] = t
    BY <1>1, <2>2 DEF Routed
  <2> QED
    BY <1>1, <2>2, <2>4, <2>5 DEF Routed
<1> QED
  BY <1>3, <1>4, <1>5

LEMMA RoutedUnwinds ==
  ASSUME Typed, Tagged, Routed, NEW s \in Stream, Unwinds(s)
  PROVE  Routed'
<1>0. /\ answer \in [Call -> {"idle", "open", "ok", "failed", "left"}]
      /\ Talk \subseteq Call /\ Stream \subseteq Call
      /\ \A c \in Call : c \in Talk <=> c \notin Stream
  BY Calls DEF Typed
<1>1. /\ UNCHANGED <<tagOf, pending, closed, gen, down>> /\ subs' = subs \ {tagOf[s]}
      /\ closed => up' = up
  BY DEF Unwinds, Unwind, Cancel
<1>2. \A r \in Call : r # s => answer'[r] = answer[r]
  BY Others DEF Untouched
<1>3. answer'[s] # "open" /\ answer[s] = "open"
  BY <1>0 DEF Unwinds, Unwind, Finish
<1>4. \A r \in Stream : answer[r] = "open" /\ r # s => tagOf[r] # tagOf[s]
  BY <1>0, <1>3 DEF Tagged
<1> QED
  BY <1>0, <1>1, <1>2, <1>3, <1>4 DEF Routed

LEMMA RoutedReceives ==
  ASSUME Typed, Tagged, Routed, ToWaiter \/ ToSubscription \/ ToNobody
  PROVE  Routed'
<1>0. /\ answer \in [Call -> {"idle", "open", "ok", "failed", "left"}]
      /\ gen \in [Stream -> Generator] /\ Talk \subseteq Call /\ Stream \subseteq Call
      /\ \A c \in Call : c \in Talk <=> c \notin Stream
  BY Calls DEF Typed
<1> DEFINE c == Owner(Next1.tag)
<1>1. UNCHANGED <<tagOf, up, closed>> /\ ~closed
  <2>1. UNCHANGED <<tagOf, up, closed>>
    BY DEF ToWaiter, ToSubscription, ToNobody, Dispatch, Consume, NoFailure
  <2>2. Len(down) # 0
    BY Heads DEF ToWaiter, ToSubscription, ToNobody
  <2>3. Len(<<>>) = 0
    OBVIOUS
  <2> QED
    BY <2>1, <2>2, <2>3 DEF Routed
<1>2. CASE ToNobody \/ (ToWaiter /\ UNCHANGED <<answer, pending>>)
           \/ (ToSubscription /\ UNCHANGED <<subs, gen>>)
  <2>1. UNCHANGED <<answer, pending, subs, gen>>
    BY <1>2 DEF ToNobody, NoFailure, ToWaiter, ToSubscription
  <2> QED
    BY <1>1, <2>1 DEF Routed
<1>3. CASE ToWaiter /\ pending' = pending \ {Next1.tag}
           /\ \E how \in {"ok", "failed"} : answer' = [answer EXCEPT ![c] = how]
  <2>1. c \in Talk /\ answer[c] = "open" /\ tagOf[c] = Next1.tag
    BY <1>3, Waiters DEF ToWaiter
  <2>2. UNCHANGED <<gen, subs>>
    BY <1>3 DEF ToWaiter
  <2>3. \A d \in Call : d # c => answer'[d] = answer[d]
    BY <1>0, <1>3
  <2>4. answer'[c] # "open"
    BY <1>0, <1>3, <2>1
  <2>5. \A d \in Call : answer[d] = "open" /\ d # c => tagOf[d] # tagOf[c]
    BY <1>0, <2>1 DEF Tagged
  <2> QED
    BY <1>0, <1>1, <1>3, <2>1, <2>2, <2>3, <2>4, <2>5 DEF Routed
<1>4. CASE ToSubscription /\ subs' = subs \ {Next1.tag} /\ gen' = [gen EXCEPT ![c].ended = TRUE]
  <2>1. c \in Stream /\ answer[c] = "open" /\ tagOf[c] = Next1.tag
    BY <1>4, Subscribers DEF ToSubscription
  <2>2. UNCHANGED <<answer, pending>>
    BY <1>4 DEF ToSubscription
  <2>3. \A r \in Stream : r # c => gen'[r] = gen[r]
    BY <1>0, <1>4
  <2>4. /\ gen'[c].ended /\ gen'[c].failure = gen[c].failure
        /\ gen'[c].grace = gen[c].grace /\ gen'[c].aborted = gen[c].aborted
    BY <1>0, <1>4, <2>1 DEF Generator
  <2>5. \A r \in Stream : answer[r] = "open" /\ r # c => tagOf[r] # tagOf[c]
    BY <1>0, <2>1 DEF Tagged
  <2>6. ASSUME NEW r \in Stream
        PROVE  /\ answer'[r] = "open" => (tagOf'[r] \in subs' <=> ~gen'[r].ended)
               /\ gen'[r].failure => gen'[r].ended /\ closed'
               /\ gen'[r].grace # "off" => gen'[r].aborted
               /\ gen'[r].grace = "spent" => gen'[r].ended
    BY <1>1, <1>4, <2>1, <2>2, <2>3, <2>4, <2>5 DEF Routed
  <2>7. \A t \in subs' : \E r \in Stream : answer'[r] = "open" /\ tagOf'[r] = t
    BY <1>1, <1>4, <2>1, <2>2 DEF Routed
  <2> QED
    BY <1>1, <2>2, <2>6, <2>7 DEF Routed
<1>5. CASE ToSubscription /\ subs' = subs
           /\ gen' = [gen EXCEPT ![c].queue = Append(@, <<Next1.tag, Next1.n>>)]
  <2>1. c \in Stream
    BY <1>5, Subscribers DEF ToSubscription
  <2>2. UNCHANGED <<answer, pending>>
    BY <1>5 DEF ToSubscription
  <2>3. ASSUME NEW r \in Stream
        PROVE  /\ gen'[r].ended = gen[r].ended /\ gen'[r].failure = gen[r].failure
               /\ gen'[r].grace = gen[r].grace /\ gen'[r].aborted = gen[r].aborted
    BY <1>0, <1>5, <2>1 DEF Generator
  <2> QED
    BY <1>1, <1>5, <2>2, <2>3 DEF Routed
<1>6. ASSUME ToWaiter
      PROVE  \/ UNCHANGED <<answer, pending>>
             \/ /\ pending' = pending \ {Next1.tag}
                /\ \E how \in {"ok", "failed"} : answer' = [answer EXCEPT ![c] = how]
  BY <1>6 DEF ToWaiter, Finish
<1>7. ASSUME ToSubscription
      PROVE  \/ UNCHANGED <<subs, gen>>
             \/ subs' = subs \ {Next1.tag} /\ gen' = [gen EXCEPT ![c].ended = TRUE]
             \/ subs' = subs /\ gen' = [gen EXCEPT ![c].queue = Append(@, <<Next1.tag, Next1.n>>)]
  BY <1>7 DEF ToSubscription
<1> QED
  BY <1>2, <1>3, <1>4, <1>5, <1>6, <1>7

LEMMA RoutedStep ==
  ASSUME Typed, Tagged, Tagged', Routed, [SessionNext]_sessionVars
  PROVE  Routed'
<1>1. CASE Rests
  BY <1>1 DEF Rests, Routed
<1>2. ASSUME NEW s \in Stream, Yields(s)
      PROVE  Routed'
  <2>1. gen \in [Stream -> Generator]
    BY DEF Typed
  <2>2. UNCHANGED <<answer, tagOf, pending, subs, closed, up, down>>
    BY <1>2 DEF Yields
  <2>3. ASSUME NEW r \in Stream
        PROVE  /\ gen'[r].ended = gen[r].ended /\ gen'[r].failure = gen[r].failure
               /\ gen'[r].grace = gen[r].grace /\ gen'[r].aborted = gen[r].aborted
    <3>1. CASE r = s
      BY <1>2, <2>1, <3>1 DEF Yields, Generator
    <3>2. CASE r # s
      BY <1>2, <2>1, <3>2 DEF Yields
    <3> QED
      BY <3>1, <3>2
  <2> QED
    BY <2>2, <2>3 DEF Routed
<1>3. CASE RouterTakes \/ RouterFails \/ \E t \in Tag : RouterRow(t) \/ RouterEnds(t)
  <2>1. ~closed /\ UNCHANGED RouterVars
    BY <1>3 DEF RouterTakes, RouterFails, RouterRow, RouterEnds, Speaks
  <2> QED
    BY <2>1 DEF RouterVars, Routed
<1> QED
  BY <1>1, <1>2, <1>3, RoutedDies, RoutedSends, RoutedListens, RoutedGivesUp, RoutedUnwinds,
    RoutedReceives, StepKinds

-----------------------------------------------------------------------------
(* Requests and the router's work.                                         *)
LEMMA OwnedTags ==
  ASSUME Typed, Tagged
  PROVE  /\ \A t \in Owned : t \in Tag /\ t <= nextTag
         /\ \A t \in Streamed : t \in Owned
         /\ \A c \in Call : tagOf[c] # 0 => tagOf[c] \in Owned
         /\ \A s \in Stream : tagOf[s] # 0 => tagOf[s] \in Streamed
         /\ \A c \in Talk : tagOf[c] \notin Streamed
         /\ nextTag + 1 \notin Owned
<1>0. /\ tagOf \in [Call -> Tag \cup {0}] /\ nextTag \in Nat
      /\ Talk \subseteq Call /\ Stream \subseteq Call
      /\ \A c \in Call : c \in Talk <=> c \notin Stream
  BY Calls DEF Typed
<1>1. \A t \in Owned : t \in Tag /\ t <= nextTag
  BY <1>0 DEF Owned, Tagged
<1>2. ASSUME NEW c \in Talk, tagOf[c] \in Streamed
      PROVE  FALSE
  <2>1. PICK s \in Stream : tagOf[s] = tagOf[c] /\ tagOf[c] # 0
    BY <1>2 DEF Streamed
  <2> QED
    BY <1>0, <2>1 DEF Tagged
<1>3. nextTag + 1 \notin Owned
  BY <1>0, <1>1
<1> QED
  BY <1>0, <1>1, <1>2, <1>3 DEF Owned, Streamed

LEMMA OwnedSteps ==
  ASSUME Typed, Tagged, [SessionNext]_sessionVars
  PROVE  /\ nextTag' \in Nat /\ nextTag <= nextTag'
         /\ \A t \in Nat : t <= nextTag => (t \in Owned' <=> t \in Owned)
                                           /\ (t \in Streamed' <=> t \in Streamed)
         /\ Owned \subseteq Owned' /\ Streamed \subseteq Streamed'
         /\ \A c \in Call : Grants(c) => nextTag + 1 \in Owned'
         /\ tagOf' = tagOf => Owned' = Owned /\ Streamed' = Streamed
<1>0. /\ tagOf \in [Call -> Tag \cup {0}] /\ nextTag \in Nat /\ Stream \subseteq Call
      /\ nextTag + 1 \in Nat
  BY Calls DEF Typed
<1>1. tagOf' = tagOf => Owned' = Owned /\ Streamed' = Streamed
  BY DEF Owned, Streamed
<1>2. CASE tagOf' = tagOf /\ (nextTag' = nextTag \/ nextTag' = nextTag + 1)
  <2>1. \A c \in Call : ~Grants(c) \/ nextTag + 1 \in Owned'
    <3>1. ASSUME NEW c \in Call, Grants(c)
          PROVE  FALSE
      <4>1. tagOf[c] = nextTag + 1
        BY <1>0, <1>2, <3>1 DEF Grants
      <4> QED
        BY <1>0, <4>1 DEF Tagged
    <3> QED
      BY <3>1
  <2> QED
    BY <1>0, <1>1, <1>2, <2>1
<1>3. ASSUME NEW c \in Call, Grants(c)
      PROVE  /\ nextTag' \in Nat /\ nextTag <= nextTag'
             /\ \A t \in Nat : t <= nextTag => (t \in Owned' <=> t \in Owned)
                                               /\ (t \in Streamed' <=> t \in Streamed)
             /\ Owned \subseteq Owned' /\ Streamed \subseteq Streamed'
             /\ nextTag + 1 \in Owned'
  <2>1. /\ tagOf[c] = 0 /\ nextTag' = nextTag + 1 /\ tagOf'[c] = nextTag + 1
        /\ \A d \in Call : d # c => tagOf'[d] = tagOf[d]
    BY <1>0, <1>3 DEF Grants, Tagged
  <2> QED
    BY <1>0, <2>1 DEF Owned, Streamed
<1> QED
  BY <1>1, <1>2, <1>3, TagSteps

Requested(t, of) == up' = Append(up, [tag |-> t, cancels |-> of])

LEMMA UpSteps ==
  ASSUME Typed, Tagged, Routed, [SessionNext]_sessionVars
  PROVE  \/ up' = up \/ up' = <<>> \/ RouterTakes
         \/ \E c \in Call : Grants(c) /\ Requested(nextTag + 1, 0) /\ job' = job
         \/ \E s \in Stream : /\ nextTag' = nextTag + 1 /\ tagOf' = tagOf /\ tagOf[s] # 0
                              /\ Requested(nextTag + 1, tagOf[s]) /\ job' = job
<1>1. CASE Dies
  BY <1>1 DEF Dies, FailAll
<1>2. ASSUME NEW d \in Talk, Sends(d)
      PROVE  up' = up \/ (Grants(d) /\ Requested(nextTag + 1, 0) /\ job' = job)
  BY <1>2 DEF Sends, SendTalk, Grants, Requested
<1>3. ASSUME NEW s \in Stream, Listens(s)
      PROVE  up' = up \/ (Grants(s) /\ Requested(nextTag + 1, 0) /\ job' = job)
  BY <1>3 DEF Listens, Grants, Requested
<1>4. ASSUME NEW s \in Stream, Abort(s) \/ Unwinds(s)
      PROVE  \/ up' = up
             \/ /\ nextTag' = nextTag + 1 /\ tagOf' = tagOf /\ tagOf[s] # 0
                /\ Requested(nextTag + 1, tagOf[s]) /\ job' = job
  <2>1. answer[s] = "open" => tagOf[s] # 0
    BY Calls DEF Tagged
  <2> QED
    BY <1>4, <2>1 DEF Abort, Unwinds, Unwind, Cancel, Requested
<1>5. CASE \/ Rests \/ ToWaiter \/ ToSubscription \/ ToNobody \/ RouterFails
           \/ \E t \in Tag : RouterRow(t) \/ RouterEnds(t)
           \/ \E s \in Stream : GraceExpires(s) \/ Yields(s)
  BY <1>5 DEF Rests, ToWaiter, ToSubscription, ToNobody, Consume, RouterFails, RouterRow,
    RouterEnds, GraceExpires, Yields
<1> QED
  BY <1>1, <1>2, <1>3, <1>4, <1>5, StepKinds, Calls

Begun(t) ==
  /\ RouterTakes /\ Head(up).cancels = 0 /\ Head(up).tag = t
  /\ job[t].is = "none" /\ job'[t].is = "runs" /\ job'[t].rows = job[t].rows

Halts(t) ==
  /\ RouterTakes /\ Head(up).cancels = t /\ t \in Streamed
  /\ job[t].is = "runs" /\ job'[t].is = "halted" /\ job'[t].rows = job[t].rows

Serves(t) ==
  RouterRow(t) /\ job[t].is = "runs" /\ job'[t].is = "runs" /\ job'[t].rows = job[t].rows + 1

Concludes(t) ==
  /\ RouterEnds(t) /\ job[t].is = "runs"
  /\ job'[t].is = "done" \/ job'[t].is = "trap" \/ (job'[t].is = "halted" /\ t \in Streamed)
  /\ job'[t].rows = job[t].rows \/ (job'[t].rows = job[t].rows + 1 /\ job'[t].is = "done")

LEMMA JobSteps ==
  ASSUME Typed, Tagged, Underway, [SessionNext]_sessionVars, NEW t \in Tag
  PROVE  job'[t] = job[t] \/ Begun(t) \/ Halts(t) \/ Serves(t) \/ Concludes(t)
<1>0. job \in [Tag -> Job]
  BY DEF Typed
<1>1. CASE \/ Dies \/ Rests \/ (\E c \in Talk : Sends(c))
           \/ (\E s \in Stream : Listens(s) \/ Abort(s) \/ GraceExpires(s) \/ Yields(s) \/ Unwinds(s))
           \/ ToWaiter \/ ToSubscription \/ ToNobody \/ RouterFails
  <2>1. job' = job
    BY <1>1 DEF Dies, Rests, Sends, Listens, Abort, GraceExpires, Yields, Unwinds, Unwind,
      ToWaiter, ToSubscription, ToNobody, Dispatch, RouterFails
  <2> QED
    BY <2>1
<1>2. CASE RouterTakes
  <2>0. /\ Len(up) \in Nat \ {0} /\ up[1] = Head(up) /\ Head(up).tag \in Tag
        /\ Head(up).cancels \in Tag \cup {0} /\ 1 \in 1..Len(up)
    BY <1>2, Requests DEF Request
  <2>1. CASE Head(up).cancels = 0 /\ job' = [job EXCEPT ![Head(up).tag].is = "runs"]
    <3>1. job[Head(up).tag].is = "none"
      BY <2>0, <2>1 DEF Underway
    <3> QED
      BY <1>0, <1>2, <2>0, <2>1, <3>1 DEF Begun, Job
  <2>2. CASE /\ Head(up).cancels # 0 /\ job[Head(up).cancels].is = "runs"
             /\ job' = [job EXCEPT ![Head(up).cancels].is = "halted"]
    <3>1. Head(up).cancels \in Streamed
      BY <2>0, <2>2 DEF Underway
    <3> QED
      BY <1>0, <1>2, <2>0, <2>2, <3>1 DEF Halts, Job
  <2>3. CASE job' = job
    BY <2>3
  <2> QED
    BY <1>2, <2>1, <2>2, <2>3 DEF RouterTakes
<1>3. ASSUME NEW u \in Tag, RouterRow(u)
      PROVE  job'[t] = job[t] \/ Serves(t)
  <2>1. job' = [job EXCEPT ![u].rows = @ + 1] /\ job[u].is = "runs"
    BY <1>3 DEF RouterRow
  <2>2. CASE t # u
    BY <1>0, <2>1, <2>2
  <2>3. CASE t = u
    BY <1>0, <1>3, <2>1, <2>3 DEF Serves, Job
  <2> QED
    BY <2>2, <2>3
<1>4. ASSUME NEW u \in Tag, RouterEnds(u)
      PROVE  job'[t] = job[t] \/ Concludes(t)
  <2>0. job[u].is = "runs"
    BY <1>4 DEF RouterEnds
  <2>1. \/ job' = [job EXCEPT ![u].is = "done"]
        \/ job' = [job EXCEPT ![u].is = "done", ![u].rows = @ + 1]
        \/ job' = [job EXCEPT ![u].is = "trap"]
        \/ job' = [job EXCEPT ![u].is = "halted"] /\ \E s \in Stream : tagOf[s] = u
    BY <1>4 DEF RouterEnds
  <2>2. CASE t # u
    BY <1>0, <2>1, <2>2
  <2>3. CASE t = u
    <3>1. (\E s \in Stream : tagOf[s] = u) => u \in Streamed
      BY Calls DEF Streamed
    <3>2. job' = [job EXCEPT ![u].is = "done"] => Concludes(t)
      BY <1>0, <1>4, <2>0, <2>3 DEF Concludes, Job
    <3>3. job' = [job EXCEPT ![u].is = "done", ![u].rows = @ + 1] => Concludes(t)
      BY <1>0, <1>4, <2>0, <2>3 DEF Concludes, Job
    <3>4. job' = [job EXCEPT ![u].is = "trap"] => Concludes(t)
      BY <1>0, <1>4, <2>0, <2>3 DEF Concludes, Job
    <3>5. job' = [job EXCEPT ![u].is = "halted"] /\ u \in Streamed => Concludes(t)
      BY <1>0, <1>4, <2>0, <2>3 DEF Concludes, Job
    <3> QED
      BY <2>1, <3>1, <3>2, <3>3, <3>4, <3>5
  <2> QED
    BY <2>2, <2>3
<1> QED
  BY <1>1, <1>2, <1>3, <1>4, StepKinds

LEMMA WorkedStep ==
  ASSUME Typed, Typed', Tagged, Underway, Worked, [SessionNext]_sessionVars
  PROVE  Worked'
<1> SUFFICES ASSUME NEW t \in Tag
             PROVE  /\ job'[t].is = "none" => job'[t].rows = 0
                    /\ job'[t].is # "none" => t \in Owned'
                    /\ job'[t].is = "halted" => t \in Streamed'
  BY DEF Worked
<1>1. Owned \subseteq Owned' /\ Streamed \subseteq Streamed'
  BY OwnedSteps
<1>2. CASE Begun(t)
  <2>1. Head(up) = up[1] /\ 1 \in 1..Len(up) /\ Head(up).cancels = 0 /\ Head(up).tag = t
    BY <1>2, Requests DEF Begun
  <2>2. t \in Owned
    BY <2>1 DEF Underway
  <2> QED
    BY <1>1, <1>2, <2>2 DEF Begun
<1>3. CASE job'[t] = job[t]
  BY <1>1, <1>3 DEF Worked
<1>4. CASE Halts(t) \/ Serves(t) \/ Concludes(t)
  BY <1>1, <1>4 DEF Worked, Halts, Serves, Concludes
<1> QED
  BY <1>2, <1>3, <1>4, JobSteps

LEMMA UnderwayStep ==
  ASSUME Typed, Typed', Tagged, Routed, Underway, Worked, [SessionNext]_sessionVars
  PROVE  Underway'
<1>0. up \in Seq(Request) /\ nextTag \in Nat /\ job \in [Tag -> Job]
  BY DEF Typed
<1>1. ASSUME NEW r \in Request, r.tag <= nextTag,
             r.cancels = 0 => r.tag \in Owned /\ job[r.tag].is = "none",
             r.cancels # 0 => r.cancels \in Streamed /\ r.tag \notin Owned,
             RouterTakes => r.tag # Head(up).tag
      PROVE  /\ r.tag <= nextTag'
             /\ r.cancels = 0 => r.tag \in Owned' /\ job'[r.tag].is = "none"
             /\ r.cancels # 0 => r.cancels \in Streamed' /\ r.tag \notin Owned'
  <2>1. r.tag \in Tag /\ r.tag \in Nat
    BY <1>1, Calls DEF Request
  <2>2. r.cancels = 0 => job'[r.tag].is = "none"
    BY <1>1, <2>1, JobSteps DEF Begun, Halts, Serves, Concludes
  <2> QED
    BY <1>0, <1>1, <2>1, <2>2, OwnedSteps
<1>2. CASE up' = up /\ ~RouterTakes
  BY <1>0, <1>1, <1>2 DEF Underway
<1>3. CASE up' = <<>>
  BY <1>3 DEF Underway
<1>4. CASE RouterTakes
  <2>1. /\ Len(up) \in Nat \ {0} /\ up[1] = Head(up) /\ Len(up') = Len(up) - 1
        /\ \A i \in 1..Len(up') : i + 1 \in 1..Len(up) /\ up'[i] = up[i + 1]
    BY <1>4, Requests
  <2>2. ASSUME NEW i \in 1..Len(up')
        PROVE  /\ up'[i].tag <= nextTag'
               /\ up'[i].cancels = 0 => up'[i].tag \in Owned' /\ job'[up'[i].tag].is = "none"
               /\ up'[i].cancels # 0 => up'[i].cancels \in Streamed' /\ up'[i].tag \notin Owned'
    <3>1. i + 1 \in 1..Len(up) /\ up'[i] = up[i + 1] /\ up[i + 1] \in Request /\ 1 \in 1..Len(up)
          /\ i + 1 # 1
      BY <1>0, <2>1, <2>2
    <3>2. up[i + 1].tag # up[1].tag
      BY <3>1 DEF Underway
    <3> QED
      BY <1>1, <2>1, <3>1, <3>2 DEF Underway
  <2>3. \A i, j \in 1..Len(up') : up'[i].tag = up'[j].tag => i = j
    <3>1. ASSUME NEW i \in 1..Len(up'), NEW j \in 1..Len(up'), up'[i].tag = up'[j].tag
          PROVE  i = j
      <4>1. /\ i + 1 \in 1..Len(up) /\ j + 1 \in 1..Len(up)
            /\ up[i + 1].tag = up[j + 1].tag
        BY <2>1, <3>1
      <4>2. i + 1 = j + 1
        BY <4>1 DEF Underway
      <4>3. i \in Int /\ j \in Int
        BY <3>1
      <4> QED
        BY <4>2, <4>3
    <3> QED
      BY <3>1
  <2> QED
    BY <2>2, <2>3 DEF Underway
<1>5. ASSUME NEW of \in Tag \cup {0}, Requested(nextTag + 1, of), nextTag + 1 \in Tag, ~RouterTakes,
             nextTag' = nextTag + 1,
             of = 0 => nextTag + 1 \in Owned' /\ job' = job,
             of # 0 => of \in Streamed' /\ nextTag + 1 \notin Owned'
      PROVE  Underway'
  <2> DEFINE e == [tag |-> nextTag + 1, cancels |-> of]
  <2>1. /\ Len(up') = Len(up) + 1 /\ up'[Len(up) + 1] = e
        /\ \A i \in 1..Len(up) : up'[i] = up[i] /\ up[i] \in Request
        /\ Len(up) \in Nat
    BY <1>0, <1>5 DEF Requested
  <2>2. \A i \in 1..Len(up) : up[i].tag \in Nat /\ up[i].tag # nextTag + 1
    <3>1. \A i \in 1..Len(up) : up[i].tag \in Nat /\ up[i].tag <= nextTag
      BY <2>1, Calls DEF Underway, Request
    <3> QED
      BY <1>0, <3>1
  <2>3. job[nextTag + 1].is = "none"
    BY <1>5, OwnedTags DEF Worked
  <2>4. ASSUME NEW i \in 1..Len(up')
        PROVE  /\ up'[i].tag <= nextTag'
               /\ up'[i].cancels = 0 => up'[i].tag \in Owned' /\ job'[up'[i].tag].is = "none"
               /\ up'[i].cancels # 0 => up'[i].cancels \in Streamed' /\ up'[i].tag \notin Owned'
    <3>1. CASE i \in 1..Len(up)
      BY <1>1, <1>5, <2>1, <3>1 DEF Underway
    <3>2. CASE i = Len(up) + 1
      BY <1>0, <1>5, <2>1, <2>3, <3>2
    <3> QED
      BY <2>1, <2>4, <3>1, <3>2
  <2>5. ASSUME NEW i \in 1..Len(up'), NEW j \in 1..Len(up'), up'[i].tag = up'[j].tag
        PROVE  i = j
    <3>1. (i \in 1..Len(up) \/ i = Len(up) + 1) /\ (j \in 1..Len(up) \/ j = Len(up) + 1)
      BY <2>1, <2>5
    <3> QED
      BY <2>1, <2>2, <2>5, <3>1 DEF Underway
  <2> QED
    BY <2>4, <2>5 DEF Underway
<1>6. ASSUME NEW c \in Call, Grants(c), Requested(nextTag + 1, 0), job' = job, ~RouterTakes
      PROVE  Underway'
  <2>1. nextTag + 1 \in Owned' /\ nextTag' = nextTag + 1
    BY <1>6, OwnedSteps DEF Grants
  <2>2. tagOf'[c] = nextTag + 1 /\ tagOf' \in [Call -> Tag \cup {0}]
    BY <1>6 DEF Grants, Typed
  <2>3. nextTag + 1 \in Tag
    BY <1>0, <2>2
  <2> QED
    BY <1>5, <1>6, <2>1, <2>3
<1>7. ASSUME NEW s \in Stream, nextTag' = nextTag + 1, tagOf' = tagOf, tagOf[s] # 0,
             Requested(nextTag + 1, tagOf[s]), ~RouterTakes
      PROVE  Underway'
  <2>1. tagOf[s] \in Tag \cup {0} /\ tagOf[s] \in Streamed'
    BY <1>7, Calls DEF Typed, Streamed
  <2>2. nextTag + 1 \notin Owned'
    BY <1>7, OwnedTags, OwnedSteps
  <2>3. nextTag + 1 \in Tag
    <3> DEFINE e == [tag |-> nextTag + 1, cancels |-> tagOf[s]]
    <3>1. up' \in Seq(Request) /\ up'[Len(up) + 1] = e /\ Len(up) + 1 \in 1..Len(up')
      BY <1>0, <1>7 DEF Requested, Typed
    <3>2. e \in Request
      BY <3>1
    <3> QED
      BY <3>2 DEF Request
  <2> QED
    BY <1>5, <1>7, <2>1, <2>2, <2>3
<1> QED
  BY <1>2, <1>3, <1>4, <1>6, <1>7, UpSteps

-----------------------------------------------------------------------------
(* A sentence is put on the link, or taken from it.                        *)
LEMMA Longer ==
  ASSUME NEW S, NEW d \in Seq(S), NEW x \in S
  PROVE  /\ Len(d) \in Nat /\ Len(Append(d, x)) = Len(d) + 1
         /\ Append(d, x)[Len(d) + 1] = x
         /\ \A i \in 1..Len(d) : Append(d, x)[i] = d[i] /\ i \in 1..Len(Append(d, x))
         /\ \A i \in 1..Len(Append(d, x)) : i \in 1..Len(d) \/ i = Len(d) + 1
         /\ Append(d, x) \in Seq(S)
OBVIOUS

NotOver(d, t) == \A i \in 1..Len(d) : d[i].tag = t => d[i].is # "done"

LEMMA Parts ==
  ASSUME NEW d \in Seq(Sentence), NEW i \in 1..Len(d)
  PROVE  d[i] \in Sentence /\ d[i].n \in Nat /\ d[i].tag \in Tag \cup {0}
<1>1. d[i] \in Sentence
  OBVIOUS
<1> QED
  BY <1>1 DEF Sentence

LEMMA NotOverPut ==
  ASSUME NEW d \in Seq(Sentence), NEW t, NEW x \in Sentence, NotOver(d, t),
         x.tag = t => x.is # "done"
  PROVE  NotOver(Append(d, x), t)
BY Longer DEF NotOver

LEMMA FitPut ==
  ASSUME NEW d \in Seq(Sentence), NEW x \in Sentence, NEW o, NEW s, NEW n, NEW j,
         AllFit(d, o, s, n, j), Fits(x, o, s, n, j), x.tag \in o => NotOver(d, x.tag)
  PROVE  AllFit(Append(d, x), o, s, n, j)
<1> DEFINE e == Append(d, x)
<1>1. \A i \in 1..Len(e) : Fits(e[i], o, s, n, j)
  BY Longer DEF AllFit
<1>2. ASSUME NEW p \in 1..Len(e), NEW q \in 1..Len(e), p < q, e[p].is = "done", e[p].tag \in o
      PROVE  e[q].tag # e[p].tag
  <2>1. p \in 1..Len(d) /\ e[p] = d[p]
    BY <1>2, Longer
  <2>2. CASE q \in 1..Len(d)
    <3>1. e[q] = d[q]
      BY <2>2, Longer
    <3> QED
      BY <1>2, <2>1, <2>2, <3>1 DEF AllFit
  <2>3. CASE q = Len(d) + 1
    <3>1. e[q] = x
      BY <2>3, Longer
    <3> QED
      BY <1>2, <2>1, <3>1 DEF NotOver
  <2> QED
    BY <1>2, <2>2, <2>3, Longer
<1> QED
  BY <1>1, <1>2 DEF AllFit

LEMMA FollowsPut ==
  ASSUME NEW d \in Seq(Sentence), NEW x \in Sentence, NEW t, NEW h \in Nat, NEW r \in Nat,
         Follows(d, t, h, r), x.tag # t \/ x.n = 0
  PROVE  Follows(Append(d, x), t, h, r)
<1> DEFINE e == Append(d, x)
<1>0. x.n = 0 => ~(x.n > 0)
  BY DEF Sentence
<1>1. \A i \in 1..Len(e) : e[i].tag = t /\ e[i].n > 0 => i \in 1..Len(d) /\ e[i] = d[i]
  BY <1>0, Longer
<1>2. \A i \in 1..Len(d) : e[i] = d[i] /\ i \in 1..Len(e)
  BY Longer
<1> QED
  BY <1>1, <1>2 DEF Follows

LEMMA FollowsRow ==
  ASSUME NEW d \in Seq(Sentence), NEW x \in Sentence, NEW t, NEW h \in Nat, NEW r \in Nat,
         Follows(d, t, h, r), x.tag = t, x.n = r + 1
  PROVE  Follows(Append(d, x), t, h, r + 1)
<1> DEFINE e == Append(d, x)
<1>1. /\ \A i \in 1..Len(d) : e[i] = d[i] /\ i \in 1..Len(e)
      /\ \A i \in 1..Len(e) : i \in 1..Len(d) \/ i = Len(d) + 1
      /\ e[Len(d) + 1] = x /\ Len(d) \in Nat /\ Len(e) = Len(d) + 1
  BY Longer
<1>2. \A i \in 1..Len(d) : d[i].n \in Nat
  BY Parts
<1>3. h <= r + 1 /\ \A i \in 1..Len(e) : e[i].tag = t /\ e[i].n > 0 => h < e[i].n /\ e[i].n <= r + 1
  <2>1. \A i \in 1..Len(d) : d[i].tag = t /\ d[i].n > 0 => h < d[i].n /\ d[i].n <= r
    BY DEF Follows
  <2>2. h <= r
    BY DEF Follows
  <2> QED
    BY <1>1, <1>2, <2>1, <2>2
<1>4. ASSUME NEW p \in 1..Len(e), NEW q \in 1..Len(e), p < q, e[p].tag = t, e[q].tag = t,
             e[p].n > 0, e[q].n > 0
      PROVE  e[p].n < e[q].n
  <2>1. p \in 1..Len(d) /\ e[p] = d[p] /\ d[p].n <= r
    BY <1>1, <1>4 DEF Follows
  <2>2. CASE q \in 1..Len(d)
    BY <1>1, <1>4, <2>1, <2>2 DEF Follows
  <2>3. CASE q = Len(d) + 1
    BY <1>1, <1>2, <2>1, <2>3
  <2> QED
    BY <1>1, <2>2, <2>3
<1>5. ASSUME NEW n \in h + 1..r + 1
      PROVE  \E i \in 1..Len(e) : e[i].tag = t /\ e[i].n = n
  <2>1. CASE n = r + 1
    <3>1. Len(d) + 1 \in 1..Len(e)
      BY <1>1
    <3> QED
      BY <1>1, <2>1, <3>1
  <2>2. CASE n # r + 1
    <3>1. n \in h + 1..r
      BY <1>5, <2>2
    <3>2. PICK i \in 1..Len(d) : d[i].tag = t /\ d[i].n = n
      BY <3>1 DEF Follows
    <3> QED
      BY <1>1, <3>2
  <2> QED
    BY <2>1, <2>2
<1> QED
  BY <1>3, <1>4, <1>5 DEF Follows

LEMMA HoldsPut ==
  ASSUME NEW d \in Seq(Sentence), NEW x \in Sentence
  PROVE  Holds(Append(d, x), x) /\ \A y : Holds(d, y) => Holds(Append(d, x), y)
<1>1. Len(d) + 1 \in 1..Len(Append(d, x))
  BY Longer
<1> QED
  BY <1>1, Longer DEF Holds

LEMMA HeedsPut ==
  ASSUME NEW d \in Seq(Sentence), NEW x \in Sentence, NEW t, NEW is, NEW heard,
         Heeds(d, t, is, heard)
  PROVE  Heeds(Append(d, x), t, is, heard)
BY HoldsPut DEF Heeds

LEMMA FollowsFirst ==
  ASSUME NEW d \in Seq(Sentence), d # <<>>, NEW t, NEW h \in Nat, NEW r \in Nat,
         Follows(d, t, h, r), d[1].tag = t, d[1].n > 0
  PROVE  d[1].n = h + 1 /\ h + 1 <= r
<1>1. 1 \in 1..Len(d) /\ \A i \in 1..Len(d) : d[i].n \in Nat
  BY Parts
<1>2. h < d[1].n /\ d[1].n <= r
  BY <1>1 DEF Follows
<1>3. ASSUME h + 1 < d[1].n
      PROVE  FALSE
  <2>1. h + 1 \in h + 1..r
    BY <1>1, <1>2, <1>3
  <2>2. PICK i \in 1..Len(d) : d[i].tag = t /\ d[i].n = h + 1
    BY <2>1 DEF Follows
  <2>3. i # 1 /\ 1 < i
    BY <1>3, <2>2
  <2>4. d[1].n < d[i].n
    BY <1>1, <2>2, <2>3 DEF Follows
  <2> QED
    BY <1>1, <1>3, <2>2, <2>4
<1> QED
  BY <1>1, <1>2, <1>3

LEMMA Shorter ==
  ASSUME NEW S, NEW d \in Seq(S), d # <<>>
  PROVE  /\ Len(d) \in Nat \ {0} /\ Tail(d) \in Seq(S) /\ Len(Tail(d)) = Len(d) - 1
         /\ 1 \in 1..Len(d) /\ Head(d) = d[1]
         /\ \A i \in 1..Len(Tail(d)) : i + 1 \in 1..Len(d) /\ Tail(d)[i] = d[i + 1]
         /\ \A i \in 1..Len(d) : i # 1 => i - 1 \in 1..Len(Tail(d)) /\ Tail(d)[i - 1] = d[i]
OBVIOUS

LEMMA FollowsTaken ==
  ASSUME NEW d \in Seq(Sentence), d # <<>>, NEW t, NEW h \in Nat, NEW r \in Nat,
         Follows(d, t, h, r)
  PROVE  IF d[1].tag = t /\ d[1].n > 0 THEN Follows(Tail(d), t, h + 1, r)
         ELSE Follows(Tail(d), t, h, r)
<1> DEFINE e == Tail(d)
<1>1. /\ Len(d) \in Nat \ {0} /\ Len(e) = Len(d) - 1 /\ 1 \in 1..Len(d)
      /\ \A i \in 1..Len(e) : i + 1 \in 1..Len(d) /\ e[i] = d[i + 1] /\ i \in Nat
      /\ \A i \in 1..Len(d) : i # 1 => i - 1 \in 1..Len(e) /\ e[i - 1] = d[i]
  BY Shorter
<1>2. \A i \in 1..Len(d) : d[i].n \in Nat
  BY Parts
<1>3. ASSUME NEW p \in 1..Len(e), NEW q \in 1..Len(e), p < q, e[p].tag = t, e[q].tag = t,
             e[p].n > 0, e[q].n > 0
      PROVE  e[p].n < e[q].n
  <2>1. p + 1 \in 1..Len(d) /\ q + 1 \in 1..Len(d) /\ e[p] = d[p + 1] /\ e[q] = d[q + 1]
        /\ p + 1 < q + 1
    BY <1>1, <1>3
  <2> QED
    BY <1>3, <2>1 DEF Follows
<1>4. CASE d[1].tag = t /\ d[1].n > 0
  <2>1. d[1].n = h + 1 /\ h + 1 <= r
    BY <1>4, FollowsFirst
  <2>2. ASSUME NEW i \in 1..Len(e), e[i].tag = t, e[i].n > 0
        PROVE  h + 1 < e[i].n /\ e[i].n <= r
    <3>1. i + 1 \in 1..Len(d) /\ e[i] = d[i + 1] /\ 1 < i + 1
      BY <1>1, <2>2
    <3> QED
      BY <1>1, <1>4, <2>1, <2>2, <3>1 DEF Follows
  <2>3. ASSUME NEW n \in h + 1 + 1..r
        PROVE  \E i \in 1..Len(e) : e[i].tag = t /\ e[i].n = n
    <3>1. n \in h + 1..r /\ n # h + 1
      BY <2>3
    <3>2. PICK i \in 1..Len(d) : d[i].tag = t /\ d[i].n = n
      BY <3>1 DEF Follows
    <3> QED
      BY <1>1, <2>1, <3>1, <3>2
  <2> QED
    BY <1>3, <1>4, <2>1, <2>2, <2>3 DEF Follows
<1>5. CASE ~(d[1].tag = t /\ d[1].n > 0)
  <2>1. ASSUME NEW i \in 1..Len(e), e[i].tag = t, e[i].n > 0
        PROVE  h < e[i].n /\ e[i].n <= r
    BY <1>1, <2>1 DEF Follows
  <2>2. ASSUME NEW n \in h + 1..r
        PROVE  \E i \in 1..Len(e) : e[i].tag = t /\ e[i].n = n
    <3>1. PICK i \in 1..Len(d) : d[i].tag = t /\ d[i].n = n
      BY <2>2 DEF Follows
    <3>2. n > 0
      BY <2>2
    <3>3. i # 1
      BY <1>5, <3>1, <3>2
    <3> QED
      BY <1>1, <3>1, <3>3
  <2>3. h <= r
    BY DEF Follows
  <2> QED
    BY <1>3, <1>5, <2>1, <2>2, <2>3 DEF Follows
<1> QED
  BY <1>4, <1>5

LEMMA HoldsTaken ==
  ASSUME NEW d \in Seq(Sentence), d # <<>>, NEW x, Holds(d, x), x # d[1]
  PROVE  Holds(Tail(d), x)
BY Shorter DEF Holds

LEMMA FitTaken ==
  ASSUME NEW d \in Seq(Sentence), d # <<>>, NEW o, NEW s, NEW n, NEW j, AllFit(d, o, s, n, j)
  PROVE  AllFit(Tail(d), o, s, n, j)
<1> DEFINE e == Tail(d)
<1>1. \A i \in 1..Len(e) : i + 1 \in 1..Len(d) /\ e[i] = d[i + 1] /\ i \in Nat
  BY Shorter
<1>2. ASSUME NEW p \in 1..Len(e), NEW q \in 1..Len(e), p < q, e[p].is = "done", e[p].tag \in o
      PROVE  e[q].tag # e[p].tag
  <2>1. p + 1 < q + 1
    BY <1>1, <1>2
  <2> QED
    BY <1>1, <1>2, <2>1 DEF AllFit
<1> QED
  BY <1>1, <1>2 DEF AllFit

(* When !done comes, nothing of its command is left behind it.             *)
LEMMA NothingBehind ==
  ASSUME NEW d \in Seq(Sentence), d # <<>>, NEW o, NEW s, NEW n, NEW j, AllFit(d, o, s, n, j),
         d[1].is = "done", d[1].tag \in o
  PROVE  \A i \in 1..Len(Tail(d)) : Tail(d)[i].tag # d[1].tag
<1>1. /\ 1 \in 1..Len(d)
      /\ \A i \in 1..Len(Tail(d)) : i + 1 \in 1..Len(d) /\ Tail(d)[i] = d[i + 1] /\ 1 < i + 1
  BY Shorter
<1> QED
  BY <1>1 DEF AllFit

LEMMA FollowsNone ==
  ASSUME NEW d \in Seq(Sentence), NEW t, NEW h \in Nat, NEW r \in Nat,
         Follows(d, t, h, r), \A i \in 1..Len(d) : d[i].tag # t
  PROVE  h = r
<1>1. ASSUME h < r
      PROVE  FALSE
  <2>1. h + 1 \in h + 1..r
    BY <1>1
  <2> QED
    BY <2>1 DEF Follows
<1> QED
  BY <1>1 DEF Follows

-----------------------------------------------------------------------------
(* The link: the session takes from its front, the router adds at its end. *)
LEMMA DownSteps ==
  ASSUME [SessionNext]_sessionVars
  PROVE  \/ down' = down \/ down' = <<>>
         \/ (ToWaiter \/ ToSubscription \/ ToNobody) /\ Dispatch /\ down' = Tail(down)
         \/ RouterTakes \/ RouterFails
         \/ \E t \in Tag : RouterRow(t) \/ RouterEnds(t)
<1>1. CASE Dies
  BY <1>1 DEF Dies, FailAll
<1>2. CASE \/ Rests \/ (\E c \in Talk : Sends(c))
           \/ (\E s \in Stream : Listens(s) \/ Abort(s) \/ GraceExpires(s) \/ Yields(s) \/ Unwinds(s))
  BY <1>2 DEF Rests, Sends, Listens, Abort, GraceExpires, Yields, Unwinds, Unwind
<1>3. CASE ToWaiter \/ ToSubscription \/ ToNobody
  BY <1>3 DEF ToWaiter, ToSubscription, ToNobody, Consume
<1> QED
  BY <1>1, <1>2, <1>3, StepKinds

LEMMA OverKept ==
  ASSUME Typed, Tagged, Underway, [SessionNext]_sessionVars, NEW t \in Tag, Over(job[t].is)
  PROVE  job'[t] = job[t]
BY JobSteps DEF Begun, Halts, Serves, Concludes, Over

LEMMA FitKept ==
  ASSUME Typed, Tagged, Underway, [SessionNext]_sessionVars,
         NEW d \in Seq(Sentence), AllFit(d, Owned, Streamed, nextTag, job)
  PROVE  AllFit(d, Owned', Streamed', nextTag', job')
<1>1. ASSUME NEW x \in Sentence, Fits(x, Owned, Streamed, nextTag, job)
      PROVE  /\ Fits(x, Owned', Streamed', nextTag', job')
             /\ x.tag \in Owned' <=> x.tag \in Owned
  <2>1. x.tag \in Nat /\ x.tag <= nextTag /\ nextTag \in Nat
    BY <1>1, Calls DEF Sentence, Fits, Typed
  <2>2. /\ x.tag \in Owned' <=> x.tag \in Owned
        /\ x.tag \in Streamed' <=> x.tag \in Streamed
        /\ x.tag <= nextTag'
    BY <2>1, OwnedSteps
  <2>3. ASSUME x.tag \in Owned
        PROVE  Over(job[x.tag].is) => job'[x.tag] = job[x.tag]
    BY <2>3, OwnedTags, OverKept
  <2> QED
    BY <1>1, <2>2, <2>3 DEF Fits, Over
<1>2. \A i \in 1..Len(d) : d[i] \in Sentence
  BY Parts
<1> QED
  BY <1>1, <1>2 DEF AllFit

LEMMA FitSays ==
  ASSUME NEW o, NEW s, NEW n, NEW j, NEW t, t <= n
  PROVE  /\ Over(j[t].is) => Fits(Say(t, "done", 0), o, s, n, j)
         /\ j[t].is = "trap" => Fits(Say(t, "trap", 0), o, s, n, j)
         /\ j[t].is = "halted" => Fits(Say(t, "interrupted", 0), o, s, n, j)
         /\ t \notin s => Fits(Say(t, "empty", 0), o, s, n, j)
         /\ \A k \in Nat : k > 0 => Fits(Say(t, "row", k), o, s, n, j)
         /\ \A k \in Nat : t \notin s /\ Over(j[t].is) => Fits(Say(t, "done", k), o, s, n, j)
         /\ t \notin s /\ t \notin o =>
              /\ Fits(Say(t, "done", 0), o, s, n, j) /\ Fits(Say(t, "trap", 0), o, s, n, j)
              /\ Fits(Say(t, "fatal", 0), o, s, n, j) /\ Fits(Say(t, "garbage", 0), o, s, n, j)
BY DEF Fits, Say

LEMMA Unfinished ==
  ASSUME Said, NEW t \in Owned, ~Over(job[t].is)
  PROVE  NotOver(down, t)
BY DEF Said, AllFit, Fits, NotOver

(* A command that ends is said to have ended by the last of two sentences. *)
LEMMA FitTwo ==
  ASSUME NEW d \in Seq(Sentence), NEW o, NEW s, NEW n, NEW j, NEW x \in Sentence, NEW y \in Sentence,
         AllFit(d, o, s, n, j), Fits(x, o, s, n, j), Fits(y, o, s, n, j),
         NotOver(d, x.tag), x.tag = y.tag, x.is # "done"
  PROVE  AllFit(d \o <<x, y>>, o, s, n, j)
<1>1. AllFit(Append(d, x), o, s, n, j)
  BY FitPut
<1>2. NotOver(Append(d, x), x.tag) /\ Append(d, x) \in Seq(Sentence)
  BY NotOverPut, Longer
<1>3. AllFit(Append(Append(d, x), y), o, s, n, j)
  BY <1>1, <1>2, FitPut
<1>4. d \o <<x, y>> = Append(Append(d, x), y)
  BY Appendages
<1> QED
  BY <1>3, <1>4

LEMMA SaidTakes ==
  ASSUME Typed, Tagged, Underway, Worked, Said, RouterTakes, [SessionNext]_sessionVars
  PROVE  Said'
<1> DEFINE r == Head(up)
<1>0. down \in Seq(Sentence) /\ job \in [Tag -> Job] /\ nextTag \in Nat
  BY DEF Typed
<1>1. /\ r.tag \in Tag /\ r.cancels \in Tag \cup {0} /\ r = up[1] /\ 1 \in 1..Len(up)
      /\ UNCHANGED <<nextTag, tagOf>>
  <2>1. up # <<>> /\ UNCHANGED <<nextTag, tagOf>>
    BY DEF RouterTakes, RouterVars
  <2>2. r \in Request /\ r = up[1] /\ 1 \in 1..Len(up)
    BY <2>1, Requests
  <2> QED
    BY <2>1, <2>2 DEF Request
<1>2. /\ AllFit(down, Owned, Streamed, nextTag, job')
      /\ Owned' = Owned /\ Streamed' = Streamed /\ nextTag' = nextTag
  BY <1>0, <1>1, FitKept, OwnedSteps DEF Said
<1>3. CASE r.cancels = 0 /\ UNCHANGED down
  BY <1>2, <1>3 DEF Said
<1>4. CASE r.cancels # 0
  <2>1. r.cancels \in Streamed /\ r.cancels \in Owned /\ r.tag \notin Owned /\ r.tag <= nextTag
        /\ r.cancels <= nextTag /\ r.tag \notin Streamed
    BY <1>1, <1>4, OwnedTags DEF Underway
  <2>2. CASE /\ job[r.cancels].is = "runs" /\ job' = [job EXCEPT ![r.cancels].is = "halted"]
             /\ down' = down \o <<Say(r.cancels, "interrupted", 0), Say(r.cancels, "done", 0),
                                  Say(r.tag, "done", 0)>>
    <3> DEFINE x == Say(r.cancels, "interrupted", 0)
               y == Say(r.cancels, "done", 0)
               z == Say(r.tag, "done", 0)
    <3>1. x \in Sentence /\ y \in Sentence /\ z \in Sentence
      BY <1>1, SayTyped
    <3>2. job'[r.cancels].is = "halted"
      BY <1>0, <1>1, <1>4, <2>2 DEF Job
    <3>3. /\ Fits(x, Owned, Streamed, nextTag, job') /\ Fits(y, Owned, Streamed, nextTag, job')
          /\ Fits(z, Owned, Streamed, nextTag, job')
      BY <2>1, <3>2, FitSays DEF Over
    <3>4. NotOver(down, r.cancels)
      BY <2>1, <2>2, Unfinished DEF Over
    <3>5. x.tag = r.cancels /\ y.tag = r.cancels /\ x.is # "done" /\ z.tag = r.tag
      BY DEF Say
    <3>6. AllFit(down \o <<x, y>>, Owned, Streamed, nextTag, job') /\ down \o <<x, y>> \in Seq(Sentence)
      BY <1>0, <1>2, <3>1, <3>3, <3>4, <3>5, FitTwo, Appendages
    <3>7. AllFit(Append(down \o <<x, y>>, z), Owned, Streamed, nextTag, job')
      BY <2>1, <3>1, <3>3, <3>5, <3>6, FitPut
    <3>8. down' = Append(down \o <<x, y>>, z)
      BY <1>0, <2>2, <3>1, Appendages
    <3> QED
      BY <1>2, <3>7, <3>8 DEF Said
  <2>3. CASE down' = Append(down, Say(r.tag, "trap", 0))
    <3> DEFINE x == Say(r.tag, "trap", 0)
    <3>1. x \in Sentence /\ x.tag = r.tag
      BY <1>1, SayTyped DEF Say
    <3>2. Fits(x, Owned, Streamed, nextTag, job')
      BY <2>1, FitSays
    <3>3. AllFit(Append(down, x), Owned, Streamed, nextTag, job')
      BY <1>0, <1>2, <2>1, <3>1, <3>2, FitPut
    <3> QED
      BY <1>2, <2>3, <3>3 DEF Said
  <2> QED
    BY <1>4, <2>2, <2>3 DEF RouterTakes
<1> QED
  BY <1>3, <1>4 DEF RouterTakes

LEMMA SaidRow ==
  ASSUME Typed, Tagged, Underway, Worked, Said, NEW t \in Tag, RouterRow(t), [SessionNext]_sessionVars
  PROVE  Said'
<1> DEFINE x == Say(t, "row", job[t].rows + 1)
<1>0. down \in Seq(Sentence) /\ job[t].rows \in Nat /\ UNCHANGED <<nextTag, tagOf>> /\ job[t].is = "runs"
  BY DEF Typed, Job, RouterRow, RouterVars
<1>1. /\ AllFit(down, Owned, Streamed, nextTag, job')
      /\ Owned' = Owned /\ Streamed' = Streamed /\ nextTag' = nextTag
  BY <1>0, FitKept, OwnedSteps DEF Said
<1>2. t \in Owned /\ t <= nextTag
  BY <1>0, OwnedTags DEF Worked
<1>3. x \in Sentence /\ x.tag = t
  <2>1. job[t].rows + 1 \in Nat /\ t \in Tag \cup {0}
    BY <1>0
  <2> QED
    BY <2>1, SayTyped DEF Say
<1>4. Fits(x, Owned, Streamed, nextTag, job')
  <2>1. job[t].rows + 1 \in Nat /\ job[t].rows + 1 > 0
    BY <1>0
  <2> QED
    BY <1>2, <2>1, FitSays
<1>5. NotOver(down, t)
  BY <1>0, <1>2, Unfinished DEF Over
<1>6. AllFit(Append(down, x), Owned, Streamed, nextTag, job')
  BY <1>0, <1>1, <1>3, <1>4, <1>5, FitPut
<1> QED
  BY <1>1, <1>6 DEF Said, RouterRow

LEMMA SaidFails ==
  ASSUME Typed, Tagged, Underway, Worked, Said, RouterFails, [SessionNext]_sessionVars
  PROVE  Said'
<1>0. down \in Seq(Sentence) /\ UNCHANGED <<nextTag, tagOf>> /\ nextTag \in Nat
  BY DEF Typed, RouterFails, RouterVars
<1>1. /\ AllFit(down, Owned, Streamed, nextTag, job')
      /\ Owned' = Owned /\ Streamed' = Streamed /\ nextTag' = nextTag
  BY <1>0, FitKept, OwnedSteps DEF Said
<1>2. 0 \notin Owned /\ 0 \notin Streamed /\ 0 <= nextTag
  BY <1>0 DEF Owned, Streamed
<1>3. ASSUME NEW x \in Sentence, x = Say(0, "fatal", 0) \/ x = Say(0, "garbage", 0)
      PROVE  AllFit(Append(down, x), Owned, Streamed, nextTag, job')
  <2>1. x.tag = 0
    BY <1>3 DEF Say
  <2>2. Fits(x, Owned, Streamed, nextTag, job')
    BY <1>2, <1>3, FitSays
  <2> QED
    BY <1>0, <1>1, <1>2, <2>1, <2>2, FitPut
<1>4. Say(0, "fatal", 0) \in Sentence /\ Say(0, "garbage", 0) \in Sentence
  BY SayTyped
<1> QED
  BY <1>1, <1>3, <1>4 DEF Said, RouterFails

LEMMA SaidEnds ==
  ASSUME Typed, Tagged, Underway, Worked, Said, NEW t \in Tag, RouterEnds(t), [SessionNext]_sessionVars
  PROVE  Said'
<1>0. /\ down \in Seq(Sentence) /\ job[t].rows + 1 \in Nat /\ UNCHANGED <<nextTag, tagOf>>
      /\ job[t].is = "runs" /\ job \in [Tag -> Job]
  BY DEF Typed, Job, RouterEnds, RouterVars
<1>1. /\ AllFit(down, Owned, Streamed, nextTag, job')
      /\ Owned' = Owned /\ Streamed' = Streamed /\ nextTag' = nextTag
  BY <1>0, FitKept, OwnedSteps DEF Said
<1>2. t \in Owned /\ t <= nextTag
  BY <1>0, OwnedTags DEF Worked
<1>3. NotOver(down, t)
  BY <1>0, <1>2, Unfinished DEF Over
<1>4. job'[t].is = "done" \/ job'[t].is = "trap" \/ job'[t].is = "halted"
  BY <1>0 DEF RouterEnds, Job
<1>5. \A k \in Nat : Say(t, "done", k) \in Sentence /\ Say(t, "done", k).tag = t
  BY SayTyped DEF Say
<1>6. Fits(Say(t, "done", 0), Owned, Streamed, nextTag, job')
  BY <1>2, <1>4, FitSays DEF Over
<1>7. CASE down' = Append(down, Say(t, "done", 0))
  <2>1. AllFit(Append(down, Say(t, "done", 0)), Owned, Streamed, nextTag, job')
    BY <1>0, <1>1, <1>3, <1>5, <1>6, FitPut
  <2> QED
    BY <1>1, <1>7, <2>1 DEF Said
<1>8. CASE t = tagOf[Hello] /\ down' = Append(down, Say(t, "done", job[t].rows + 1))
  <2>1. t \notin Streamed
    BY <1>8, OwnedTags, NativeConstants
  <2>2. Fits(Say(t, "done", job[t].rows + 1), Owned, Streamed, nextTag, job')
    BY <1>0, <1>2, <1>4, <2>1, FitSays DEF Over
  <2>3. AllFit(Append(down, Say(t, "done", job[t].rows + 1)), Owned, Streamed, nextTag, job')
    BY <1>0, <1>1, <1>3, <1>5, <2>2, FitPut
  <2> QED
    BY <1>1, <1>8, <2>3 DEF Said
<1>9. ASSUME NEW x \in Sentence, x.tag = t, x.is # "done", Fits(x, Owned, Streamed, nextTag, job'),
             down' = down \o <<x, Say(t, "done", 0)>>
      PROVE  Said'
  <2>1. AllFit(down \o <<x, Say(t, "done", 0)>>, Owned, Streamed, nextTag, job')
    BY <1>0, <1>1, <1>3, <1>5, <1>6, <1>9, FitTwo
  <2> QED
    BY <1>1, <1>9, <2>1 DEF Said
<1>10. /\ Say(t, "empty", 0) \in Sentence /\ Say(t, "empty", 0).tag = t /\ Say(t, "empty", 0).is # "done"
       /\ Say(t, "trap", 0) \in Sentence /\ Say(t, "trap", 0).tag = t /\ Say(t, "trap", 0).is # "done"
       /\ Say(t, "interrupted", 0) \in Sentence /\ Say(t, "interrupted", 0).tag = t
       /\ Say(t, "interrupted", 0).is # "done"
  BY SayTyped DEF Say
<1>11. CASE /\ \A s \in Stream : tagOf[s] # t
            /\ down' = down \o <<Say(t, "empty", 0), Say(t, "done", 0)>>
  <2>1. t \notin Streamed
    BY <1>11 DEF Streamed
  <2>2. Fits(Say(t, "empty", 0), Owned, Streamed, nextTag, job')
    BY <1>2, <2>1, FitSays
  <2> QED
    BY <1>9, <1>10, <1>11, <2>2
<1>12. CASE job' = [job EXCEPT ![t].is = "trap"] /\ down' = down \o <<Say(t, "trap", 0), Say(t, "done", 0)>>
  <2>1. job'[t].is = "trap"
    BY <1>0, <1>12 DEF Job
  <2>2. Fits(Say(t, "trap", 0), Owned, Streamed, nextTag, job')
    BY <1>2, <2>1, FitSays
  <2> QED
    BY <1>9, <1>10, <1>12, <2>2
<1>13. CASE /\ job' = [job EXCEPT ![t].is = "halted"]
            /\ down' = down \o <<Say(t, "interrupted", 0), Say(t, "done", 0)>>
  <2>1. job'[t].is = "halted"
    BY <1>0, <1>13 DEF Job
  <2>2. Fits(Say(t, "interrupted", 0), Owned, Streamed, nextTag, job')
    BY <1>2, <2>1, FitSays
  <2> QED
    BY <1>9, <1>10, <1>13, <2>2
<1> QED
  BY <1>7, <1>8, <1>11, <1>12, <1>13 DEF RouterEnds

LEMMA SaidStep ==
  ASSUME Typed, Tagged, Underway, Worked, Said, [SessionNext]_sessionVars
  PROVE  Said'
<1>0. down \in Seq(Sentence)
  BY DEF Typed
<1>1. CASE down' = down
  BY <1>0, <1>1, FitKept DEF Said
<1>2. CASE down' = <<>>
  BY <1>2 DEF Said, AllFit
<1>3. CASE Dispatch /\ down' = Tail(down)
  <2>1. down # <<>> /\ Tail(down) \in Seq(Sentence)
    BY <1>0, <1>3, Heads
  <2>2. AllFit(Tail(down), Owned, Streamed, nextTag, job)
    BY <1>0, <2>1, FitTaken DEF Said
  <2>3. AllFit(Tail(down), Owned', Streamed', nextTag', job')
    BY <2>1, <2>2, FitKept
  <2> QED
    BY <1>3, <2>3 DEF Said
<1> QED
  BY <1>1, <1>2, <1>3, SaidTakes, SaidRow, SaidFails, SaidEnds, DownSteps

-----------------------------------------------------------------------------
(* What is on its way for a call, while the router works.                  *)
LEMMA PutMute ==
  ASSUME NEW d \in Seq(Sentence), NEW x \in Sentence, x.n = 0, NEW t, NEW h \in Nat, NEW r \in Nat,
         NEW is, NEW heard, Follows(d, t, h, r), Heeds(d, t, is, heard)
  PROVE  /\ Append(d, x) \in Seq(Sentence) /\ Holds(Append(d, x), x)
         /\ Follows(Append(d, x), t, h, r) /\ Heeds(Append(d, x), t, is, heard)
         /\ \A y : Holds(d, y) => Holds(Append(d, x), y)
BY FollowsPut, HeedsPut, HoldsPut, Longer

LEMMA PutTwo ==
  ASSUME NEW d \in Seq(Sentence), NEW x \in Sentence, NEW y \in Sentence, x.n = 0, y.n = 0,
         NEW t, NEW h \in Nat, NEW r \in Nat,
         NEW is, NEW heard, Follows(d, t, h, r), Heeds(d, t, is, heard)
  PROVE  /\ d \o <<x, y>> \in Seq(Sentence) /\ Holds(d \o <<x, y>>, x)
         /\ Follows(d \o <<x, y>>, t, h, r) /\ Heeds(d \o <<x, y>>, t, is, heard)
<1> DEFINE e == Append(d, x)
<1>1. /\ e \in Seq(Sentence) /\ Holds(e, x) /\ Follows(e, t, h, r) /\ Heeds(e, t, is, heard)
  BY PutMute
<1> HIDE DEF e
<1>2. /\ Append(e, y) \in Seq(Sentence) /\ Holds(Append(e, y), x)
      /\ Follows(Append(e, y), t, h, r) /\ Heeds(Append(e, y), t, is, heard)
  BY <1>1, PutMute
<1>3. d \o <<x, y>> = Append(e, y)
  BY Appendages DEF e
<1> QED
  BY <1>2, <1>3

LEMMA TakesTells ==
  ASSUME Typed, Tagged, Underway, Worked, RouterTakes, NEW t \in Owned,
         NEW h \in Nat, NEW heard,
         Follows(down, t, h, job[t].rows), Heeds(down, t, job[t].is, heard)
  PROVE  Follows(down', t, h, job'[t].rows) /\ Heeds(down', t, job'[t].is, heard)
<1> DEFINE r == Head(up)
<1>0. /\ down \in Seq(Sentence) /\ job \in [Tag -> Job] /\ t \in Tag /\ job[t].rows \in Nat
  BY OwnedTags DEF Typed, Job
<1>1. /\ r.tag \in Tag /\ r.cancels \in Tag \cup {0} /\ r = up[1] /\ 1 \in 1..Len(up)
  BY Requests DEF Request
<1>2. CASE r.cancels = 0 /\ job' = [job EXCEPT ![r.tag].is = "runs"] /\ UNCHANGED down
  <2>1. job'[t].rows = job[t].rows /\ (job'[t].is = job[t].is \/ job'[t].is = "runs")
    BY <1>0, <1>1, <1>2 DEF Job
  <2> QED
    BY <1>2, <2>1 DEF Heeds
<1>3. CASE /\ r.cancels # 0 /\ job' = [job EXCEPT ![r.cancels].is = "halted"]
           /\ down' = down \o <<Say(r.cancels, "interrupted", 0), Say(r.cancels, "done", 0),
                                Say(r.tag, "done", 0)>>
  <2> DEFINE x == Say(r.cancels, "interrupted", 0)
             y == Say(r.cancels, "done", 0)
             z == Say(r.tag, "done", 0)
             e == down \o <<x, y>>
  <2>1. x \in Sentence /\ y \in Sentence /\ z \in Sentence
    BY <1>1, SayTyped
  <2>2. x.n = 0 /\ y.n = 0 /\ z.n = 0
    BY DEF Say
  <2>3. /\ e \in Seq(Sentence) /\ Holds(e, x)
        /\ Follows(e, t, h, job[t].rows) /\ Heeds(e, t, job[t].is, heard)
    BY <1>0, <2>1, <2>2, PutTwo
  <2>4. down' = Append(e, z)
    BY <1>0, <1>3, <2>1, Appendages
  <2> HIDE DEF e
  <2>5. /\ Follows(down', t, h, job[t].rows) /\ Heeds(down', t, job[t].is, heard)
        /\ Holds(down', x)
    BY <1>0, <2>1, <2>2, <2>3, <2>4, PutMute
  <2>6. /\ job'[t].rows = job[t].rows
        /\ job'[t].is = job[t].is \/ (job'[t].is = "halted" /\ t = r.cancels)
    BY <1>0, <1>1, <1>3 DEF Job
  <2> QED
    BY <2>5, <2>6 DEF Heeds
<1>4. CASE down' = Append(down, Say(r.tag, "trap", 0)) /\ UNCHANGED job
  <2>1. Say(r.tag, "trap", 0) \in Sentence /\ Say(r.tag, "trap", 0).n = 0
    BY <1>1, SayTyped DEF Say
  <2> DEFINE x == Say(r.tag, "trap", 0)
  <2>2. Follows(Append(down, x), t, h, job[t].rows) /\ Heeds(Append(down, x), t, job[t].is, heard)
    <3>1. x \in Sentence /\ x.n = 0
      BY <2>1
    <3> HIDE DEF x
    <3> QED
      BY <1>0, <3>1, PutMute
  <2> QED
    BY <1>4, <2>2
<1> QED
  BY <1>2, <1>3, <1>4 DEF RouterTakes

LEMMA EndsTells ==
  ASSUME Typed, Tagged, Underway, Worked, NEW u \in Tag, RouterEnds(u), NEW t \in Owned,
         NEW h \in Nat, NEW heard,
         Follows(down, t, h, job[t].rows), Heeds(down, t, job[t].is, heard)
  PROVE  Follows(down', t, h, job'[t].rows) /\ Heeds(down', t, job'[t].is, heard)
<1>0. /\ down \in Seq(Sentence) /\ job \in [Tag -> Job] /\ t \in Tag
      /\ job[t].rows \in Nat /\ job[u].rows \in Nat
  BY OwnedTags DEF Typed, Job
<1>1. /\ Say(u, "done", 0) \in Sentence /\ Say(u, "done", 0).n = 0
      /\ Say(u, "empty", 0) \in Sentence /\ Say(u, "empty", 0).n = 0
      /\ Say(u, "trap", 0) \in Sentence /\ Say(u, "trap", 0).n = 0
      /\ Say(u, "interrupted", 0) \in Sentence /\ Say(u, "interrupted", 0).n = 0
  BY SayTyped DEF Say
<1>2. CASE job' = [job EXCEPT ![u].is = "done"]
           /\ \/ down' = Append(down, Say(u, "done", 0))
              \/ down' = down \o <<Say(u, "empty", 0), Say(u, "done", 0)>>
  <2>1. job'[t].rows = job[t].rows /\ (job'[t].is = job[t].is \/ job'[t].is = "done")
    BY <1>0, <1>2 DEF Job
  <2> DEFINE x == Say(u, "empty", 0)
             y == Say(u, "done", 0)
  <2>2. x \in Sentence /\ x.n = 0 /\ y \in Sentence /\ y.n = 0
    BY <1>1
  <2>3. down' = Append(down, y) \/ down' = down \o <<x, y>>
    BY <1>2
  <2> HIDE DEF x, y
  <2>4. Follows(Append(down, y), t, h, job[t].rows) /\ Heeds(Append(down, y), t, job[t].is, heard)
    BY <1>0, <2>2, PutMute
  <2>5. Follows(down \o <<x, y>>, t, h, job[t].rows) /\ Heeds(down \o <<x, y>>, t, job[t].is, heard)
    BY <1>0, <2>2, PutTwo
  <2> QED
    BY <2>1, <2>3, <2>4, <2>5 DEF Heeds
<1>3. CASE /\ job' = [job EXCEPT ![u].is = "done", ![u].rows = @ + 1]
           /\ down' = Append(down, Say(u, "done", job[u].rows + 1))
  <2> DEFINE x == Say(u, "done", job[u].rows + 1)
  <2>1. job[u].rows + 1 \in Nat /\ u \in Tag \cup {0}
    BY <1>0
  <2>2. x \in Sentence /\ x.tag = u /\ x.n = job[u].rows + 1
    BY <2>1, SayTyped DEF Say
  <2> HIDE DEF x
  <2>3. Heeds(down', t, job[t].is, heard)
    BY <1>0, <1>3, <2>2, HeedsPut DEF x
  <2>4. CASE t = u
    <3>1. job'[t].is = "done" /\ job'[t].rows = job[t].rows + 1
      BY <1>0, <1>3, <2>4 DEF Job
    <3>2. Follows(down', t, h, job[t].rows + 1)
      BY <1>0, <1>3, <2>2, <2>4, FollowsRow DEF x
    <3> QED
      BY <3>1, <3>2 DEF Heeds
  <2>5. CASE t # u
    <3>1. job'[t] = job[t]
      BY <1>0, <1>3, <2>5
    <3>2. Follows(down', t, h, job[t].rows)
      BY <1>0, <1>3, <2>2, <2>5, FollowsPut DEF x
    <3> QED
      BY <2>3, <3>1, <3>2
  <2> QED
    BY <2>4, <2>5
<1>4. CASE /\ job' = [job EXCEPT ![u].is = "trap"]
           /\ down' = down \o <<Say(u, "trap", 0), Say(u, "done", 0)>>
  <2>1. /\ job'[t].rows = job[t].rows
        /\ job'[t].is = job[t].is \/ (job'[t].is = "trap" /\ t = u)
    BY <1>0, <1>4 DEF Job
  <2>2. /\ Follows(down', t, h, job[t].rows) /\ Heeds(down', t, job[t].is, heard)
        /\ Holds(down', Say(u, "trap", 0))
    BY <1>0, <1>1, <1>4, PutTwo
  <2> QED
    BY <2>1, <2>2 DEF Heeds
<1>5. CASE /\ job' = [job EXCEPT ![u].is = "halted"]
           /\ down' = down \o <<Say(u, "interrupted", 0), Say(u, "done", 0)>>
  <2>1. /\ job'[t].rows = job[t].rows
        /\ job'[t].is = job[t].is \/ (job'[t].is = "halted" /\ t = u)
    BY <1>0, <1>5 DEF Job
  <2>2. /\ Follows(down', t, h, job[t].rows) /\ Heeds(down', t, job[t].is, heard)
        /\ Holds(down', Say(u, "interrupted", 0))
    BY <1>0, <1>1, <1>5, PutTwo
  <2> QED
    BY <2>1, <2>2 DEF Heeds
<1> QED
  BY <1>2, <1>3, <1>4, <1>5 DEF RouterEnds

LEMMA RowTells ==
  ASSUME Typed, Tagged, Underway, Worked, NEW u \in Tag, RouterRow(u), NEW t \in Owned,
         NEW h \in Nat, NEW heard,
         Follows(down, t, h, job[t].rows), Heeds(down, t, job[t].is, heard)
  PROVE  Follows(down', t, h, job'[t].rows) /\ Heeds(down', t, job'[t].is, heard)
<1> DEFINE x == Say(u, "row", job[u].rows + 1)
<1>0. /\ down \in Seq(Sentence) /\ job \in [Tag -> Job] /\ t \in Tag
      /\ job[t].rows \in Nat /\ job[u].rows \in Nat
      /\ job[u].rows + 1 \in Nat /\ u \in Tag \cup {0}
  BY OwnedTags DEF Typed, Job
<1>1. x \in Sentence /\ x.tag = u /\ x.n = job[u].rows + 1
  BY <1>0, SayTyped DEF Say
<1>2. down' = Append(down, x) /\ job' = [job EXCEPT ![u].rows = @ + 1]
  BY DEF RouterRow
<1> HIDE DEF x
<1>3. Heeds(down', t, job[t].is, heard) /\ job'[t].is = job[t].is
  <2>1. job'[t].is = job[t].is
    BY <1>0, <1>2 DEF Job
  <2> QED
    BY <1>0, <1>1, <1>2, <2>1, HeedsPut
<1>4. CASE t = u
  <2>1. job'[t].rows = job[t].rows + 1
    BY <1>0, <1>2, <1>4 DEF Job
  <2>2. Follows(down', t, h, job[t].rows + 1)
    BY <1>0, <1>1, <1>2, <1>4, FollowsRow
  <2> QED
    BY <1>3, <2>1, <2>2
<1>5. CASE t # u
  <2>1. job'[t] = job[t]
    BY <1>0, <1>2, <1>5
  <2>2. Follows(down', t, h, job[t].rows)
    BY <1>0, <1>1, <1>2, <1>5, FollowsPut
  <2> QED
    BY <1>3, <2>1, <2>2
<1> QED
  BY <1>4, <1>5

LEMMA FailsTells ==
  ASSUME Typed, Tagged, RouterFails, NEW t \in Owned,
         NEW h \in Nat, NEW heard,
         Follows(down, t, h, job[t].rows), Heeds(down, t, job[t].is, heard)
  PROVE  Follows(down', t, h, job'[t].rows) /\ Heeds(down', t, job'[t].is, heard)
<1>0. down \in Seq(Sentence) /\ job[t].rows \in Nat /\ job' = job
  BY OwnedTags DEF Typed, Job, RouterFails
<1>1. /\ Say(0, "fatal", 0) \in Sentence /\ Say(0, "fatal", 0).n = 0
      /\ Say(0, "garbage", 0) \in Sentence /\ Say(0, "garbage", 0).n = 0
  BY SayTyped DEF Say
<1>2. ASSUME NEW x \in Sentence, x.n = 0
      PROVE  /\ Follows(Append(down, x), t, h, job[t].rows)
             /\ Heeds(Append(down, x), t, job[t].is, heard)
  BY <1>0, <1>2, PutMute
<1>3. down' = Append(down, Say(0, "fatal", 0)) \/ down' = Append(down, Say(0, "garbage", 0))
  BY DEF RouterFails
<1> QED
  BY <1>0, <1>1, <1>2, <1>3

Works == RouterTakes \/ RouterFails \/ \E t \in Tag : RouterRow(t) \/ RouterEnds(t)

LEMMA RouterTells ==
  ASSUME Typed, Tagged, Underway, Worked, Works, NEW t \in Owned,
         NEW h \in Nat, NEW heard,
         Follows(down, t, h, job[t].rows), Heeds(down, t, job[t].is, heard)
  PROVE  Follows(down', t, h, job'[t].rows) /\ Heeds(down', t, job'[t].is, heard)
BY TakesTells, EndsTells, RowTells, FailsTells DEF Works

-----------------------------------------------------------------------------
(* What a call has heard, and has still to hear.                           *)
LEMMA Listeners ==
  ASSUME Typed, Tagged, Routed, NEW c \in Call, tagOf[c] \in pending \cup subs
  PROVE  /\ answer[c] = "open" /\ tagOf[c] \in Owned /\ tagOf[c] \in Tag /\ Owner(tagOf[c]) = c
         /\ tagOf[c] \in pending => c \in Talk
         /\ tagOf[c] \in subs => c \in Stream
<1>1. tagOf[c] \in Tag /\ tagOf[c] # 0
  BY Calls DEF Typed
<1>2. Owner(tagOf[c]) = c
  BY <1>1, Owners
<1> QED
  BY <1>1, <1>2, Waiters, Subscribers, OwnedTags

LEMMA Adds ==
  ASSUME NEW a \in Nat, NEW b \in Nat, NEW c \in Nat
  PROVE  /\ a + b + c \in Nat
         /\ a + 1 + (b - 1) + c = a + b + c
         /\ a + 1 + (c - 1) + 0 = a + 0 + c
OBVIOUS

LEMMA Counts ==
  ASSUME Typed, NEW c \in Call
  PROVE  /\ Len(got[c]) \in Nat /\ Heard[c] \in Nat
         /\ c \in Stream =>
              /\ Len(gen[c].batch) \in Nat /\ Len(gen[c].queue) \in Nat
              /\ Heard[c] = Len(got[c]) + Len(gen[c].batch) + Len(gen[c].queue)
         /\ c \notin Stream => Heard[c] = Len(got[c])
<1>1. got[c] \in Seq(Tag \X Nat)
  BY DEF Typed
<1>2. c \in Stream => gen[c].batch \in Seq(Tag \X Nat) /\ gen[c].queue \in Seq(Tag \X Nat)
  BY DEF Typed, Generator
<1>3. c \notin Stream => Heard[c] = Len(got[c])
  BY DEF Heard
<1>4. c \in Stream => Heard[c] = Len(got[c]) + Len(gen[c].batch) + Len(gen[c].queue)
  BY DEF Heard
<1>5. Len(got[c]) \in Nat
  BY <1>1
<1>6. c \in Stream => Len(gen[c].batch) \in Nat /\ Len(gen[c].queue) \in Nat
  BY <1>2
<1>7. c \in Stream => Len(got[c]) + Len(gen[c].batch) + Len(gen[c].queue) \in Nat
  BY <1>5, <1>6, Adds
<1>8. Heard[c] \in Nat
  BY <1>3, <1>4, <1>5, <1>7
<1> QED
  BY <1>3, <1>4, <1>5, <1>6, <1>8

LEMMA HeardSame ==
  ASSUME NEW c \in Call, got'[c] = got[c],
         c \in Stream => gen'[c].batch = gen[c].batch /\ gen'[c].queue = gen[c].queue
  PROVE  Heard'[c] = Heard[c]
BY DEF Heard

Receives == ToWaiter \/ ToSubscription \/ ToNobody

LEMMA HeardYields ==
  ASSUME Typed, NEW s \in Stream, Yields(s)
  PROVE  Heard'[s] = Heard[s]
<1>0. /\ s \in Call /\ gen \in [Stream -> Generator] /\ gen[s] \in Generator
      /\ got \in [Call -> Seq(Tag \X Nat)]
  BY Calls DEF Typed
<1> DEFINE fresh == gen[s].batch = <<>>
           batch == IF fresh THEN gen[s].queue ELSE gen[s].batch
<1>1. batch \in Seq(Tag \X Nat) /\ batch # <<>>
  BY <1>0 DEF Generator, Yields
<1>2. Len(got'[s]) = Len(got[s]) + 1
  BY <1>0, <1>1 DEF Yields
<1>3. gen' = [gen EXCEPT ![s].batch = Tail(batch), ![s].queue = IF fresh THEN <<>> ELSE @]
  BY DEF Yields
<1>4. gen'[s].batch = Tail(batch) /\ gen'[s].queue = IF fresh THEN <<>> ELSE gen[s].queue
  BY <1>0, <1>3 DEF Generator
<1>5. Len(Tail(batch)) = Len(batch) - 1 /\ Len(batch) \in Nat /\ Len(<<>>) = 0
  BY <1>1
<1>6. gen[s].batch \in Seq(Tag \X Nat) /\ gen[s].queue \in Seq(Tag \X Nat) /\ Len(got[s]) \in Nat
  BY <1>0 DEF Generator
<1>7. Heard'[s] = Len(got'[s]) + Len(gen'[s].batch) + Len(gen'[s].queue)
  BY <1>0 DEF Heard
<1>8. Heard[s] = Len(got[s]) + Len(gen[s].batch) + Len(gen[s].queue)
  BY <1>0 DEF Heard
<1>9. CASE fresh
  <2>1. /\ Len(gen[s].batch) = 0 /\ Len(gen'[s].queue) = 0
        /\ Len(gen'[s].batch) = Len(gen[s].queue) - 1 /\ Len(gen[s].queue) \in Nat
    BY <1>4, <1>5, <1>9
  <2>2. Heard'[s] = Len(got[s]) + 1 + (Len(gen[s].queue) - 1) + 0
    BY <1>2, <1>7, <2>1
  <2>3. Heard[s] = Len(got[s]) + 0 + Len(gen[s].queue)
    BY <1>8, <2>1
  <2>4. Len(got[s]) + 1 + (Len(gen[s].queue) - 1) + 0 = Len(got[s]) + 0 + Len(gen[s].queue)
    BY <1>6, <2>1, Adds
  <2> QED
    BY <2>2, <2>3, <2>4
<1>10. CASE ~fresh
  <2>1. /\ Len(gen'[s].batch) = Len(gen[s].batch) - 1 /\ Len(gen[s].batch) \in Nat
        /\ gen'[s].queue = gen[s].queue /\ Len(gen[s].queue) \in Nat
    BY <1>4, <1>5, <1>6, <1>10
  <2>2. Heard'[s] = Len(got[s]) + 1 + (Len(gen[s].batch) - 1) + Len(gen[s].queue)
    BY <1>2, <1>7, <2>1
  <2>3. Len(got[s]) + 1 + (Len(gen[s].batch) - 1) + Len(gen[s].queue)
          = Len(got[s]) + Len(gen[s].batch) + Len(gen[s].queue)
    BY <1>6, <2>1, Adds
  <2> QED
    BY <1>8, <2>2, <2>3
<1> QED
  BY <1>9, <1>10

LEMMA StillHears ==
  ASSUME Typed, Tagged, Routed, [SessionNext]_sessionVars, ~Works, NEW c \in Call,
         answer[c] = "open", tagOf[c] \in pending' \cup subs',
         ~(Receives /\ Next1.tag = tagOf[c])
  PROVE  /\ Heard'[c] = Heard[c] /\ trap'[c] = trap[c] /\ job' = job
         /\ tagOf[c] \in pending \cup subs
         /\ down' = down \/ (Dispatch /\ down' = Tail(down) /\ Next1.tag # tagOf[c])
<1> DEFINE t == tagOf[c]
<1>0. /\ gen \in [Stream -> Generator] /\ tagOf \in [Call -> Tag \cup {0}] /\ nextTag \in Nat
      /\ Talk \subseteq Call /\ Stream \subseteq Call /\ t <= nextTag /\ t # nextTag + 1
      /\ t \in Nat
  BY Calls DEF Typed, Tagged
<1>1. CASE Dies
  BY <1>1 DEF Dies, FailAll
<1>2. CASE Rests
  <2>1. Untouched(c)
    BY <1>2, Others
  <2> QED
    BY <1>2, <2>1, HeardSame DEF Untouched, Rests
<1>3. ASSUME NEW d \in Talk, Sends(d)
      PROVE  /\ Heard'[c] = Heard[c] /\ trap'[c] = trap[c] /\ job' = job
             /\ t \in pending \cup subs /\ down' = down
  <2>1. Untouched(c)
    BY <1>3, Others DEF Sends, SendTalk
  <2>2. /\ subs' = subs /\ job' = job /\ down' = down
        /\ pending' = pending \/ pending' = pending \cup {nextTag + 1}
    BY <1>3 DEF Sends, SendTalk
  <2> QED
    BY <1>0, <2>1, <2>2, HeardSame DEF Untouched
<1>4. ASSUME NEW s \in Stream, Listens(s)
      PROVE  /\ Heard'[c] = Heard[c] /\ trap'[c] = trap[c] /\ job' = job
             /\ t \in pending \cup subs /\ down' = down
  <2>1. Untouched(c)
    BY <1>4, Others DEF Listens
  <2>2. /\ pending' = pending /\ job' = job /\ down' = down
        /\ subs' = subs \/ subs' = subs \cup {nextTag + 1}
    BY <1>4 DEF Listens
  <2> QED
    BY <1>0, <2>1, <2>2, HeardSame DEF Untouched
<1>5. ASSUME NEW s \in Stream, Abort(s) \/ GraceExpires(s) \/ Yields(s) \/ Unwinds(s)
      PROVE  /\ Heard'[c] = Heard[c] /\ trap'[c] = trap[c] /\ job' = job
             /\ t \in pending \cup subs /\ down' = down
  <2>1. /\ trap' = trap /\ job' = job /\ down' = down /\ pending' = pending
        /\ \A u \in subs' : u \in subs
    BY <1>5 DEF Abort, GraceExpires, Yields, Unwinds, Unwind
  <2>2. t \in pending \cup subs
    BY <2>1
  <2>3. CASE c # s
    <3>1. Untouched(c)
      BY <1>5, <2>3, Others
    <3> QED
      BY <2>1, <2>2, <3>1, HeardSame DEF Untouched
  <2>4. CASE c = s /\ Abort(s)
    <3>1. got' = got /\ gen'[c].batch = gen[c].batch /\ gen'[c].queue = gen[c].queue
      BY <1>0, <2>4 DEF Abort, Generator
    <3> QED
      BY <2>1, <2>2, <3>1, HeardSame
  <2>5. CASE c = s /\ GraceExpires(s)
    <3>1. t \notin pending
      BY <2>2, <2>5, Listeners, Calls
    <3>2. subs' = subs
      BY <2>1, <2>5, <3>1 DEF GraceExpires
    <3>3. gen' = [gen EXCEPT ![s].grace = "off"] /\ got' = got
      BY <2>1, <2>5, <3>1 DEF GraceExpires
    <3>4. gen'[c].batch = gen[c].batch /\ gen'[c].queue = gen[c].queue
      BY <1>0, <2>5, <3>3 DEF Generator
    <3> QED
      BY <2>1, <2>2, <3>3, <3>4, HeardSame
  <2>6. CASE c = s /\ Yields(s)
    BY <2>1, <2>2, <2>6, HeardYields
  <2>7. CASE c = s /\ Unwinds(s)
    <3>1. t \notin pending
      BY <2>2, <2>7, Listeners, Calls
    <3> QED
      BY <2>1, <2>7, <3>1 DEF Unwinds, Unwind
  <2> QED
    BY <1>5, <2>3, <2>4, <2>5, <2>6, <2>7
<1>6. CASE Receives
  <2>1. /\ Dispatch /\ down' = Tail(down) /\ Next1.tag # t /\ job' = job
        /\ \A u \in pending' \cup subs' : u \in pending \cup subs
    BY <1>6 DEF Receives, ToWaiter, ToSubscription, ToNobody, NoFailure, Dispatch, Consume
  <2>2. Untouched(c)
    <3>1. ToWaiter => Owner(Next1.tag) # c
      BY <2>1, Waiters DEF ToWaiter
    <3>2. ToSubscription => Owner(Next1.tag) # c
      BY <2>1, Subscribers DEF ToSubscription
    <3> QED
      BY <1>6, <3>1, <3>2, Others DEF Receives
  <2> QED
    BY <2>1, <2>2, HeardSame DEF Untouched
<1> QED
  BY <1>1, <1>2, <1>3, <1>4, <1>5, <1>6, StepKinds DEF Receives, Works, Rests

LEMMA Received ==
  ASSUME Typed, Said, Dispatch
  PROVE  /\ Next1 \in Sentence /\ Next1.n \in Nat /\ down[1] = Next1 /\ down # <<>>
         /\ Fits(Next1, Owned, Streamed, nextTag, job)
<1>1. /\ Next1 \in Sentence /\ down[1] = Next1 /\ 1 \in 1..Len(down) /\ Len(down) # 0
  BY Heads
<1>2. down # <<>> /\ Next1.n \in Nat
  BY <1>1 DEF Sentence
<1>3. Fits(down[1], Owned, Streamed, nextTag, job)
  BY <1>1 DEF Said, AllFit
<1> QED
  BY <1>1, <1>2, <1>3

LEMMA NowHears ==
  ASSUME Typed, Tagged, Routed, Said, Receives, NEW c \in Call, tagOf[c] \in pending \cup subs,
         Next1.tag = tagOf[c], tagOf[c] \in pending' \cup subs'
  PROVE  /\ Dispatch /\ down' = Tail(down) /\ job' = job
         /\ Next1.n > 0 => Heard'[c] = Heard[c] + 1
         /\ ~(Next1.n > 0) => Heard'[c] = Heard[c]
         /\ \/ trap'[c] = trap[c] /\ Next1.is # "trap" /\ Next1.is # "interrupted"
            \/ trap'[c] = "bad"
            \/ trap'[c] = "ack" /\ Next1.is = "interrupted"
<1>0. /\ gen \in [Stream -> Generator] /\ got \in [Call -> Seq(Tag \X Nat)]
      /\ trap \in [Call -> {"none", "bad", "ack"}]
  BY DEF Typed
<1>1. Dispatch /\ down' = Tail(down) /\ job' = job
  BY DEF Receives, ToWaiter, ToSubscription, ToNobody, Dispatch, Consume
<1>2. Fits(Next1, Owned, Streamed, nextTag, job) /\ tagOf[c] \in Owned /\ Owner(Next1.tag) = c
      /\ Next1.n \in Nat
  BY <1>1, Received, Listeners
<1>3. CASE ToWaiter
  <2>1. c \in Talk /\ c \notin Stream /\ tagOf[c] \notin subs /\ subs' = subs
    BY <1>2, <1>3, Waiters, Calls DEF ToWaiter
  <2>3. CASE /\ Next1.is = "row" /\ trap' = trap
             /\ got' = [got EXCEPT ![c] = Append(@, <<Next1.tag, Next1.n>>)]
    <3>1. Len(got'[c]) = Len(got[c]) + 1
      BY <1>0, <2>3
    <3>2. Heard'[c] = Heard[c] + 1
      BY <2>1, <3>1 DEF Heard
    <3> QED
      BY <1>1, <1>2, <2>3, <3>2 DEF Fits
  <2>4. CASE Next1.is = "empty" /\ UNCHANGED <<got, trap>>
    <3>1. Heard'[c] = Heard[c]
      BY <2>1, <2>4, HeardSame
    <3> QED
      BY <1>1, <1>2, <2>4, <3>1 DEF Fits
  <2>5. CASE (Next1.is = "trap" \/ Next1.is = "interrupted") /\ got' = got
             /\ trap' = [trap EXCEPT ![c] = "bad"]
    <3>1. Heard'[c] = Heard[c]
      BY <2>1, <2>5, HeardSame
    <3>2. trap'[c] = "bad"
      BY <1>0, <2>5
    <3> QED
      BY <1>1, <1>2, <2>5, <3>1, <3>2 DEF Fits
  <2>6. CASE pending' = pending \ {Next1.tag}
    BY <2>1, <2>6
  <2> QED
    BY <1>2, <1>3, <2>3, <2>4, <2>5, <2>6 DEF ToWaiter
<1>4. CASE ToSubscription
  <2>1. c \in Stream /\ tagOf[c] \in Streamed /\ tagOf[c] \notin pending
    <3>1. c \in Stream /\ tagOf[c] # 0
      BY <1>2, <1>4, Subscribers, Calls DEF ToSubscription, Typed
    <3>2. tagOf[c] \notin pending
      BY <3>1, Listeners, Calls
    <3> QED
      BY <3>1, <3>2, OwnedTags
  <2>2. got' = got /\ pending' = pending
    BY <1>4 DEF ToSubscription
  <2>3. CASE /\ Next1.is = "row" \/ Next1.is = "empty"
             /\ gen' = [gen EXCEPT ![c].queue = Append(@, <<Next1.tag, Next1.n>>)] /\ trap' = trap
    <3>1. Next1.is = "row" /\ Next1.n > 0
      BY <1>2, <2>1, <2>3 DEF Fits
    <3>2. gen'[c].queue = Append(gen[c].queue, <<Next1.tag, Next1.n>>) /\ gen'[c].batch = gen[c].batch
      BY <1>0, <2>1, <2>3 DEF Generator
    <3>3. gen[c].queue \in Seq(Tag \X Nat)
      BY <1>0, <2>1 DEF Generator
    <3>4. Len(gen'[c].queue) = Len(gen[c].queue) + 1
      BY <3>2, <3>3
    <3>5. Heard'[c] = Len(got[c]) + Len(gen[c].batch) + (Len(gen[c].queue) + 1)
      BY <2>1, <2>2, <3>2, <3>4 DEF Heard
    <3>6. Heard'[c] = Heard[c] + 1
      <4>1. \A a, b, d \in Nat : a + b + (d + 1) = a + b + d + 1
        OBVIOUS
      <4>2. /\ Len(got[c]) \in Nat /\ Len(gen[c].batch) \in Nat /\ Len(gen[c].queue) \in Nat
            /\ Heard[c] = Len(got[c]) + Len(gen[c].batch) + Len(gen[c].queue)
        BY <2>1, Counts
      <4>3. Len(got[c]) + Len(gen[c].batch) + (Len(gen[c].queue) + 1)
              = Len(got[c]) + Len(gen[c].batch) + Len(gen[c].queue) + 1
        BY <4>1, <4>2
      <4> QED
        BY <3>5, <4>2, <4>3
    <3> QED
      BY <1>1, <2>3, <3>1, <3>6
  <2>4. CASE /\ Next1.is = "trap" \/ Next1.is = "interrupted"
             /\ trap' = [trap EXCEPT ![c] = IF Next1.is = "interrupted" /\ gen[c].aborted
                                            THEN "ack" ELSE "bad"] /\ gen' = gen
    <3>1. Heard'[c] = Heard[c]
      BY <2>2, <2>4, HeardSame
    <3>2. trap'[c] = "bad" \/ (trap'[c] = "ack" /\ Next1.is = "interrupted")
      BY <1>0, <2>4
    <3> QED
      BY <1>1, <1>2, <2>4, <3>1, <3>2 DEF Fits
  <2>5. CASE subs' = subs \ {Next1.tag}
    BY <2>1, <2>2, <2>5
  <2> QED
    BY <1>2, <1>4, <2>3, <2>4, <2>5 DEF ToSubscription
<1>5. CASE ToNobody
  BY <1>5 DEF ToNobody
<1> QED
  BY <1>3, <1>4, <1>5 DEF Receives

(* A call that is just sent has nothing behind it.                         *)
LEMMA GrantLeaves ==
  ASSUME Typed, Tagged, Routed, [SessionNext]_sessionVars, NEW c \in Call, Grants(c)
  PROVE  UNCHANGED <<got, down, trap, gen, job>>
<1>1. tagOf' # tagOf
  <2>1. tagOf[c] = 0 /\ nextTag \in Nat /\ tagOf \in [Call -> Tag \cup {0}]
    BY DEF Grants, Tagged, Typed
  <2>2. tagOf'[c] = nextTag + 1
    BY <2>1 DEF Grants
  <2> QED
    BY <2>1, <2>2
<1>2. CASE \E d \in Talk : Sends(d)
  BY <1>2 DEF Sends
<1>3. CASE \E s \in Stream : Listens(s)
  BY <1>3 DEF Listens
<1>4. CASE \/ Dies \/ Rests \/ ToWaiter \/ ToSubscription \/ ToNobody \/ Works
           \/ \E s \in Stream : Abort(s) \/ GraceExpires(s) \/ Yields(s) \/ Unwinds(s)
  BY <1>1, <1>4 DEF Dies, Rests, ToWaiter, ToSubscription, ToNobody, Dispatch, Works, RouterTakes,
    RouterFails, RouterRow, RouterEnds, RouterVars, Abort, GraceExpires, Yields, Unwinds, Unwind
<1> QED
  BY <1>2, <1>3, <1>4, StepKinds DEF Works

LEMMA UnheardStep ==
  ASSUME Typed, Typed', Tagged, Tagged', Routed, Routed', Underway, Worked, Said, Unheard,
         [SessionNext]_sessionVars
  PROVE  Unheard'
<1> SUFFICES ASSUME NEW c \in Call, tagOf'[c] \in pending' \cup subs'
             PROVE  /\ Follows(down', tagOf'[c], Heard'[c], job'[tagOf'[c]].rows)
                    /\ Heeds(down', tagOf'[c], job'[tagOf'[c]].is, trap'[c])
  BY DEF Unheard
<1> DEFINE t == tagOf'[c]
<1>0. /\ down \in Seq(Sentence) /\ job \in [Tag -> Job] /\ t \in Tag /\ t \in Nat /\ t # 0 /\ nextTag \in Nat
      /\ tagOf \in [Call -> Tag \cup {0}]
  <2>1. t \in Tag
    BY DEF Typed
  <2>2. t \in Nat /\ t # 0
    BY <2>1, Calls
  <2>3. /\ down \in Seq(Sentence) /\ job \in [Tag -> Job] /\ nextTag \in Nat
        /\ tagOf \in [Call -> Tag \cup {0}]
    BY DEF Typed
  <2> QED
    BY <2>1, <2>2, <2>3
<1>1. answer'[c] = "open"
  <2>1. \E d \in Call : answer'[d] = "open" /\ tagOf'[d] = t
    BY Calls DEF Routed
  <2> QED
    BY <1>0, <2>1, Calls DEF Tagged
<1>2. CASE Grants(c)
  <2>1. UNCHANGED <<got, down, trap, gen, job>>
    BY <1>2, GrantLeaves
  <2>2. t = nextTag + 1
    BY <1>0, <1>2 DEF Grants
  <2>3. \A i \in 1..Len(down) : down[i].tag # t
    <3>1. ASSUME NEW i \in 1..Len(down)
          PROVE  down[i].tag # t
      <4>1. down[i].tag <= nextTag
        BY DEF Said, AllFit, Fits
      <4> QED
        BY <1>0, <2>2, <4>1
    <3> QED
      BY <3>1
  <2>4. job[t].is = "none" /\ job[t].rows = 0
    BY <1>0, <2>2, OwnedTags DEF Worked
  <2>5. Heard'[c] = 0
    <3>1. /\ got[c] = <<>>
          /\ c \in Stream => gen[c].batch = <<>> /\ gen[c].queue = <<>>
      BY <1>2 DEF Grants, Tagged
    <3>2. Len(<<>>) = 0 /\ 0 + 0 + 0 = 0
      OBVIOUS
    <3> QED
      BY <2>1, <3>1, <3>2 DEF Heard
  <2>6. Follows(down, t, 0, 0)
    BY <2>3 DEF Follows
  <2> QED
    BY <2>1, <2>4, <2>5, <2>6 DEF Heeds
<1>3. CASE answer[c] = "open" /\ tagOf'[c] = tagOf[c] /\ Works
  <2>1. UNCHANGED <<got, gen, trap, pending, subs>>
    BY <1>3 DEF Works, RouterTakes, RouterFails, RouterRow, RouterEnds, RouterVars
  <2>2. Heard'[c] = Heard[c] /\ Heard[c] \in Nat
    BY <2>1, HeardSame, Counts
  <2>3. Follows(down, t, Heard[c], job[t].rows) /\ Heeds(down, t, job[t].is, trap[c])
    BY <1>3, <2>1 DEF Unheard
  <2>4. t \in Owned
    <3>1. tagOf[c] # 0
      BY <1>0, <1>3
    <3>2. tagOf[c] \in Owned
      BY <3>1, OwnedTags
    <3> QED
      BY <1>3, <3>2
  <2> QED
    BY <1>3, <2>1, <2>2, <2>3, <2>4, RouterTells
<1>4. CASE answer[c] = "open" /\ tagOf'[c] = tagOf[c] /\ ~Works /\ ~(Receives /\ Next1.tag = tagOf[c])
  <2>1. /\ Heard'[c] = Heard[c] /\ trap'[c] = trap[c] /\ job' = job
        /\ tagOf[c] \in pending \cup subs
        /\ down' = down \/ (Dispatch /\ down' = Tail(down) /\ Next1.tag # tagOf[c])
    BY <1>4, StillHears
  <2>2. /\ Follows(down, t, Heard[c], job[t].rows) /\ Heeds(down, t, job[t].is, trap[c])
        /\ Heard[c] \in Nat /\ job[t].rows \in Nat
    BY <1>0, <1>4, <2>1, Counts DEF Unheard, Job
  <2>3. CASE down' = down
    BY <1>4, <2>1, <2>2, <2>3
  <2>4. CASE Dispatch /\ down' = Tail(down) /\ Next1.tag # t
    <3>1. down # <<>> /\ down[1] = Next1
      BY <2>4, Received
    <3>2. Follows(Tail(down), t, Heard[c], job[t].rows)
      BY <1>0, <2>2, <2>4, <3>1, FollowsTaken
    <3>3. \A what : Holds(down, Say(t, what, 0)) => Holds(Tail(down), Say(t, what, 0))
      <4>1. \A what : Say(t, what, 0) # down[1]
        BY <2>4, <3>1 DEF Say
      <4> QED
        BY <1>0, <3>1, <4>1, HoldsTaken
    <3> QED
      BY <1>4, <2>1, <2>2, <2>4, <3>2, <3>3 DEF Heeds
  <2> QED
    BY <1>4, <2>1, <2>3, <2>4
<1>5. CASE answer[c] = "open" /\ tagOf'[c] = tagOf[c] /\ Receives /\ Next1.tag = tagOf[c]
  <2>1. tagOf[c] \in pending \cup subs
    <3>1. \A u \in pending' \cup subs' : u \in pending \cup subs
      BY <1>5 DEF Receives, ToWaiter, ToSubscription, ToNobody, NoFailure
    <3> QED
      BY <1>5, <3>1
  <2>2. /\ Dispatch /\ down' = Tail(down) /\ job' = job
        /\ Next1.n > 0 => Heard'[c] = Heard[c] + 1
        /\ ~(Next1.n > 0) => Heard'[c] = Heard[c]
        /\ \/ trap'[c] = trap[c] /\ Next1.is # "trap" /\ Next1.is # "interrupted"
           \/ trap'[c] = "bad"
           \/ trap'[c] = "ack" /\ Next1.is = "interrupted"
    BY <1>5, <2>1, NowHears
  <2>3. /\ Follows(down, t, Heard[c], job[t].rows) /\ Heeds(down, t, job[t].is, trap[c])
        /\ Heard[c] \in Nat /\ job[t].rows \in Nat
    BY <1>0, <1>5, <2>1, Counts DEF Unheard, Job
  <2>4. /\ down # <<>> /\ down[1] = Next1 /\ Fits(Next1, Owned, Streamed, nextTag, job)
        /\ t \in Owned
    <3>1. tagOf[c] # 0
      BY <1>0, <1>5
    <3>2. tagOf[c] \in Owned
      BY <3>1, OwnedTags
    <3> QED
      BY <1>5, <2>2, <3>2, Received
  <2>5. Follows(Tail(down), t, Heard'[c], job[t].rows)
    BY <1>0, <1>5, <2>2, <2>3, <2>4, FollowsTaken
  <2>6. \A what : Next1.is # what /\ Holds(down, Say(t, what, 0)) => Holds(Tail(down), Say(t, what, 0))
    <3>1. \A what : Next1.is # what => Say(t, what, 0) # down[1]
      BY <2>4 DEF Say
    <3> QED
      BY <1>0, <2>4, <3>1, HoldsTaken
  <2>7. job[t].is = "trap" => trap'[c] = "bad" \/ Holds(Tail(down), Say(t, "trap", 0))
    <3>1. Next1.is = "interrupted" => job[t].is = "halted"
      BY <1>5, <2>4 DEF Fits
    <3> QED
      BY <2>2, <2>3, <2>6, <3>1 DEF Heeds
  <2>8. job[t].is = "halted" => trap'[c] # "none" \/ Holds(Tail(down), Say(t, "interrupted", 0))
    BY <2>2, <2>3, <2>6 DEF Heeds
  <2> QED
    BY <1>5, <2>2, <2>5, <2>7, <2>8 DEF Heeds
<1>6. (answer[c] = "open" /\ tagOf'[c] = tagOf[c]) \/ Grants(c)
  BY <1>1, OpenSteps
<1> QED
  BY <1>2, <1>3, <1>4, <1>5, <1>6

-----------------------------------------------------------------------------
(* Every call gets the rows of its own command, and in order.              *)
LEMMA NumberedPut ==
  ASSUME NEW S, NEW q \in Seq(S), NEW t, NEW k \in Nat, Numbered(q, t, k),
         NEW e \in S, e = <<t, k + (Len(q) + 1)>>
  PROVE  Numbered(Append(q, e), t, k)
<1> DEFINE p == Append(q, e)
<1>1. /\ \A i \in 1..Len(q) : p[i] = q[i]
      /\ \A i \in 1..Len(p) : i \in 1..Len(q) \/ i = Len(q) + 1
      /\ p[Len(q) + 1] = e
  BY Longer
<1> HIDE DEF p
<1>2. ASSUME NEW i \in 1..Len(p)
      PROVE  p[i] = <<t, k + i>>
  <2>1. CASE i \in 1..Len(q)
    BY <1>1, <2>1 DEF Numbered
  <2>2. CASE i = Len(q) + 1
    BY <1>1, <2>2
  <2> QED
    BY <1>1, <2>1, <2>2
<1> QED
  BY <1>2 DEF Numbered, p

LEMMA NumberedTaken ==
  ASSUME NEW S, NEW q \in Seq(S), q # <<>>, NEW t, NEW k \in Nat, Numbered(q, t, k)
  PROVE  Head(q) = <<t, k + 1>> /\ Numbered(Tail(q), t, k + 1)
<1>1. /\ 1 \in 1..Len(q) /\ Head(q) = q[1]
      /\ \A i \in 1..Len(Tail(q)) : i + 1 \in 1..Len(q) /\ Tail(q)[i] = q[i + 1] /\ i \in Nat
  BY Shorter
<1>2. \A i \in Nat : k + (i + 1) = k + 1 + i
  OBVIOUS
<1> QED
  BY <1>1, <1>2 DEF Numbered

LEMMA NumberedNone ==
  ASSUME NEW t, NEW k
  PROVE  Numbered(<<>>, t, k)
BY DEF Numbered

LEMMA FirstRow ==
  ASSUME Typed, Tagged, Routed, Said, Unheard, Dispatch, NEW c \in Call,
         tagOf[c] \in pending \cup subs, Next1.tag = tagOf[c], Next1.n > 0
  PROVE  Next1.n = Heard[c] + 1 /\ Heard[c] + 1 <= job[tagOf[c]].rows
<1>1. /\ down \in Seq(Sentence) /\ job \in [Tag -> Job] /\ tagOf[c] \in Tag /\ Heard[c] \in Nat
      /\ Follows(down, tagOf[c], Heard[c], job[tagOf[c]].rows)
  BY Listeners, Counts DEF Typed, Unheard
<1>2. job[tagOf[c]].rows \in Nat
  BY <1>1 DEF Job
<1>3. down # <<>> /\ down[1] = Next1
  BY Received
<1> QED
  BY <1>1, <1>2, <1>3, FollowsFirst

OwnGot(c) == Numbered(got[c], tagOf[c], 0)

OwnGen(s) ==
  /\ Numbered(gen[s].batch, tagOf[s], Len(got[s]))
  /\ Numbered(gen[s].queue, tagOf[s], Len(got[s]) + Len(gen[s].batch))

LEMMA OwnSame ==
  ASSUME OwnRows, NEW c \in Call, got'[c] = got[c], tagOf'[c] = tagOf[c],
         c \in Stream => gen'[c].batch = gen[c].batch
                         /\ (gen'[c].queue = gen[c].queue \/ gen'[c].queue = <<>>)
  PROVE  OwnGot(c)' /\ (c \in Stream => OwnGen(c)')
BY NumberedNone DEF OwnRows, OwnGot, OwnGen

LEMMA OwnYields ==
  ASSUME Typed, OwnRows, NEW s \in Stream, Yields(s)
  PROVE  OwnGot(s)' /\ OwnGen(s)'
<1>0. /\ s \in Call /\ gen \in [Stream -> Generator] /\ gen[s] \in Generator
      /\ got \in [Call -> Seq(Tag \X Nat)] /\ Len(got[s]) \in Nat
  BY Calls, Counts DEF Typed
<1> DEFINE fresh == gen[s].batch = <<>>
           batch == IF fresh THEN gen[s].queue ELSE gen[s].batch
           k == Len(got[s])
<1>1. /\ batch \in Seq(Tag \X Nat) /\ batch # <<>> /\ tagOf' = tagOf
      /\ gen[s].batch \in Seq(Tag \X Nat)
  BY <1>0 DEF Generator, Yields
<1>2. Numbered(batch, tagOf[s], k)
  <2>1. fresh => k + Len(gen[s].batch) = k
    BY <1>0
  <2>2. Numbered(gen[s].batch, tagOf[s], k) /\ Numbered(gen[s].queue, tagOf[s], k + Len(gen[s].batch))
    BY DEF OwnRows
  <2> QED
    BY <2>1, <2>2
<1>3. Head(batch) = <<tagOf[s], k + 1>> /\ Numbered(Tail(batch), tagOf[s], k + 1)
  BY <1>0, <1>1, <1>2, NumberedTaken
<1>4. got'[s] = Append(got[s], Head(batch))
  BY <1>0 DEF Yields
<1>5. gen' = [gen EXCEPT ![s].batch = Tail(batch), ![s].queue = IF fresh THEN <<>> ELSE @]
  BY DEF Yields
<1>6. gen'[s].batch = Tail(batch) /\ gen'[s].queue = IF fresh THEN <<>> ELSE gen[s].queue
  BY <1>0, <1>5 DEF Generator
<1>7. Head(batch) \in Tag \X Nat /\ Len(got'[s]) = k + 1 /\ Len(Tail(batch)) = Len(batch) - 1
      /\ Len(batch) \in Nat
  BY <1>0, <1>1, <1>4
<1>8. OwnGot(s)'
  <2>1. Head(batch) = <<tagOf[s], 0 + (Len(got[s]) + 1)>> /\ got[s] \in Seq(Tag \X Nat)
        /\ Numbered(got[s], tagOf[s], 0)
    BY <1>0, <1>3 DEF OwnRows
  <2>2. Numbered(Append(got[s], Head(batch)), tagOf[s], 0)
    BY <1>7, <2>1, NumberedPut
  <2> QED
    BY <1>1, <1>4, <2>2 DEF OwnGot
<1>9. Numbered(gen'[s].queue, tagOf[s], k + 1 + Len(gen'[s].batch))
  <2>1. CASE fresh
    BY <1>6, <2>1, NumberedNone
  <2>2. CASE ~fresh
    <3>1. k + 1 + (Len(batch) - 1) = k + Len(batch)
      <4>1. \A a, b \in Nat : a + 1 + (b - 1) = a + b
        OBVIOUS
      <4> QED
        BY <1>0, <1>7, <4>1
    <3>2. Numbered(gen[s].queue, tagOf[s], k + Len(gen[s].batch))
      BY DEF OwnRows
    <3> QED
      BY <1>6, <1>7, <2>2, <3>1, <3>2
  <2> QED
    BY <2>1, <2>2
<1> QED
  BY <1>1, <1>3, <1>6, <1>7, <1>8, <1>9 DEF OwnGen

LEMMA OwnReceives ==
  ASSUME Typed, Tagged, Routed, Said, Unheard, OwnRows, Receives, NEW c \in Call
  PROVE  OwnGot(c)' /\ (c \in Stream => OwnGen(c)')
<1>0. /\ gen \in [Stream -> Generator] /\ got \in [Call -> Seq(Tag \X Nat)] /\ tagOf' = tagOf
      /\ tagOf[c] \in Tag \cup {0} /\ Dispatch
  BY DEF Typed, Receives, ToWaiter, ToSubscription, ToNobody, Dispatch
<1>1. CASE got'[c] = got[c] /\ (c \in Stream => gen'[c] = gen[c])
  BY <1>0, <1>1, OwnSame
<1>2. CASE /\ tagOf[c] \in pending \cup subs /\ Next1.tag = tagOf[c] /\ Next1.n > 0
           /\ got' = [got EXCEPT ![c] = Append(@, <<Next1.tag, Next1.n>>)] /\ c \notin Stream
  <2>1. Next1.n = Len(got[c]) + 1 /\ got[c] \in Seq(Tag \X Nat) /\ Next1.n \in Nat
        /\ Len(got[c]) \in Nat /\ tagOf[c] \in Tag
    BY <1>0, <1>2, FirstRow, Counts, Received, Listeners
  <2> DEFINE e == <<Next1.tag, Next1.n>>
  <2>2. e \in Tag \X Nat /\ e = <<tagOf[c], 0 + (Len(got[c]) + 1)>>
    BY <1>2, <2>1
  <2>3. Numbered(got[c], tagOf[c], 0) /\ got'[c] = Append(got[c], e)
    BY <1>0, <1>2 DEF OwnRows
  <2> HIDE DEF e
  <2>4. Numbered(Append(got[c], e), tagOf[c], 0)
    BY <2>1, <2>2, <2>3, NumberedPut
  <2> QED
    BY <1>0, <1>2, <2>3, <2>4 DEF OwnGot
<1>3. CASE /\ tagOf[c] \in subs /\ Next1.tag = tagOf[c] /\ Next1.n > 0 /\ c \in Stream /\ got' = got
           /\ gen' = [gen EXCEPT ![c].queue = Append(@, <<Next1.tag, Next1.n>>)]
  <2> DEFINE e == <<Next1.tag, Next1.n>>
             k == Len(got[c]) + Len(gen[c].batch)
  <2>1. /\ gen[c].queue \in Seq(Tag \X Nat) /\ Next1.n \in Nat /\ tagOf[c] \in Tag
        /\ Len(got[c]) \in Nat /\ Len(gen[c].batch) \in Nat /\ Len(gen[c].queue) \in Nat
        /\ Heard[c] = Len(got[c]) + Len(gen[c].batch) + Len(gen[c].queue)
        /\ Next1.n = Heard[c] + 1
    BY <1>0, <1>3, FirstRow, Counts, Received, Listeners DEF Generator
  <2>2. k \in Nat /\ e = <<tagOf[c], k + (Len(gen[c].queue) + 1)>>
    <3>1. \A a, b, d \in Nat : a + b \in Nat /\ a + b + d + 1 = a + b + (d + 1)
      OBVIOUS
    <3>2. k \in Nat /\ Next1.n = k + (Len(gen[c].queue) + 1)
      <4> DEFINE x == Len(got[c])
                 y == Len(gen[c].batch)
                 z == Len(gen[c].queue)
      <4>1. x \in Nat /\ y \in Nat /\ z \in Nat /\ Next1.n = x + y + z + 1
        BY <2>1
      <4> HIDE DEF x, y, z
      <4>2. x + y \in Nat /\ Next1.n = x + y + (z + 1)
        BY <3>1, <4>1
      <4> USE DEF x, y, z
      <4> QED
        BY <4>2
    <3> QED
      BY <1>3, <3>2
  <2>3. e \in Tag \X Nat
    BY <1>3, <2>1
  <2>4. Numbered(gen[c].queue, tagOf[c], k) /\ Numbered(gen[c].batch, tagOf[c], Len(got[c]))
    BY <1>3 DEF OwnRows
  <2>5. gen'[c].queue = Append(gen[c].queue, e) /\ gen'[c].batch = gen[c].batch
    BY <1>0, <1>3 DEF Generator
  <2> HIDE DEF e
  <2>6. Numbered(gen'[c].queue, tagOf[c], k)
    BY <2>1, <2>2, <2>3, <2>4, <2>5, NumberedPut
  <2>7. OwnGot(c)'
    BY <1>0, <1>3 DEF OwnRows, OwnGot
  <2> QED
    BY <1>0, <1>3, <2>4, <2>5, <2>6, <2>7 DEF OwnGen
<1>4. CASE ToWaiter /\ c = Owner(Next1.tag)
  <2>1. c \in Talk /\ c \notin Stream /\ tagOf[c] = Next1.tag /\ tagOf[c] \in pending
    BY <1>4, Waiters, Calls DEF ToWaiter
  <2>2. Next1.is = "row" => Next1.n > 0
    BY <1>0, Received DEF Fits
  <2>3. \/ got' = got
        \/ Next1.n > 0 /\ got' = [got EXCEPT ![c] = Append(@, <<Next1.tag, Next1.n>>)]
    BY <1>4, <2>2 DEF ToWaiter
  <2> QED
    BY <1>1, <1>2, <2>1, <2>3
<1>5. CASE ToSubscription /\ c = Owner(Next1.tag)
  <2>1. c \in Stream /\ tagOf[c] = Next1.tag /\ tagOf[c] \in subs /\ got' = got
    BY <1>5, Subscribers DEF ToSubscription
  <2>2. tagOf[c] \in Streamed
    BY <2>1, Listeners, OwnedTags, Calls DEF Streamed
  <2>3. Next1.is = "row" \/ Next1.is = "empty" => Next1.n > 0
    BY <1>0, <2>1, <2>2, Received DEF Fits
  <2>4. \/ gen' = gen
        \/ /\ Next1.is = "row" \/ Next1.is = "empty"
           /\ gen' = [gen EXCEPT ![c].queue = Append(@, <<Next1.tag, Next1.n>>)]
        \/ gen' = [gen EXCEPT ![c].ended = TRUE]
    BY <1>5 DEF ToSubscription
  <2>5. CASE gen' = [gen EXCEPT ![c].ended = TRUE]
    <3>1. gen'[c].batch = gen[c].batch /\ gen'[c].queue = gen[c].queue
      BY <1>0, <2>1, <2>5 DEF Generator
    <3> QED
      BY <1>0, <2>1, <3>1, OwnSame
  <2> QED
    BY <1>1, <1>3, <2>1, <2>3, <2>4, <2>5
<1>6. CASE ToNobody \/ ((ToWaiter \/ ToSubscription) /\ c # Owner(Next1.tag))
  <2>1. Untouched(c)
    BY <1>6, Others
  <2> QED
    BY <1>1, <2>1 DEF Untouched
<1> QED
  BY <1>4, <1>5, <1>6 DEF Receives

LEMMA OwnRowsStep ==
  ASSUME Typed, Tagged, Routed, Said, Unheard, OwnRows, [SessionNext]_sessionVars
  PROVE  OwnRows'
<1> SUFFICES ASSUME NEW c \in Call
             PROVE  OwnGot(c)' /\ (c \in Stream => OwnGen(c)')
  BY Calls DEF OwnRows, OwnGot, OwnGen
<1>0. /\ gen \in [Stream -> Generator] /\ tagOf \in [Call -> Tag \cup {0}]
      /\ Stream \subseteq Call
  BY Calls DEF Typed
<1>1. CASE Grants(c)
  <2>1. UNCHANGED <<got, gen>>
    BY <1>1, GrantLeaves
  <2>2. /\ got[c] = <<>>
        /\ c \in Stream => gen[c].batch = <<>> /\ gen[c].queue = <<>>
    BY <1>1 DEF Grants, Tagged
  <2> QED
    BY <2>1, <2>2, NumberedNone DEF OwnGot, OwnGen
<1>2. CASE ~Grants(c)
  <2>0. tagOf'[c] = tagOf[c]
    BY <1>0, <1>2, TagSteps DEF Grants
  <2>1. CASE Untouched(c)
    BY <2>1, OwnSame DEF Untouched
  <2>2. CASE Dies
    <3>1. got' = got
      BY <2>2 DEF Dies
    <3>2. ASSUME c \in Stream
          PROVE  gen'[c].batch = gen[c].batch /\ gen'[c].queue = gen[c].queue
      <4>1. gen'[c] = gen[c] \/ gen'[c] = [gen[c] EXCEPT !.failure = TRUE, !.ended = TRUE]
        BY <2>2, <3>2 DEF Dies, FailAll
      <4>2. gen[c] \in Generator
        BY <1>0, <3>2
      <4> QED
        BY <4>1, <4>2 DEF Generator
    <3> QED
      BY <2>0, <3>1, <3>2, OwnSame
  <2>3. CASE c \in Stream /\ (Abort(c) \/ GraceExpires(c))
    <3>1. got' = got
      BY <2>3 DEF Abort, GraceExpires
    <3>2. gen'[c].batch = gen[c].batch /\ (gen'[c].queue = gen[c].queue \/ gen'[c].queue = <<>>)
      <4>1. CASE Abort(c)
        BY <1>0, <2>3, <4>1 DEF Abort, Generator
      <4>2. CASE GraceExpires(c)
        <5>1. \/ gen' = [gen EXCEPT ![c].grace = "off"]
              \/ gen' = [gen EXCEPT ![c].queue = <<>>, ![c].ended = TRUE, ![c].grace = "spent"]
          BY <4>2 DEF GraceExpires
        <5> QED
          BY <1>0, <2>3, <5>1 DEF Generator
      <4> QED
        BY <2>3, <4>1, <4>2
    <3> QED
      BY <2>0, <3>1, <3>2, OwnSame
  <2>4. CASE c \in Stream /\ Yields(c)
    BY <2>4, OwnYields
  <2>5. CASE Receives
    BY <2>5, OwnReceives
  <2>6. CASE c \in Stream /\ (Listens(c) \/ Unwinds(c))
    <3>1. UNCHANGED <<got, gen>>
      BY <2>6 DEF Listens, Unwinds, Unwind
    <3> QED
      BY <2>0, <3>1, OwnSame
  <2>7. CASE c \in Talk /\ Sends(c)
    <3>1. UNCHANGED <<got, gen>>
      BY <2>7 DEF Sends
    <3> QED
      BY <2>0, <3>1, OwnSame
  <2>8. ASSUME NEW d \in Talk, Sends(d)
        PROVE  OwnGot(c)' /\ (c \in Stream => OwnGen(c)')
    BY <2>1, <2>7, <2>8, Others
  <2>9. ASSUME NEW s \in Stream,
               Listens(s) \/ Abort(s) \/ GraceExpires(s) \/ Yields(s) \/ Unwinds(s)
        PROVE  OwnGot(c)' /\ (c \in Stream => OwnGen(c)')
    BY <2>1, <2>3, <2>4, <2>6, <2>9, Others
  <2>10. Rests \/ Works => Untouched(c)
    BY Others DEF Works
  <2> QED
    BY <2>1, <2>2, <2>5, <2>8, <2>9, <2>10, StepKinds DEF Works, Receives
<1> QED
  BY <1>1, <1>2

-----------------------------------------------------------------------------
(* Traps that were heard, and streams that are complete.                   *)
LEMMA AbortedKept ==
  ASSUME Typed, [SessionNext]_sessionVars, NEW s \in Stream, gen[s].aborted
  PROVE  gen'[s].aborted
<1>0. gen \in [Stream -> Generator] /\ gen[s] \in Generator
  BY DEF Typed
<1>1. CASE gen'[s] = gen[s]
  BY <1>1
<1>2. CASE gen' = gen
  BY <1>2
<1>3. CASE Dies
  <2>1. gen'[s] = gen[s] \/ gen'[s] = [gen[s] EXCEPT !.failure = TRUE, !.ended = TRUE]
    BY <1>3 DEF Dies, FailAll
  <2> QED
    BY <1>0, <2>1 DEF Generator
<1>4. ASSUME NEW r \in Stream, Abort(r) \/ GraceExpires(r) \/ Yields(r)
      PROVE  gen'[s].aborted
  <2>1. CASE r # s
    BY <1>0, <1>4, <2>1 DEF Abort, GraceExpires, Yields
  <2>2. CASE Abort(r) /\ r = s
    BY <2>2 DEF Abort
  <2>3. CASE GraceExpires(r) /\ r = s
    <3>1. \/ gen' = [gen EXCEPT ![s].grace = "off"]
          \/ \E q : gen' = [gen EXCEPT ![s].queue = q, ![s].ended = TRUE, ![s].grace = "spent"]
      BY <2>3 DEF GraceExpires
    <3>2. CASE gen' = [gen EXCEPT ![s].grace = "off"]
      BY <1>0, <3>2 DEF Generator
    <3>3. ASSUME NEW q, gen' = [gen EXCEPT ![s].queue = q, ![s].ended = TRUE, ![s].grace = "spent"]
          PROVE  gen'[s].aborted
      BY <1>0, <3>3 DEF Generator
    <3> QED
      BY <3>1, <3>2, <3>3
  <2>4. CASE Yields(r) /\ r = s
    <3>1. PICK b, q : gen' = [gen EXCEPT ![s].batch = b, ![s].queue = q]
      BY <2>4 DEF Yields
    <3> QED
      BY <1>0, <3>1 DEF Generator
  <2> QED
    BY <1>4, <2>1, <2>2, <2>3, <2>4
<1>5. CASE ToSubscription
  <2> DEFINE d == Owner(Next1.tag)
  <2>1. \/ gen' = gen
        \/ \E q : gen' = [gen EXCEPT ![d].queue = q]
        \/ gen' = [gen EXCEPT ![d].ended = TRUE]
    BY <1>5 DEF ToSubscription
  <2> HIDE DEF d
  <2>2. CASE gen' = gen
    BY <2>2
  <2>3. ASSUME NEW q, gen' = [gen EXCEPT ![d].queue = q]
        PROVE  gen'[s].aborted
    BY <1>0, <2>3 DEF Generator
  <2>4. CASE gen' = [gen EXCEPT ![d].ended = TRUE]
    BY <1>0, <2>4 DEF Generator
  <2> QED
    BY <2>1, <2>2, <2>3, <2>4
<1>6. CASE \/ Rests \/ ToWaiter \/ ToNobody \/ Works \/ (\E d \in Talk : Sends(d))
           \/ \E r \in Stream : Listens(r) \/ Unwinds(r)
  <2>1. gen' = gen
    BY <1>6 DEF Rests, ToWaiter, ToNobody, NoFailure, Works, RouterTakes, RouterFails, RouterRow,
      RouterEnds, RouterVars, Sends, Listens, Unwinds, Unwind
  <2> QED
    BY <2>1
<1> QED
  BY <1>3, <1>4, <1>5, <1>6, StepKinds DEF Works

LEMMA TrapSteps ==
  ASSUME Typed, Tagged, Routed, [SessionNext]_sessionVars, NEW c \in Call
  PROVE  \/ trap'[c] = trap[c]
         \/ /\ Dispatch /\ Next1.tag = tagOf[c] /\ tagOf[c] \in pending \cup subs
            /\ Next1.is = "trap" \/ Next1.is = "interrupted"
            /\ \/ trap'[c] = "bad"
               \/ trap'[c] = "ack" /\ Next1.is = "interrupted" /\ c \in Stream /\ gen[c].aborted
<1>0. trap \in [Call -> {"none", "bad", "ack"}]
  BY DEF Typed
<1>1. CASE ToWaiter
  <2>1. \/ trap' = trap
        \/ /\ Next1.is = "trap" \/ Next1.is = "interrupted"
           /\ trap' = [trap EXCEPT ![Owner(Next1.tag)] = "bad"]
    BY <1>1 DEF ToWaiter
  <2>2. tagOf[Owner(Next1.tag)] = Next1.tag /\ Next1.tag \in pending /\ Dispatch
    BY <1>1, Waiters DEF ToWaiter
  <2> QED
    BY <1>0, <2>1, <2>2
<1>2. CASE ToSubscription
  <2>1. \/ trap' = trap
        \/ /\ Next1.is = "trap" \/ Next1.is = "interrupted"
           /\ trap' = [trap EXCEPT ![Owner(Next1.tag)] =
                         IF Next1.is = "interrupted" /\ gen[Owner(Next1.tag)].aborted
                         THEN "ack" ELSE "bad"]
    BY <1>2 DEF ToSubscription
  <2>2. tagOf[Owner(Next1.tag)] = Next1.tag /\ Next1.tag \in subs /\ Dispatch
        /\ Owner(Next1.tag) \in Stream
    BY <1>2, Subscribers DEF ToSubscription
  <2> QED
    BY <1>0, <2>1, <2>2
<1>3. CASE \/ Dies \/ Rests \/ ToNobody \/ Works \/ (\E d \in Talk : Sends(d))
           \/ \E s \in Stream : Listens(s) \/ Abort(s) \/ GraceExpires(s) \/ Yields(s) \/ Unwinds(s)
  BY <1>3 DEF Dies, Rests, ToNobody, Works, RouterTakes, RouterFails, RouterRow,
    RouterEnds, RouterVars, Sends, Listens, Abort, GraceExpires, Yields, Unwinds, Unwind
<1> QED
  BY <1>1, <1>2, <1>3, StepKinds DEF Works

LEMMA WarnedStep ==
  ASSUME Typed, Tagged, Routed, Underway, Said, Warned, [SessionNext]_sessionVars
  PROVE  Warned'
<1> SUFFICES ASSUME NEW c \in Call
             PROVE  /\ trap'[c] # "none" =>
                         tagOf'[c] # 0 /\ (job'[tagOf'[c]].is = "trap" \/ job'[tagOf'[c]].is = "halted")
                    /\ c \in Stream /\ trap'[c] = "ack" =>
                         gen'[c].aborted /\ job'[tagOf'[c]].is = "halted"
                    /\ c \in Talk => trap'[c] # "ack"
  BY Calls DEF Warned
<1>0. /\ tagOf \in [Call -> Tag \cup {0}] /\ job \in [Tag -> Job]
      /\ c \in Talk <=> c \notin Stream
  BY Calls DEF Typed
<1>1. ASSUME trap[c] # "none"
      PROVE  tagOf'[c] = tagOf[c] /\ job'[tagOf[c]] = job[tagOf[c]] /\ tagOf[c] # 0
             /\ (job[tagOf[c]].is = "trap" \/ job[tagOf[c]].is = "halted")
  <2>1. tagOf[c] # 0 /\ (job[tagOf[c]].is = "trap" \/ job[tagOf[c]].is = "halted") /\ tagOf[c] \in Tag
    BY <1>0, <1>1 DEF Warned
  <2>2. job'[tagOf[c]] = job[tagOf[c]]
    BY <2>1, OverKept DEF Over
  <2>3. answer[c] # "idle"
    BY <2>1 DEF Tagged
  <2> QED
    BY <2>1, <2>2, <2>3, OpenSteps
<1>2. CASE trap'[c] = trap[c]
  BY <1>0, <1>1, <1>2, AbortedKept DEF Warned
<1>3. CASE /\ Dispatch /\ Next1.tag = tagOf[c] /\ tagOf[c] \in pending \cup subs
           /\ Next1.is = "trap" \/ Next1.is = "interrupted"
           /\ \/ trap'[c] = "bad"
              \/ trap'[c] = "ack" /\ Next1.is = "interrupted" /\ c \in Stream /\ gen[c].aborted
  <2>1. tagOf[c] \in Owned /\ tagOf[c] \in Tag /\ answer[c] = "open" /\ tagOf[c] # 0
    BY <1>3, Listeners, Calls
  <2>2. Fits(Next1, Owned, Streamed, nextTag, job)
    BY <1>3, Received
  <2>3. /\ Next1.is = "trap" => job[tagOf[c]].is = "trap"
        /\ Next1.is = "interrupted" => job[tagOf[c]].is = "halted"
    BY <1>3, <2>1, <2>2 DEF Fits
  <2>4. job'[tagOf[c]] = job[tagOf[c]]
    BY <1>3, <2>1, <2>3, OverKept DEF Over
  <2>5. tagOf'[c] = tagOf[c]
    BY <2>1, OpenSteps
  <2> QED
    BY <1>0, <1>3, <2>1, <2>3, <2>4, <2>5, AbortedKept
<1> QED
  BY <1>2, <1>3, TrapSteps

(* How a stream that goes on loses its subscription.                       *)
LEMMA SubEnds ==
  ASSUME Typed, Tagged, Routed, [SessionNext]_sessionVars, NEW s \in Stream,
         answer[s] = "open", answer'[s] = "open", tagOf[s] \in subs, tagOf[s] \notin subs'
  PROVE  \/ Dies
         \/ GraceExpires(s) /\ ~gen[s].ended
         \/ /\ ToSubscription /\ Next1.is = "done" /\ Next1.tag = tagOf[s] /\ trap' = trap
            /\ gen' = [gen EXCEPT ![s].ended = TRUE]
<1>0. /\ answer \in [Call -> {"idle", "open", "ok", "failed", "left"}] /\ s \in Call
      /\ \A r \in Stream : answer[r] = "open" /\ tagOf[r] = tagOf[s] => r = s
  BY Calls DEF Typed, Tagged
<1>1. ASSUME NEW r \in Stream, Listens(r) \/ Abort(r) \/ Yields(r)
      PROVE  FALSE
  BY <1>1 DEF Listens, Abort, Yields
<1>2. ASSUME NEW r \in Stream, GraceExpires(r)
      PROVE  GraceExpires(s) /\ ~gen[s].ended
  BY <1>0, <1>2 DEF GraceExpires
<1>3. ASSUME NEW r \in Stream, Unwinds(r)
      PROVE  FALSE
  <2>1. r = s
    BY <1>0, <1>3 DEF Unwinds, Unwind
  <2> QED
    BY <1>0, <1>3, <2>1 DEF Unwinds, Unwind, Finish
<1>4. CASE ToSubscription
  <2>1. Next1.is = "done" /\ subs' = subs \ {Next1.tag} /\ trap' = trap
        /\ gen' = [gen EXCEPT ![Owner(Next1.tag)].ended = TRUE]
    BY <1>4 DEF ToSubscription
  <2>2. Next1.tag = tagOf[s]
    BY <2>1
  <2>3. Owner(Next1.tag) = s
    BY <1>0, <2>2, Listeners
  <2> QED
    BY <1>4, <2>1, <2>2, <2>3
<1>5. CASE \/ Rests \/ ToWaiter \/ ToNobody \/ Works \/ (\E d \in Talk : Sends(d))
  BY <1>5 DEF Rests, ToWaiter, ToNobody, NoFailure, Works, RouterTakes, RouterFails, RouterRow,
      RouterEnds, RouterVars, Sends
<1> QED
  BY <1>1, <1>2, <1>3, <1>4, <1>5, StepKinds DEF Works

LEMMA EndedKept ==
  ASSUME Typed, Tagged, Routed, [SessionNext]_sessionVars, NEW s \in Stream,
         answer[s] = "open", answer'[s] = "open", gen[s].ended
  PROVE  /\ Heard'[s] = Heard[s] /\ trap'[s] = trap[s]
         /\ gen'[s].failure = gen[s].failure
         /\ gen[s].grace = "spent" => gen'[s].grace = "spent"
<1>0. /\ answer \in [Call -> {"idle", "open", "ok", "failed", "left"}] /\ s \in Call
      /\ gen \in [Stream -> Generator] /\ gen[s] \in Generator
      /\ tagOf[s] \notin subs /\ tagOf[s] \notin pending
  <2>1. tagOf[s] \notin subs
    BY DEF Routed
  <2>2. tagOf[s] \notin pending
    BY Listeners, Calls
  <2> QED
    BY <2>1, <2>2, Calls DEF Typed
<1>1. CASE Untouched(s)
  BY <1>1, HeardSame, Calls DEF Untouched
<1>2. CASE Dies
  BY <1>0, <1>2, HeardSame DEF Dies, FailAll
<1>3. CASE Abort(s)
  <2>1. gen' = [gen EXCEPT ![s].aborted = TRUE,
                           ![s].grace = IF s \in GraceGiven THEN "armed" ELSE "off"]
        /\ ~gen[s].aborted /\ UNCHANGED <<got, trap>>
    BY <1>3 DEF Abort
  <2>2. gen'[s].batch = gen[s].batch /\ gen'[s].queue = gen[s].queue /\ gen'[s].failure = gen[s].failure
    BY <1>0, <2>1 DEF Generator
  <2>3. gen[s].grace = "off"
    BY <2>1 DEF Routed
  <2> QED
    BY <1>0, <2>1, <2>2, <2>3, HeardSame
<1>4. CASE GraceExpires(s)
  <2>1. gen' = [gen EXCEPT ![s].grace = "off"] /\ gen[s].grace = "armed" /\ UNCHANGED <<got, trap>>
    BY <1>4 DEF GraceExpires
  <2>2. gen'[s].batch = gen[s].batch /\ gen'[s].queue = gen[s].queue /\ gen'[s].failure = gen[s].failure
    BY <1>0, <2>1 DEF Generator
  <2> QED
    BY <1>0, <2>1, <2>2, HeardSame
<1>5. CASE Yields(s)
  <2>1. trap' = trap /\ gen'[s].failure = gen[s].failure /\ gen'[s].grace = gen[s].grace
    <3>1. trap' = trap /\ \E b, q : gen' = [gen EXCEPT ![s].batch = b, ![s].queue = q]
      BY <1>5 DEF Yields
    <3>2. PICK b, q : gen' = [gen EXCEPT ![s].batch = b, ![s].queue = q]
      BY <3>1
    <3> QED
      BY <1>0, <3>1, <3>2 DEF Generator
  <2> QED
    BY <1>5, <2>1, HeardYields
<1>6. ~Listens(s) /\ ~Unwinds(s)
  BY <1>0 DEF Listens, Unwinds, Unwind, Finish
<1>7. ToWaiter \/ ToSubscription => Untouched(s)
  <2>1. ToWaiter => Owner(Next1.tag) # s
    BY <1>0, Waiters DEF ToWaiter
  <2>2. ToSubscription => Owner(Next1.tag) # s
    BY <1>0, Subscribers DEF ToSubscription
  <2> QED
    BY <1>0, <2>1, <2>2, Others
<1>8. ASSUME NEW d \in Talk, Sends(d)
      PROVE  Untouched(s)
  BY <1>0, <1>8, Others, Calls
<1>9. Rests \/ ToNobody \/ Works => Untouched(s)
  BY <1>0, Others DEF Works
<1>10. ASSUME NEW r \in Stream, r # s,
              Listens(r) \/ Abort(r) \/ GraceExpires(r) \/ Yields(r) \/ Unwinds(r)
       PROVE  Untouched(s)
  BY <1>0, <1>10, Others
<1> QED
  BY <1>1, <1>2, <1>3, <1>4, <1>5, <1>6, <1>7, <1>8, <1>9, <1>10, StepKinds DEF Works

LEMMA RowsKept ==
  ASSUME Typed, Tagged, Underway, [SessionNext]_sessionVars, NEW t \in Tag
  PROVE  job[t].rows \in Nat /\ job'[t].rows \in Nat /\ job[t].rows <= job'[t].rows
<1>1. job[t].rows \in Nat
  BY DEF Typed, Job
<1>2. job'[t].rows = job[t].rows \/ job'[t].rows = job[t].rows + 1
  BY JobSteps DEF Begun, Halts, Serves, Concludes
<1> QED
  BY <1>1, <1>2

LEMMA DoneHeard ==
  ASSUME Typed, Tagged, Routed, Said, Unheard, NEW s \in Stream, ToSubscription,
         Next1.is = "done", Next1.tag = tagOf[s], trap' = trap,
         gen' = [gen EXCEPT ![s].ended = TRUE]
  PROVE  Complete(s) /\ Heard'[s] = Heard[s] /\ trap'[s] = trap[s]
<1> DEFINE t == tagOf[s]
<1>0. /\ gen \in [Stream -> Generator] /\ s \in Call /\ got' = got /\ Dispatch
      /\ t \in subs /\ down \in Seq(Sentence) /\ job \in [Tag -> Job]
  BY Calls DEF Typed, ToSubscription
<1>1. t \in Owned /\ t \in Tag /\ job[t].rows \in Nat /\ Heard[s] \in Nat
  BY <1>0, Listeners, Counts DEF Job
<1>2. /\ down # <<>> /\ down[1] = Next1 /\ Fits(Next1, Owned, Streamed, nextTag, job)
      /\ Next1.n \in Nat
  BY <1>0, Received
<1>3. t \in Streamed
  BY <1>0, <1>1, OwnedTags, Calls DEF Streamed, Owned
<1>4. Over(job[t].is) /\ ~(Next1.n > 0)
  BY <1>1, <1>2, <1>3 DEF Fits
<1>5. \A i \in 1..Len(Tail(down)) : Tail(down)[i].tag # t
  BY <1>0, <1>1, <1>2, NothingBehind DEF Said
<1>6. /\ Follows(down, t, Heard[s], job[t].rows) /\ Heeds(down, t, job[t].is, trap[s])
  BY <1>0 DEF Unheard
<1>7. Follows(Tail(down), t, Heard[s], job[t].rows)
  BY <1>0, <1>1, <1>2, <1>4, <1>6, FollowsTaken
<1>8. Heard[s] = job[t].rows
  <2>1. Tail(down) \in Seq(Sentence)
    BY <1>0, <1>2
  <2> QED
    BY <1>1, <1>5, <1>7, <2>1, FollowsNone
<1>9. \A what : what # "done" => ~Holds(down, Say(t, what, 0))
  <2>1. ASSUME NEW what, what # "done", Holds(down, Say(t, what, 0))
        PROVE  FALSE
    <3>1. Say(t, what, 0) # down[1] /\ Say(t, what, 0).tag = t
      BY <1>2, <2>1 DEF Say
    <3>2. Holds(Tail(down), Say(t, what, 0))
      BY <1>0, <1>2, <2>1, <3>1, HoldsTaken
    <3> QED
      BY <1>5, <3>1, <3>2 DEF Holds
  <2> QED
    BY <2>1
<1>10. /\ job[t].is = "trap" => trap[s] = "bad"
       /\ job[t].is = "halted" => trap[s] # "none"
  BY <1>6, <1>9 DEF Heeds
<1>11. Heard'[s] = Heard[s]
  <2>1. gen'[s].batch = gen[s].batch /\ gen'[s].queue = gen[s].queue
    BY <1>0 DEF Generator
  <2> QED
    BY <1>0, <2>1, HeardSame
<1> QED
  BY <1>4, <1>8, <1>10, <1>11 DEF Complete

LEMMA CompletedStep ==
  ASSUME Typed, Tagged, Routed, Routed', Underway, Said, Unheard, Unheard', Completed,
         [SessionNext]_sessionVars
  PROVE  Completed'
<1> SUFFICES ASSUME NEW s \in Stream, answer'[s] = "open"
             PROVE  /\ Heard'[s] <= job'[tagOf'[s]].rows
                    /\ gen'[s].ended /\ ~gen'[s].failure /\ gen'[s].grace # "spent" =>
                         /\ Over(job'[tagOf'[s]].is)
                         /\ Heard'[s] = job'[tagOf'[s]].rows
                         /\ job'[tagOf'[s]].is = "trap" => trap'[s] = "bad"
                         /\ job'[tagOf'[s]].is = "halted" => trap'[s] # "none"
  BY DEF Completed, Complete
<1>0. /\ gen \in [Stream -> Generator] /\ s \in Call /\ tagOf \in [Call -> Tag \cup {0}]
      /\ job \in [Tag -> Job]
  BY Calls DEF Typed
<1>1. CASE tagOf'[s] \in subs'
  <2>1. Heard'[s] <= job'[tagOf'[s]].rows
    BY <1>0, <1>1 DEF Unheard, Follows
  <2>2. ~gen'[s].ended
    BY <1>1 DEF Routed
  <2> QED
    BY <2>1, <2>2
<1>2. CASE tagOf'[s] \notin subs'
  <2>1. gen'[s].ended
    BY <1>2 DEF Routed
  <2>2. ~Grants(s)
    <3>1. ASSUME Grants(s)
          PROVE  FALSE
      <4>1. gen' = gen /\ answer[s] = "idle"
        BY <1>0, <3>1, GrantLeaves DEF Grants
      <4> QED
        BY <2>1, <4>1 DEF Tagged
    <3> QED
      BY <3>1
  <2>3. answer[s] = "open" /\ tagOf'[s] = tagOf[s]
    BY <1>0, <2>2, OpenSteps
  <2>4. /\ tagOf[s] \in Tag /\ Heard[s] \in Nat
        /\ job[tagOf[s]].rows \in Nat /\ job'[tagOf[s]].rows \in Nat
        /\ job[tagOf[s]].rows <= job'[tagOf[s]].rows
    <3>1. tagOf[s] \in Tag
      BY <1>0, <2>3 DEF Tagged
    <3> QED
      BY <1>0, <3>1, RowsKept, Counts
  <2>5. Heard[s] <= job[tagOf[s]].rows
    BY <2>3 DEF Completed
  <2>6. CASE tagOf[s] \notin subs
    <3>1. gen[s].ended
      BY <2>3, <2>6 DEF Routed
    <3>2. /\ Heard'[s] = Heard[s] /\ trap'[s] = trap[s] /\ gen'[s].failure = gen[s].failure
          /\ gen[s].grace = "spent" => gen'[s].grace = "spent"
      BY <2>3, <3>1, EndedKept
    <3>3. Complete(s) => job'[tagOf[s]] = job[tagOf[s]]
      BY <2>4, OverKept DEF Complete
    <3>4. ~gen[s].failure /\ gen[s].grace # "spent" => Complete(s)
      BY <2>3, <3>1 DEF Completed
    <3> QED
      BY <2>3, <2>4, <2>5, <3>2, <3>3, <3>4 DEF Complete
  <2>7. CASE Dies /\ tagOf[s] \in subs
    <3>1. gen'[s] = [gen[s] EXCEPT !.failure = TRUE, !.ended = TRUE] /\ got' = got
      BY <1>0, <2>7 DEF Dies, FailAll
    <3>2. gen'[s].failure /\ gen'[s].batch = gen[s].batch /\ gen'[s].queue = gen[s].queue
      BY <1>0, <3>1 DEF Generator
    <3>3. Heard'[s] = Heard[s]
      BY <1>0, <3>1, <3>2, HeardSame
    <3> QED
      BY <2>3, <2>4, <2>5, <3>2, <3>3
  <2>8. CASE GraceExpires(s) /\ ~gen[s].ended
    <3>1. /\ gen' = [gen EXCEPT ![s].queue = <<>>, ![s].ended = TRUE, ![s].grace = "spent"]
          /\ got' = got
      BY <2>8 DEF GraceExpires
    <3>2. gen'[s].grace = "spent" /\ gen'[s].queue = <<>> /\ gen'[s].batch = gen[s].batch
      BY <1>0, <3>1 DEF Generator
    <3>3. Heard'[s] = Len(got[s]) + Len(gen[s].batch) + Len(<<>>)
      BY <1>0, <3>1, <3>2 DEF Heard
    <3>4. Heard'[s] <= Heard[s] /\ Heard'[s] \in Nat
      <4>1. /\ Len(got[s]) \in Nat /\ Len(gen[s].batch) \in Nat /\ Len(gen[s].queue) \in Nat
            /\ Heard[s] = Len(got[s]) + Len(gen[s].batch) + Len(gen[s].queue)
        BY <1>0, Counts
      <4>2. \A a, b, c \in Nat : a + b + 0 <= a + b + c /\ a + b + 0 \in Nat
        OBVIOUS
      <4>3. Len(<<>>) = 0
        OBVIOUS
      <4>4. Heard'[s] = Len(got[s]) + Len(gen[s].batch) + 0
        BY <3>3, <4>3
      <4>5. /\ Len(got[s]) + Len(gen[s].batch) + 0
                 <= Len(got[s]) + Len(gen[s].batch) + Len(gen[s].queue)
            /\ Len(got[s]) + Len(gen[s].batch) + 0 \in Nat
        BY <4>1, <4>2
      <4> QED
        BY <4>1, <4>4, <4>5
    <3> QED
      BY <2>3, <2>4, <2>5, <3>2, <3>4
  <2>9. CASE /\ ToSubscription /\ Next1.is = "done" /\ Next1.tag = tagOf[s] /\ trap' = trap
             /\ gen' = [gen EXCEPT ![s].ended = TRUE]
    <3>1. Complete(s) /\ Heard'[s] = Heard[s] /\ trap'[s] = trap[s]
      BY <2>9, DoneHeard
    <3>2. job'[tagOf[s]] = job[tagOf[s]]
      BY <2>4, <3>1, OverKept DEF Complete
    <3> QED
      BY <2>3, <2>4, <3>1, <3>2 DEF Complete
  <2> QED
    BY <1>2, <2>3, <2>6, <2>7, <2>8, <2>9, SubEnds
<1> QED
  BY <1>1, <1>2

-----------------------------------------------------------------------------
(* The invariant, and what it says of types and of traps.                  *)
LEMMA Starts ==
  ASSUME SessionInit
  PROVE  SessionInv
<1>1. Typed
  <2>1. \A s \in Stream : gen[s] \in Generator
    <3>1. <<>> \in Seq(Tag \X Nat)
      OBVIOUS
    <3> QED
      BY <3>1 DEF SessionInit, Generator
  <2>2. gen \in [Stream -> Generator]
    BY <2>1 DEF SessionInit
  <2>3. job \in [Tag -> Job]
    BY DEF SessionInit, Job
  <2>4. /\ got \in [Call -> Seq(Tag \X Nat)] /\ up \in Seq(Request) /\ down \in Seq(Sentence)
        /\ chunk \in 0..Len(down)
    BY DEF SessionInit
  <2> QED
    BY <2>2, <2>3, <2>4 DEF SessionInit, Typed
<1>2. Room
  <2>1. Idle = Call /\ Unaborted = Stream /\ Unended = Stream /\ nextTag = 0
    BY Calls DEF SessionInit, Idle, Unaborted, Unended
  <2> QED
    BY <2>1, Calls DEF Room
<1>3. Owned = {} /\ Streamed = {}
  BY Calls DEF SessionInit, Owned, Streamed
<1>4. Tagged
  BY Calls DEF SessionInit, Tagged
<1>5. Routed
  BY Calls DEF SessionInit, Routed
<1>6. Underway /\ Worked /\ Said
  BY <1>3 DEF SessionInit, Underway, Worked, Said, AllFit
<1>7. Unheard /\ Warned /\ Completed
  BY Calls DEF SessionInit, Unheard, Warned, Completed
<1>8. OwnRows
  BY Calls, NumberedNone DEF SessionInit, OwnRows
<1> QED
  BY <1>1, <1>2, <1>4, <1>5, <1>6, <1>7, <1>8 DEF SessionInv

LEMMA Continues ==
  ASSUME SessionInv, [SessionNext]_sessionVars
  PROVE  SessionInv'
<1>1. /\ Typed /\ Room /\ Tagged /\ Routed /\ Underway /\ Worked
      /\ Said /\ Unheard /\ OwnRows /\ Warned /\ Completed
  BY DEF SessionInv
<1>2. Typed' /\ Room'
  BY <1>1, TypedStep, RoomStep
<1>3. Tagged'
  BY <1>1, <1>2, TaggedStep
<1>4. Routed'
  BY <1>1, <1>3, RoutedStep
<1>5. Underway' /\ Worked'
  BY <1>1, <1>2, UnderwayStep, WorkedStep
<1>6. Said'
  BY <1>1, SaidStep
<1>7. Unheard'
  BY <1>1, <1>2, <1>3, <1>4, UnheardStep
<1>8. OwnRows' /\ Warned'
  BY <1>1, OwnRowsStep, WarnedStep
<1>9. Completed'
  BY <1>1, <1>4, <1>7, CompletedStep
<1> QED
  BY <1>2, <1>3, <1>4, <1>5, <1>6, <1>7, <1>8, <1>9 DEF SessionInv

(* The invariant holds throughout.                                         *)
THEOREM SessionInvariant == SessionSpec => []SessionInv
<1>1. SessionInit => SessionInv
  BY Starts
<1>2. SessionInv /\ [SessionNext]_sessionVars => SessionInv'
  BY Continues
<1> QED
  BY <1>1, <1>2, PTL DEF SessionSpec

(* The variables have their types, whoever waits or is subscribed is an
   open call, and every open talk waits.                                   *)
THEOREM SessionTypes == SessionSpec => []SessionTypeOK
<1>1. ASSUME SessionInv
      PROVE  SessionTypeOK
  <2>1. Typed /\ Routed
    BY <1>1 DEF SessionInv
  <2>2. \A t \in pending \cup subs : \E c \in Call : answer[c] = "open" /\ tagOf[c] = t
    BY <2>1, Calls DEF Routed
  <2>3. \A c \in Talk : answer[c] = "open" => tagOf[c] \in pending
    BY <2>1 DEF Routed
  <2> QED
    BY <2>1, <2>2, <2>3 DEF SessionTypeOK, Typed, Request, Job
<1> QED
  BY <1>1, SessionInvariant, PTL

LEMMA LeavesWarned ==
  ASSUME SessionInv, [SessionNext]_sessionVars, NEW s \in Stream,
         answer[s] = "open", answer'[s] = "left", RouterSide(s).is = "trap"
  PROVE  gen[s].grace = "spent" \/ \E i \in 1..Len(down) : down[i] = Say(tagOf[s], "trap", 0)
<1>0. /\ Typed /\ Tagged /\ Routed /\ Unheard /\ Completed /\ s \in Call
      /\ answer \in [Call -> {"idle", "open", "ok", "failed", "left"}]
  BY Calls DEF SessionInv, Typed
<1>1. tagOf[s] # 0 /\ job[tagOf[s]].is = "trap"
  BY <1>0 DEF Tagged, RouterSide
<1>2. Unwinds(s)
  <2>1. ~Untouched(s)
    BY DEF Untouched
  <2>2. ~Dies /\ ~Listens(s)
    BY <1>0 DEF Dies, FailAll, Listens
  <2>3. ~Abort(s) /\ ~GraceExpires(s) /\ ~Yields(s)
    BY DEF Abort, GraceExpires, Yields
  <2>4. ~ToSubscription
    BY DEF ToSubscription
  <2>5. ~ToWaiter
    <3>1. ASSUME ToWaiter
          PROVE  Owner(Next1.tag) # s
      BY <1>0, <3>1, Waiters, Calls DEF ToWaiter
    <3> QED
      BY <1>0, <2>1, <3>1, Others
  <2>6. \A d \in Talk : ~Sends(d)
    BY <1>0, <2>1, Others, Calls
  <2>7. ~Rests /\ ~ToNobody /\ ~Works
    BY <1>0, <2>1, Others DEF Works
  <2>8. \A r \in Stream :
          Listens(r) \/ Abort(r) \/ GraceExpires(r) \/ Yields(r) \/ Unwinds(r) => r = s
    BY <1>0, <2>1, Others
  <2> QED
    BY <2>2, <2>3, <2>4, <2>5, <2>6, <2>7, <2>8, StepKinds DEF Works
<1>3. ~Wrong(s)
  BY <1>0, <1>2 DEF Unwinds, Unwind, Finish
<1>4. CASE tagOf[s] \in subs
  BY <1>0, <1>1, <1>3, <1>4 DEF Unheard, Heeds, Holds, Wrong
<1>5. CASE tagOf[s] \notin subs
  BY <1>0, <1>1, <1>3, <1>5 DEF Routed, Completed, Complete, Wrong
<1> QED
  BY <1>4, <1>5

(* A consumer that leaves its stream is told of a trap that had reached the
   stream, unless it gave the subscription up.                             *)
THEOREM LeavingHidesNoTrap == SessionSpec => EarlyEndHidesNoTrap
<1>1. ASSUME SessionInv, [SessionNext]_sessionVars
      PROVE  \A s \in Stream :
               answer[s] = "open" /\ answer'[s] = "left" /\ RouterSide(s).is = "trap"
                 => \/ gen[s].grace = "spent"
                    \/ \E i \in 1..Len(down) : down[i] = Say(tagOf[s], "trap", 0)
  BY <1>1, LeavesWarned
<1> QED
  BY <1>1, SessionInvariant, PTL DEF SessionSpec, EarlyEndHidesNoTrap

-----------------------------------------------------------------------------
(* The session implements NativeCalls: what each call sees of it.          *)
Rows == [c \in Call |-> RouterSide(c).rows]

Verdicts ==
  [c \in Call |-> IF RouterSide(c).is = "runs" THEN "none" ELSE RouterSide(c).is]

Handed ==
  [c \in Call |->
     IF c \in Talk /\ answer[c] # "ok" THEN <<>>
     ELSE [i \in 1..Len(got[c]) |->
            <<IF got[c][i][1] = tagOf[c] THEN c ELSE Owner(got[c][i][1]), got[c][i][2]>>]]

LEMMA Numbers ==
  ASSUME NEW q, NEW t, Len(q) \in Nat, Numbered(q, t, 0)
  PROVE  \A i \in 1..Len(q) : q[i][1] = t /\ q[i][2] = i
<1>1. ASSUME NEW i \in 1..Len(q)
      PROVE  q[i][1] = t /\ q[i][2] = i
  <2>1. q[i] = <<t, 0 + i>> /\ 0 + i = i
    BY <1>1 DEF Numbered
  <2> QED
    BY <2>1
<1> QED
  BY <1>1

LEMMA HandedIs ==
  ASSUME Typed, OwnRows, NEW c \in Call
  PROVE  Handed[c] = IF c \in Talk /\ answer[c] # "ok" THEN <<>> ELSE Private!RowsOf(c, Len(got[c]))
<1>1. \A i \in 1..Len(got[c]) : got[c][i][1] = tagOf[c] /\ got[c][i][2] = i
  <2>1. Len(got[c]) \in Nat /\ Numbered(got[c], tagOf[c], 0)
    BY Counts DEF OwnRows
  <2> QED
    BY <2>1, Numbers
<1> QED
  BY <1>1 DEF Handed, Private!RowsOf

LEMMA HandedNext ==
  ASSUME Typed', OwnRows', NEW c \in Call
  PROVE  Handed'[c] = IF c \in Talk /\ answer'[c] # "ok" THEN <<>> ELSE Private!RowsOf(c, Len(got'[c]))
<1>1. \A i \in 1..Len(got'[c]) : got'[c][i][1] = tagOf'[c] /\ got'[c][i][2] = i
  <2>1. got'[c] \in Seq(Tag \X Nat)
    BY DEF Typed
  <2>2. Len(got'[c]) \in Nat /\ Numbered(got'[c], tagOf'[c], 0)
    BY <2>1 DEF OwnRows
  <2> QED
    BY <2>2, Numbers
<1> QED
  BY <1>1 DEF Handed, Private!RowsOf

LEMMA RowsLonger ==
  ASSUME NEW c, NEW n \in Nat
  PROVE  Private!RowsOf(c, n + 1) = Append(Private!RowsOf(c, n), <<c, n + 1>>)
         /\ Len(Private!RowsOf(c, n)) = n
<1> DEFINE f == [i \in 1..n |-> <<c, i>>]
           g == [i \in 1..n + 1 |-> <<c, i>>]
<1>1. f \in Seq({<<c, i>> : i \in 1..n + 1}) /\ Len(f) = n
  OBVIOUS
<1>2. g \in Seq({<<c, i>> : i \in 1..n + 1}) /\ Len(g) = n + 1
  OBVIOUS
<1>3. g = Append(f, <<c, n + 1>>)
  BY <1>1, <1>2
<1> QED
  BY <1>1, <1>3 DEF Private!RowsOf

(* The actions of NativeCalls, said of what each call sees.                *)
LEMMA AbstractStarts ==
  ASSUME Rows = [c \in Call |-> 0], Verdicts = [c \in Call |-> "none"],
         Handed = [c \in Call |-> <<>>], answer = [c \in Call |-> "idle"], closed = FALSE
  PROVE  Private!CallsInit
BY DEF Private!CallsInit, Private!Call, Call, Rows, Verdicts, Handed

LEMMA Stutters ==
  ASSUME UNCHANGED <<Rows, Verdicts, Handed, answer, closed>>
  PROVE  UNCHANGED Private!callsVars
BY DEF Private!callsVars, Rows, Verdicts, Handed

LEMMA Asks ==
  ASSUME NEW c \in Call, answer[c] = "idle", UNCHANGED <<Rows, Verdicts, Handed, closed>>,
         \/ answer' = [answer EXCEPT ![c] = "open"]
         \/ answer' = [answer EXCEPT ![c] = "failed"]
         \/ answer' = [answer EXCEPT ![c] = "left"]
  PROVE  Private!CallsNext
<1>1. c \in Private!Call
  BY DEF Private!Call, Call
<1>2. \E how \in {"open", "failed", "left"} : answer' = [answer EXCEPT ![c] = how]
  OBVIOUS
<1>3. Private!Ask(c)
  BY <1>2 DEF Private!Ask, Rows, Verdicts, Handed
<1> QED
  BY <1>1, <1>3 DEF Private!CallsNext

LEMMA ServesOne ==
  ASSUME NEW c \in Call, answer[c] # "idle", Verdicts[c] = "none",
         Rows' = [Rows EXCEPT ![c] = @ + 1], UNCHANGED <<Verdicts, Handed, answer, closed>>
  PROVE  Private!CallsNext
<1>1. c \in Private!Call
  BY DEF Private!Call, Call
<1>2. Private!Serve(c)
  BY DEF Private!Serve, Rows, Verdicts, Handed
<1> QED
  BY <1>1, <1>2 DEF Private!CallsNext

LEMMA ConcludesOne ==
  ASSUME NEW c \in Call, answer[c] # "idle", Verdicts[c] = "none", NEW v,
         v = "done" \/ v = "trap" \/ v = "halted", NEW more \in 0..1,
         Verdicts' = [Verdicts EXCEPT ![c] = v], Rows' = [Rows EXCEPT ![c] = @ + more],
         UNCHANGED <<Handed, answer, closed>>
  PROVE  Private!CallsNext
<1>1. c \in Private!Call
  BY DEF Private!Call, Call
<1>2. \E w \in {"done", "trap", "halted"} : Verdicts' = [Verdicts EXCEPT ![c] = w]
  OBVIOUS
<1>3. \E m \in 0..1 : Rows' = [Rows EXCEPT ![c] = @ + m]
  OBVIOUS
<1>4. Private!Conclude(c)
  BY <1>2, <1>3 DEF Private!Conclude, Rows, Verdicts, Handed
<1> QED
  BY <1>1, <1>4 DEF Private!CallsNext

LEMMA Resolves ==
  ASSUME NEW c \in Talk, Verdicts[c] = "done", answer[c] = "open",
         answer' = [answer EXCEPT ![c] = "ok"],
         Handed' = [Handed EXCEPT ![c] = Private!RowsOf(c, Rows[c])],
         UNCHANGED <<Rows, Verdicts, closed>>
  PROVE  Private!CallsNext
<1>1. c \in Private!Call
  BY DEF Private!Call
<1>2. Private!Resolve(c)
  BY DEF Private!Resolve, Private!Settle, Rows, Verdicts, Handed
<1> QED
  BY <1>1, <1>2 DEF Private!CallsNext

LEMMA YieldsOne ==
  ASSUME NEW s \in Stream, answer[s] = "open", Len(Handed[s]) < Rows[s],
         Handed' = [Handed EXCEPT ![s] = Append(@, <<s, Len(@) + 1>>)],
         UNCHANGED <<Rows, Verdicts, answer, closed>>
  PROVE  Private!CallsNext
<1>1. s \in Private!Call
  BY DEF Private!Call
<1>2. Private!Yield(s)
  BY DEF Private!Yield, Rows, Verdicts, Handed
<1> QED
  BY <1>1, <1>2 DEF Private!CallsNext

LEMMA Completes ==
  ASSUME NEW s \in Stream, answer[s] = "open", Verdicts[s] = "done", Len(Handed[s]) = Rows[s],
         answer' = [answer EXCEPT ![s] = "ok"], UNCHANGED <<Rows, Verdicts, Handed, closed>>
  PROVE  Private!CallsNext
<1>1. s \in Private!Call
  BY DEF Private!Call
<1>2. Private!Complete(s)
  BY DEF Private!Complete, Private!Settle, Rows, Verdicts, Handed
<1> QED
  BY <1>1, <1>2 DEF Private!CallsNext

LEMMA Leaves ==
  ASSUME NEW s \in Stream, answer[s] = "open",
         answer' = [answer EXCEPT ![s] = "left"], UNCHANGED <<Rows, Verdicts, Handed, closed>>
  PROVE  Private!CallsNext
<1>1. s \in Private!Call
  BY DEF Private!Call
<1>2. Private!Leave(s)
  BY DEF Private!Leave, Private!Settle, Rows, Verdicts, Handed
<1> QED
  BY <1>1, <1>2 DEF Private!CallsNext

LEMMA FailsFor ==
  ASSUME NEW c \in Call, answer[c] = "open", closed \/ Verdicts[c] = "trap" \/ Verdicts[c] = "halted",
         answer' = [answer EXCEPT ![c] = "failed"], UNCHANGED <<Rows, Verdicts, Handed, closed>>
  PROVE  Private!CallsNext
<1>1. c \in Private!Call
  BY DEF Private!Call, Call
<1>2. closed \/ Verdicts[c] \in {"trap", "halted"}
  OBVIOUS
<1>3. Private!Fail(c)
  BY <1>2 DEF Private!Fail, Private!Settle, Rows, Verdicts, Handed
<1> QED
  BY <1>1, <1>3 DEF Private!CallsNext

LEMMA Disconnects ==
  ASSUME closed' = TRUE,
         answer' = [c \in Call |-> IF c \in Talk /\ answer[c] = "open" THEN "failed" ELSE answer[c]],
         UNCHANGED <<Rows, Verdicts, Handed>>
  PROVE  Private!CallsNext
<1>1. Private!Disconnect
  BY DEF Private!Disconnect, Private!Call, Call, Rows, Verdicts, Handed
<1> QED
  BY <1>1 DEF Private!CallsNext

(* What a step changes of what the calls see.                              *)
LEMMA Alike ==
  ASSUME NEW S, NEW f, NEW g, f = [x \in S |-> f[x]], g = [x \in S |-> g[x]],
         \A x \in S : g[x] = f[x]
  PROVE  g = f
OBVIOUS

LEMMA Functions ==
  /\ Rows = [c \in Call |-> Rows[c]] /\ Verdicts = [c \in Call |-> Verdicts[c]]
  /\ Handed = [c \in Call |-> Handed[c]]
  /\ Rows' = [c \in Call |-> Rows'[c]] /\ Verdicts' = [c \in Call |-> Verdicts'[c]]
  /\ Handed' = [c \in Call |-> Handed'[c]]
BY DEF Rows, Verdicts, Handed

LEMMA Seen ==
  ASSUME NEW c \in Call
  PROVE  /\ tagOf[c] = 0 => Rows[c] = 0 /\ Verdicts[c] = "none"
         /\ tagOf[c] # 0 =>
              /\ Rows[c] = job[tagOf[c]].rows
              /\ Verdicts[c] = IF job[tagOf[c]].is = "runs" THEN "none" ELSE job[tagOf[c]].is
         /\ tagOf'[c] = 0 => Rows'[c] = 0 /\ Verdicts'[c] = "none"
         /\ tagOf'[c] # 0 =>
              /\ Rows'[c] = job'[tagOf'[c]].rows
              /\ Verdicts'[c] = IF job'[tagOf'[c]].is = "runs" THEN "none" ELSE job'[tagOf'[c]].is
BY DEF Rows, Verdicts, RouterSide

LEMMA SideKept ==
  ASSUME Typed, Typed', Tagged, Routed, Worked, [SessionNext]_sessionVars, ~Works
  PROVE  UNCHANGED <<Rows, Verdicts>>
<1>1. job' = job
  BY StepKinds DEF Works, Dies, Rests, Sends, Listens, Abort, GraceExpires, Yields, Unwinds, Unwind,
    ToWaiter, ToSubscription, ToNobody, Dispatch
<1>2. ASSUME NEW c \in Call
      PROVE  Rows'[c] = Rows[c] /\ Verdicts'[c] = Verdicts[c]
  <2>1. tagOf'[c] = tagOf[c] \/ Grants(c)
    <3>1. tagOf \in [Call -> Tag \cup {0}]
      BY DEF Typed
    <3> QED
      BY <3>1, TagSteps DEF Grants
  <2>2. CASE tagOf'[c] = tagOf[c]
    BY <1>1, <2>2, Seen
  <2>3. CASE Grants(c)
    <3>1. /\ tagOf[c] = 0 /\ tagOf'[c] = nextTag + 1 /\ nextTag \in Nat /\ nextTag + 1 # 0
      BY <2>3 DEF Grants, Tagged, Typed
    <3>2. nextTag + 1 \in Tag
      BY <3>1 DEF Typed
    <3>3. job[nextTag + 1].is = "none" /\ job[nextTag + 1].rows = 0
      BY <3>2, OwnedTags DEF Worked
    <3> QED
      BY <1>1, <3>1, <3>3, Seen
  <2> QED
    BY <2>1, <2>2, <2>3
<1> QED
  BY <1>2, Functions, Alike

LEMMA HandedKept ==
  ASSUME Typed, Typed', OwnRows, OwnRows', NEW c \in Call,
         \/ got'[c] = got[c] /\ answer'[c] = answer[c]
         \/ c \in Stream /\ got'[c] = got[c]
         \/ c \in Talk /\ answer[c] # "ok" /\ answer'[c] # "ok"
  PROVE  Handed'[c] = Handed[c]
BY HandedIs, HandedNext, Calls

LEMMA AllKept ==
  ASSUME \A c \in Call : Handed'[c] = Handed[c]
  PROVE  Handed' = Handed
BY Functions, Alike

Seeing == Private!CallsNext \/ UNCHANGED Private!callsVars

LEMMA SeeingRests ==
  ASSUME Typed, Typed', OwnRows, OwnRows', UNCHANGED <<Rows, Verdicts, answer, got, closed>>
  PROVE  Seeing
<1>1. \A c \in Call : Handed'[c] = Handed[c]
  BY HandedKept
<1> QED
  BY <1>1, AllKept, Stutters DEF Seeing

LEMMA SeeingDies ==
  ASSUME Typed, Typed', Tagged, Routed, OwnRows, OwnRows', UNCHANGED <<Rows, Verdicts>>, Dies
  PROVE  Seeing
<1>0. answer \in [Call -> {"idle", "open", "ok", "failed", "left"}] /\ Talk \subseteq Call
  BY Calls DEF Typed
<1>1. /\ closed' = TRUE /\ got' = got
      /\ answer' = [c \in Call |-> IF c \in Talk /\ tagOf[c] \in pending
                                   THEN "failed" ELSE answer[c]]
  BY DEF Dies, FailAll
<1>2. \A c \in Talk : tagOf[c] \in pending <=> answer[c] = "open"
  BY <1>0, Listeners DEF Routed
<1>3. answer' = [c \in Call |-> IF c \in Talk /\ answer[c] = "open" THEN "failed" ELSE answer[c]]
  BY <1>1, <1>2
<1>4. ASSUME NEW c \in Call
      PROVE  Handed'[c] = Handed[c]
  <2>1. answer'[c] = answer[c] \/ (c \in Talk /\ answer[c] = "open" /\ answer'[c] = "failed")
    BY <1>0, <1>3
  <2> QED
    BY <1>1, <2>1, HandedKept
<1> QED
  BY <1>1, <1>3, <1>4, AllKept, Disconnects DEF Seeing

LEMMA SeeingAsks ==
  ASSUME Typed, Typed', OwnRows, OwnRows', UNCHANGED <<Rows, Verdicts>>,
         (\E d \in Talk : Sends(d)) \/ (\E s \in Stream : Listens(s))
  PROVE  Seeing
<1>0. answer \in [Call -> {"idle", "open", "ok", "failed", "left"}] /\ Talk \subseteq Call
      /\ Stream \subseteq Call
  BY Calls DEF Typed
<1>1. ASSUME NEW d \in Call, answer[d] = "idle", got' = got, closed' = closed,
             \/ answer' = [answer EXCEPT ![d] = "open"]
             \/ answer' = [answer EXCEPT ![d] = "failed"]
             \/ answer' = [answer EXCEPT ![d] = "left"]
      PROVE  Seeing
  <2>1. ASSUME NEW c \in Call
        PROVE  Handed'[c] = Handed[c]
    <3>1. answer'[c] = answer[c] \/ (answer[c] # "ok" /\ answer'[c] # "ok")
      BY <1>0, <1>1
    <3> QED
      BY <1>1, <3>1, HandedKept, Calls
  <2> QED
    BY <1>1, <2>1, AllKept, Asks DEF Seeing
<1>2. ASSUME NEW d \in Talk, Sends(d)
      PROVE  Seeing
  BY <1>0, <1>1, <1>2 DEF Sends, SendTalk, Finish
<1>3. ASSUME NEW s \in Stream, Listens(s)
      PROVE  Seeing
  BY <1>0, <1>1, <1>3 DEF Listens, Finish
<1> QED
  BY <1>2, <1>3

LEMMA SeeingYields ==
  ASSUME Typed, Typed', Tagged, OwnRows, OwnRows', Completed, UNCHANGED <<Rows, Verdicts>>,
         NEW s \in Stream, Yields(s)
  PROVE  Seeing
<1>0. /\ s \in Call /\ got \in [Call -> Seq(Tag \X Nat)] /\ s \notin Talk
      /\ answer[s] = "open" /\ UNCHANGED <<answer, closed, tagOf>> /\ tagOf[s] # 0
  BY Calls DEF Typed, Yields, Tagged
<1>1. /\ Len(got[s]) \in Nat /\ Len(gen[s].batch) \in Nat /\ Len(gen[s].queue) \in Nat
      /\ Heard[s] = Len(got[s]) + Len(gen[s].batch) + Len(gen[s].queue)
  BY <1>0, Counts
<1>2. Len(gen[s].batch) + Len(gen[s].queue) > 0
  <2>1. gen[s].batch \in Seq(Tag \X Nat) /\ gen[s].queue \in Seq(Tag \X Nat)
    BY DEF Typed, Generator
  <2>2. gen[s].batch # <<>> \/ gen[s].queue # <<>>
    BY DEF Yields
  <2>3. Len(gen[s].batch) # 0 \/ Len(gen[s].queue) # 0
    BY <2>1, <2>2
  <2>4. \A a, b \in Nat : a # 0 \/ b # 0 => a + b > 0
    OBVIOUS
  <2> QED
    BY <1>1, <2>3, <2>4
<1>3. Rows[s] = job[tagOf[s]].rows /\ Heard[s] <= Rows[s] /\ Rows[s] \in Nat
  <2>1. tagOf[s] \in Tag
    BY <1>0 DEF Typed
  <2> QED
    BY <1>0, <2>1, Seen DEF Completed, Typed, Job
<1>4. Handed[s] = Private!RowsOf(s, Len(got[s]))
  BY <1>0, HandedIs
<1>5. Len(Handed[s]) = Len(got[s])
  BY <1>1, <1>4, RowsLonger
<1>6. Len(Handed[s]) < Rows[s]
  <2>1. \A a, b, c, d \in Nat : b + c > 0 /\ a + b + c <= d => a < d
    OBVIOUS
  <2>2. Len(got[s]) + Len(gen[s].batch) + Len(gen[s].queue) <= Rows[s]
    BY <1>1, <1>3
  <2> QED
    BY <1>1, <1>2, <1>3, <1>5, <2>1, <2>2
<1>7. \E x : got' = [got EXCEPT ![s] = Append(@, x)]
  BY DEF Yields
<1>8. Handed'[s] = Append(Handed[s], <<s, Len(Handed[s]) + 1>>)
  <2>1. got'[s] \in Seq(Tag \X Nat) /\ Len(got'[s]) = Len(got[s]) + 1
    <3>1. PICK x : got' = [got EXCEPT ![s] = Append(@, x)]
      BY <1>7
    <3>2. got'[s] = Append(got[s], x) /\ got'[s] \in Seq(Tag \X Nat)
      BY <1>0, <3>1 DEF Typed
    <3> QED
      BY <1>0, <3>2
  <2>2. Handed'[s] = Private!RowsOf(s, Len(got[s]) + 1)
    BY <1>0, <2>1, HandedNext
  <2> QED
    BY <1>1, <1>4, <1>5, <2>2, RowsLonger
<1>9. \A c \in Call : c # s => Handed'[c] = Handed[c]
  <2>1. \A c \in Call : c # s => got'[c] = got[c]
    BY <1>0, <1>7
  <2> QED
    BY <1>0, <2>1, HandedKept
<1>10. Handed' = [Handed EXCEPT ![s] = Append(@, <<s, Len(@) + 1>>)]
  BY <1>0, <1>8, <1>9, Functions
<1> QED
  BY <1>0, <1>6, <1>10, YieldsOne DEF Seeing


(* The end of a stream: an error has its reason, a success is the router's. *)
LEMMA HandedSame ==
  ASSUME Typed, Typed', OwnRows, OwnRows', got' = got,
         \A c \in Talk : answer'[c] = answer[c] \/ (answer[c] # "ok" /\ answer'[c] # "ok")
  PROVE  Handed' = Handed
<1>1. \A c \in Call : Handed'[c] = Handed[c]
  BY HandedKept, Calls
<1> QED
  BY <1>1, AllKept

LEMMA HasItAll ==
  ASSUME Typed, Tagged, Routed, OwnRows, Warned, Completed, NEW s \in Stream,
         answer[s] = "open", gen[s].ended, gen[s].queue = <<>>, gen[s].batch = <<>>,
         ~gen[s].aborted, ~Wrong(s)
  PROVE  Verdicts[s] = "done" /\ Len(Handed[s]) = Rows[s]
<1>1. s \in Call /\ s \notin Talk /\ tagOf[s] # 0
  BY Calls DEF Tagged
<1>2. Complete(s)
  BY DEF Routed, Completed, Wrong
<1>3. ~(job[tagOf[s]].is = "trap") /\ ~(job[tagOf[s]].is = "halted")
  <2>1. trap[s] # "bad"
    BY DEF Wrong
  <2>2. trap[s] \in {"none", "bad", "ack"}
    BY <1>1 DEF Typed
  <2> QED
    BY <1>2, <2>1, <2>2 DEF Complete, Warned
<1>4. job[tagOf[s]].is = "done"
  BY <1>2, <1>3 DEF Complete, Over
<1>5. Verdicts[s] = "done" /\ Rows[s] = job[tagOf[s]].rows
  BY <1>1, <1>4, Seen
<1>6. Heard[s] = Len(got[s]) /\ Len(got[s]) \in Nat
  <2>1. Len(gen[s].batch) = 0 /\ Len(gen[s].queue) = 0
    OBVIOUS
  <2>2. \A a, b, c \in Nat : b = 0 /\ c = 0 => a + b + c = a
    OBVIOUS
  <2>3. /\ Len(got[s]) \in Nat /\ Len(gen[s].batch) \in Nat /\ Len(gen[s].queue) \in Nat
        /\ Heard[s] = Len(got[s]) + Len(gen[s].batch) + Len(gen[s].queue)
    BY <1>1, Counts
  <2>4. Len(got[s]) + Len(gen[s].batch) + Len(gen[s].queue) = Len(got[s])
    BY <2>1, <2>2, <2>3
  <2> QED
    BY <2>3, <2>4
<1>7. Handed[s] = Private!RowsOf(s, Len(got[s]))
  BY <1>1, HandedIs
<1> QED
  BY <1>2, <1>5, <1>6, <1>7, RowsLonger DEF Complete

LEMMA SeeingUnwinds ==
  ASSUME Typed, Typed', Tagged, Routed, OwnRows, OwnRows', Warned, Completed,
         UNCHANGED <<Rows, Verdicts>>, NEW s \in Stream, Unwinds(s)
  PROVE  Seeing
<1>0. /\ s \in Call /\ s \notin Talk /\ answer[s] = "open" /\ UNCHANGED <<got, closed>>
      /\ answer \in [Call -> {"idle", "open", "ok", "failed", "left"}]
  BY Calls DEF Typed, Unwinds, Unwind
<1>1. ASSUME NEW how, answer' = [answer EXCEPT ![s] = how]
      PROVE  Handed' = Handed
  <2>1. \A c \in Talk : answer'[c] = answer[c]
    BY <1>0, <1>1
  <2> QED
    BY <1>0, <2>1, HandedSame
<1>2. CASE Wrong(s)
  <2>1. answer' = [answer EXCEPT ![s] = "failed"]
    BY <1>2 DEF Unwinds, Unwind, Finish
  <2>2. closed \/ Verdicts[s] = "trap" \/ Verdicts[s] = "halted"
    <3>1. CASE gen[s].failure
      BY <3>1 DEF Routed
    <3>2. CASE trap[s] = "bad"
      BY <1>0, <3>2, Seen DEF Warned
    <3> QED
      BY <1>2, <3>1, <3>2 DEF Wrong
  <2> QED
    BY <1>0, <1>1, <2>1, <2>2, FailsFor DEF Seeing
<1>3. CASE ~Wrong(s) /\ Unwind(s, "left")
  <2>1. answer' = [answer EXCEPT ![s] = "left"]
    BY <1>3 DEF Unwind, Finish
  <2> QED
    BY <1>0, <1>1, <2>1, Leaves DEF Seeing
<1>4. CASE /\ ~Wrong(s) /\ gen[s].ended /\ gen[s].queue = <<>> /\ gen[s].batch = <<>>
           /\ ~gen[s].aborted /\ Unwind(s, "ok")
  <2>1. answer' = [answer EXCEPT ![s] = "ok"]
    BY <1>4 DEF Unwind, Finish
  <2>2. Verdicts[s] = "done" /\ Len(Handed[s]) = Rows[s]
    BY <1>0, <1>4, HasItAll
  <2> QED
    BY <1>0, <1>1, <2>1, <2>2, Completes DEF Seeing
<1> QED
  BY <1>2, <1>3, <1>4 DEF Unwinds

(* An answer: the talk has every row of its command, or the router's error.*)
LEMMA AnswersAll ==
  ASSUME Typed, Tagged, Routed, Worked, Said, Unheard, Warned, Dispatch, NEW c \in Talk,
         tagOf[c] \in pending, Next1.tag = tagOf[c], Next1.is = "done", trap[c] # "bad"
  PROVE  /\ Verdicts[c] = "done"
         /\ Next1.n > 0 => Rows[c] = Len(got[c]) + 1
         /\ ~(Next1.n > 0) => Rows[c] = Len(got[c])
<1>0. c \in Call /\ c \notin Stream
  BY Calls
<1>1. /\ tagOf[c] \in Owned /\ tagOf[c] \in Tag /\ tagOf[c] # 0
  <2>1. tagOf[c] \in Owned /\ tagOf[c] \in Tag
    BY <1>0, Listeners
  <2> QED
    BY <2>1 DEF Owned
<1>2. /\ Follows(down, tagOf[c], Heard[c], job[tagOf[c]].rows)
      /\ Heeds(down, tagOf[c], job[tagOf[c]].is, trap[c])
  BY <1>0 DEF Unheard
<1>3. /\ down \in Seq(Sentence) /\ down # <<>> /\ down[1] = Next1
      /\ Fits(Next1, Owned, Streamed, nextTag, job) /\ Next1.n \in Nat
      /\ AllFit(down, Owned, Streamed, nextTag, job)
  BY Received DEF Typed, Said
<1>4. Over(job[tagOf[c]].is)
  BY <1>1, <1>3 DEF Fits
<1>5. \A i \in 1..Len(Tail(down)) : Tail(down)[i].tag # tagOf[c]
  BY <1>1, <1>3, NothingBehind
<1>6. job[tagOf[c]].is # "trap"
  <2>1. ASSUME Holds(down, Say(tagOf[c], "trap", 0))
        PROVE  FALSE
    <3>1. Say(tagOf[c], "trap", 0) # down[1]
      BY <1>3 DEF Say
    <3>2. Holds(Tail(down), Say(tagOf[c], "trap", 0))
      BY <1>3, <2>1, <3>1, HoldsTaken
    <3> QED
      BY <1>5, <3>2 DEF Holds, Say
  <2> QED
    BY <1>2, <2>1 DEF Heeds
<1>7. job[tagOf[c]].is # "halted"
  BY <1>1, OwnedTags DEF Worked
<1>8. Verdicts[c] = "done" /\ Rows[c] = job[tagOf[c]].rows
  BY <1>0, <1>1, <1>4, <1>6, <1>7, Seen DEF Over
<1>9. /\ Heard[c] = Len(got[c]) /\ Heard[c] \in Nat /\ Rows[c] \in Nat
      /\ Tail(down) \in Seq(Sentence)
  BY <1>0, <1>1, <1>3, <1>8, Counts, Shorter DEF Typed, Job
<1>10. CASE Next1.n > 0
  <2>1. Follows(Tail(down), tagOf[c], Heard[c] + 1, Rows[c])
    BY <1>2, <1>3, <1>8, <1>9, <1>10, FollowsTaken
  <2>2. Heard[c] + 1 = Rows[c]
    <3>1. Heard[c] + 1 \in Nat
      BY <1>9
    <3> QED
      BY <1>5, <1>9, <2>1, <3>1, FollowsNone
  <2> QED
    BY <1>8, <1>9, <1>10, <2>2
<1>11. CASE ~(Next1.n > 0)
  <2>1. Follows(Tail(down), tagOf[c], Heard[c], Rows[c])
    BY <1>2, <1>3, <1>8, <1>9, <1>11, FollowsTaken
  <2>2. Heard[c] = Rows[c]
    BY <1>5, <1>9, <2>1, FollowsNone
  <2> QED
    BY <1>8, <1>9, <1>11, <2>2
<1> QED
  BY <1>10, <1>11


LEMMA SeeingAnswers ==
  ASSUME Typed, Typed', Tagged, Routed, Worked, Said, Unheard, OwnRows, OwnRows', Warned,
         UNCHANGED <<Rows, Verdicts>>, ToWaiter
  PROVE  Seeing
<1> DEFINE c == Owner(Next1.tag)
<1>0. /\ c \in Talk /\ c \in Call /\ answer[c] = "open" /\ tagOf[c] = Next1.tag
      /\ tagOf[c] \in pending /\ Dispatch /\ tagOf[c] # 0
      /\ answer \in [Call -> {"idle", "open", "ok", "failed", "left"}]
      /\ got \in [Call -> Seq(Tag \X Nat)] /\ UNCHANGED <<closed, tagOf>>
  <2>1. Dispatch /\ Next1.tag \in pending /\ UNCHANGED <<closed, tagOf>>
    BY DEF ToWaiter, Dispatch
  <2>2. c \in Talk /\ answer[c] = "open" /\ tagOf[c] = Next1.tag
    BY <2>1, Waiters
  <2>3. c \in Call /\ tagOf[c] # 0
    BY <2>2, Calls DEF Tagged
  <2>4. /\ answer \in [Call -> {"idle", "open", "ok", "failed", "left"}]
        /\ got \in [Call -> Seq(Tag \X Nat)]
    BY DEF Typed
  <2> QED
    BY <2>1, <2>2, <2>3, <2>4
<1>1. CASE answer' = answer /\ (got' = got \/ \E x : got' = [got EXCEPT ![c] = x])
  <2>1. ASSUME NEW d \in Call
        PROVE  Handed'[d] = Handed[d]
    <3>1. CASE d = c
      BY <1>0, <1>1, <3>1, HandedKept
    <3>2. CASE d # c
      <4>1. got'[d] = got[d] /\ answer'[d] = answer[d]
        BY <1>0, <1>1, <3>2
      <4> QED
        BY <4>1, HandedKept
    <3> QED
      BY <3>1, <3>2
  <2> QED
    BY <1>0, <1>1, <2>1, AllKept, Stutters DEF Seeing
<1>2. CASE Next1.is = "done" /\ trap[c] = "bad" /\ Finish(c, "failed") /\ got' = got
  <2>1. answer' = [answer EXCEPT ![c] = "failed"]
    BY <1>2 DEF Finish
  <2>2. \A d \in Talk : answer'[d] = answer[d] \/ (answer[d] # "ok" /\ answer'[d] # "ok")
    BY <1>0, <2>1, Calls
  <2>3. Verdicts[c] = "trap" \/ Verdicts[c] = "halted"
    BY <1>0, <1>2, Seen DEF Warned
  <2> QED
    BY <1>0, <1>2, <2>1, <2>2, <2>3, HandedSame, FailsFor DEF Seeing
<1>3. CASE /\ Next1.is = "done" /\ trap[c] # "bad" /\ Finish(c, "ok")
           /\ got' = IF Next1.n > 0 THEN [got EXCEPT ![c] = Append(@, <<Next1.tag, Next1.n>>)]
                     ELSE got
  <2>1. answer' = [answer EXCEPT ![c] = "ok"]
    BY <1>3 DEF Finish
  <2>2. /\ Verdicts[c] = "done"
        /\ Next1.n > 0 => Rows[c] = Len(got[c]) + 1
        /\ ~(Next1.n > 0) => Rows[c] = Len(got[c])
    BY <1>0, <1>3, AnswersAll
  <2>3. Len(got'[c]) = Rows[c]
    <3>1. CASE Next1.n > 0
      <4>1. got'[c] = Append(got[c], <<Next1.tag, Next1.n>>) /\ got[c] \in Seq(Tag \X Nat)
        BY <1>0, <1>3, <3>1
      <4>2. Len(got'[c]) = Len(got[c]) + 1
        BY <4>1
      <4> QED
        BY <2>2, <3>1, <4>2
    <3>2. CASE ~(Next1.n > 0)
      BY <1>3, <2>2, <3>2
    <3> QED
      BY <3>1, <3>2
  <2>4. Handed'[c] = Private!RowsOf(c, Rows[c])
    <3>1. answer'[c] = "ok"
      BY <1>0, <2>1
    <3> QED
      BY <1>0, <2>3, <3>1, HandedNext
  <2>5. \A d \in Call : d # c => Handed'[d] = Handed[d]
    <3>1. \A d \in Call : d # c => got'[d] = got[d] /\ answer'[d] = answer[d]
      BY <1>0, <1>3, <2>1
    <3> QED
      BY <3>1, HandedKept
  <2>6. Handed' = [Handed EXCEPT ![c] = Private!RowsOf(c, Rows[c])]
    BY <1>0, <2>4, <2>5, Functions
  <2> QED
    BY <1>0, <2>1, <2>2, <2>6, Resolves DEF Seeing
<1> QED
  BY <1>1, <1>2, <1>3 DEF ToWaiter

(* The router at work: it sends one command's next row, or ends it.        *)
LEMMA SeeingOne ==
  ASSUME Typed, Typed', Tagged, OwnRows, OwnRows', NEW c \in Call, tagOf[c] # 0,
         UNCHANGED <<answer, got, closed, tagOf>>, NEW j \in Job, job' = [job EXCEPT ![tagOf[c]] = j]
  PROVE  /\ Handed' = Handed /\ answer[c] # "idle"
         /\ Rows' = [Rows EXCEPT ![c] = j.rows]
         /\ Verdicts' = [Verdicts EXCEPT ![c] = IF j.is = "runs" THEN "none" ELSE j.is]
<1>1. tagOf[c] \in Tag /\ job \in [Tag -> Job]
  BY DEF Typed
<1>2. Handed' = Handed
  BY HandedSame
<1>3. answer[c] # "idle"
  BY DEF Tagged
<1>4. job'[tagOf[c]] = j
  BY <1>1
<1>5. /\ Rows'[c] = j.rows
      /\ Verdicts'[c] = IF j.is = "runs" THEN "none" ELSE j.is
  BY <1>4, Seen
<1>6. ASSUME NEW d \in Call, d # c
      PROVE  Rows'[d] = Rows[d] /\ Verdicts'[d] = Verdicts[d]
  <2>1. CASE tagOf[d] = 0
    BY <2>1, Seen
  <2>2. CASE tagOf[d] # 0
    <3>1. tagOf[d] # tagOf[c] /\ tagOf[d] \in Tag
      BY <1>6, <2>2 DEF Tagged, Typed
    <3>2. job'[tagOf[d]] = job[tagOf[d]]
      BY <1>1, <3>1
    <3> QED
      BY <2>2, <3>2, Seen
  <2> QED
    BY <2>1, <2>2
<1>7. Rows' = [Rows EXCEPT ![c] = j.rows]
  BY <1>5, <1>6, Functions
<1>8. Verdicts' = [Verdicts EXCEPT ![c] = IF j.is = "runs" THEN "none" ELSE j.is]
  BY <1>5, <1>6, Functions
<1> QED
  BY <1>2, <1>3, <1>7, <1>8

LEMMA SeeingServes ==
  ASSUME Typed, Typed', Tagged, OwnRows, OwnRows', NEW t \in Owned, job[t].is = "runs",
         UNCHANGED <<answer, got, closed, tagOf>>,
         \/ \E m \in Nat : /\ m = 0 \/ m = 1
                           /\ \E v : (v = "done" \/ v = "trap" \/ v = "halted") /\
                                job' = [job EXCEPT ![t] = [rows |-> job[t].rows + m, is |-> v]]
         \/ job' = [job EXCEPT ![t] = [rows |-> job[t].rows + 1, is |-> "runs"]]
  PROVE  Seeing
<1>1. PICK c \in Call : tagOf[c] = t /\ tagOf[c] # 0
  BY DEF Owned
<1>2. job[t] \in Job /\ job[t].rows \in Nat
  BY OwnedTags DEF Typed, Job
<1>3. Rows[c] = job[t].rows /\ Verdicts[c] = "none"
  BY <1>1, Seen
<1>4. CASE job' = [job EXCEPT ![t] = [rows |-> job[t].rows + 1, is |-> "runs"]]
  <2> DEFINE j == [rows |-> job[t].rows + 1, is |-> "runs"]
  <2>1. j \in Job /\ j.rows = job[t].rows + 1 /\ j.is = "runs"
    BY <1>2 DEF Job
  <2>2. job' = [job EXCEPT ![tagOf[c]] = j]
    BY <1>1, <1>4
  <2> HIDE DEF j
  <2>3. /\ Handed' = Handed /\ answer[c] # "idle"
        /\ Rows' = [Rows EXCEPT ![c] = j.rows] /\ Verdicts' = [Verdicts EXCEPT ![c] = "none"]
    BY <1>1, <2>1, <2>2, SeeingOne
  <2>4. Rows' = [Rows EXCEPT ![c] = @ + 1] /\ Verdicts' = Verdicts
    BY <1>3, <2>1, <2>3, Functions
  <2> QED
    BY <1>3, <2>3, <2>4, ServesOne DEF Seeing
<1>5. ASSUME NEW m \in Nat, m = 0 \/ m = 1, NEW v, v = "done" \/ v = "trap" \/ v = "halted",
             job' = [job EXCEPT ![t] = [rows |-> job[t].rows + m, is |-> v]]
      PROVE  Seeing
  <2> DEFINE j == [rows |-> job[t].rows + m, is |-> v]
  <2>1. j \in Job /\ j.rows = job[t].rows + m /\ j.is = v
    BY <1>2, <1>5 DEF Job
  <2>2. job' = [job EXCEPT ![tagOf[c]] = j]
    BY <1>1, <1>5
  <2> HIDE DEF j
  <2>3. /\ Handed' = Handed /\ answer[c] # "idle"
        /\ Rows' = [Rows EXCEPT ![c] = j.rows] /\ Verdicts' = [Verdicts EXCEPT ![c] = v]
    BY <1>1, <1>5, <2>1, <2>2, SeeingOne
  <2>4. Rows' = [Rows EXCEPT ![c] = @ + m] /\ m \in 0..1
    BY <1>3, <1>5, <2>1, <2>3
  <2> QED
    BY <1>3, <1>5, <2>3, <2>4, ConcludesOne DEF Seeing
<1> QED
  BY <1>4, <1>5


LEMMA OneJob ==
  ASSUME Typed, Typed', Works
  PROVE  /\ UNCHANGED <<answer, got, closed, tagOf>>
         /\ job' = job \/ \E t \in Tag : job' = [job EXCEPT ![t] = job'[t]]
<1>0. job \in [Tag -> Job] /\ job' \in [Tag -> Job]
  BY DEF Typed
<1>1. ASSUME NEW t \in Tag, \A u \in Tag : u # t => job'[u] = job[u]
      PROVE  job' = [job EXCEPT ![t] = job'[t]]
  BY <1>0, <1>1
<1>2. CASE RouterTakes
  <2>1. Head(up).tag \in Tag /\ Head(up).cancels \in Tag \cup {0}
    BY <1>2, Requests DEF Request
  <2>2. \/ job' = job
        \/ job' = [job EXCEPT ![Head(up).tag].is = "runs"]
        \/ /\ Head(up).cancels \in Tag
           /\ job' = [job EXCEPT ![Head(up).cancels].is = "halted"]
    BY <1>2, <2>1 DEF RouterTakes
  <2>3. \/ job' = job
        \/ \A u \in Tag : u # Head(up).tag => job'[u] = job[u]
        \/ Head(up).cancels \in Tag /\ \A u \in Tag : u # Head(up).cancels => job'[u] = job[u]
    BY <1>0, <2>1, <2>2
  <2>4. UNCHANGED <<answer, got, closed, tagOf>>
    BY <1>2 DEF RouterTakes, RouterVars
  <2> QED
    BY <1>1, <2>1, <2>3, <2>4
<1>3. CASE RouterFails
  BY <1>3 DEF RouterFails, RouterVars
<1>4. ASSUME NEW t \in Tag, RouterRow(t) \/ RouterEnds(t)
      PROVE  /\ UNCHANGED <<answer, got, closed, tagOf>>
             /\ job' = [job EXCEPT ![t] = job'[t]]
  <2>1. /\ UNCHANGED <<answer, got, closed, tagOf>>
        /\ \/ job' = [job EXCEPT ![t].rows = @ + 1]
           \/ job' = [job EXCEPT ![t].is = "done"]
           \/ job' = [job EXCEPT ![t].is = "done", ![t].rows = @ + 1]
           \/ job' = [job EXCEPT ![t].is = "trap"]
           \/ job' = [job EXCEPT ![t].is = "halted"]
    BY <1>4 DEF RouterRow, RouterEnds, RouterVars
  <2>2. \A u \in Tag : u # t => job'[u] = job[u]
    BY <1>0, <2>1
  <2> QED
    BY <1>1, <2>1, <2>2
<1> QED
  BY <1>2, <1>3, <1>4 DEF Works

LEMMA SeeingWorks ==
  ASSUME Typed, Typed', Tagged, Underway, Worked, OwnRows, OwnRows', [SessionNext]_sessionVars, Works
  PROVE  Seeing
<1>0. UNCHANGED <<answer, got, closed, tagOf>>
  BY OneJob
<1>1. ASSUME \A u \in Tag : /\ job'[u].rows = job[u].rows
                            /\ job'[u].is = job[u].is \/ (job[u].is = "none" /\ job'[u].is = "runs")
      PROVE  Seeing
  <2>1. ASSUME NEW c \in Call
        PROVE  Rows'[c] = Rows[c] /\ Verdicts'[c] = Verdicts[c]
    <3>1. CASE tagOf[c] = 0
      BY <1>0, <3>1, Seen
    <3>2. CASE tagOf[c] # 0
      <4>1. tagOf[c] \in Tag /\ tagOf'[c] = tagOf[c]
        BY <1>0, <3>2 DEF Typed
      <4>2. Rows'[c] = Rows[c]
        BY <1>1, <3>2, <4>1, Seen
      <4>3. Verdicts'[c] = Verdicts[c]
        BY <1>1, <3>2, <4>1, Seen
      <4> QED
        BY <4>2, <4>3
    <3> QED
      BY <3>1, <3>2
  <2>2. Rows' = Rows /\ Verdicts' = Verdicts
    BY <2>1, Functions, Alike
  <2> QED
    BY <1>0, <2>2, SeeingRests
<1>2. CASE job' = job
  BY <1>1, <1>2
<1>3. ASSUME NEW t \in Tag, job' = [job EXCEPT ![t] = job'[t]]
      PROVE  Seeing
  <2>0. job \in [Tag -> Job] /\ job' \in [Tag -> Job] /\ job[t].rows \in Nat
    BY DEF Typed, Job
  <2>1. \A u \in Tag : u # t => job'[u] = job[u]
    BY <1>3, <2>0
  <2>2. CASE job'[t] = job[t] \/ Begun(t)
    BY <1>1, <2>1, <2>2 DEF Begun
  <2>3. ASSUME job[t].is = "runs", NEW m \in Nat, m = 0 \/ m = 1, NEW v,
               v = "done" \/ v = "trap" \/ v = "halted",
               job'[t].rows = job[t].rows + m, job'[t].is = v
        PROVE  Seeing
    <3>1. job'[t] = [rows |-> job[t].rows + m, is |-> v]
      BY <2>0, <2>3 DEF Job
    <3>2. job' = [job EXCEPT ![t] = [rows |-> job[t].rows + m, is |-> v]]
      BY <1>3, <3>1
    <3>3. t \in Owned
      BY <2>3 DEF Worked
    <3> QED
      BY <1>0, <2>3, <3>2, <3>3, SeeingServes
  <2>4. CASE Halts(t) \/ Concludes(t)
    <3>1. /\ job[t].is = "runs"
          /\ job'[t].is = "done" \/ job'[t].is = "trap" \/ job'[t].is = "halted"
          /\ job'[t].rows = job[t].rows + 0 \/ job'[t].rows = job[t].rows + 1
      BY <2>0, <2>4 DEF Halts, Concludes
    <3> QED
      BY <2>3, <3>1
  <2>5. CASE Serves(t)
    <3>1. job'[t] = [rows |-> job[t].rows + 1, is |-> "runs"]
      BY <2>0, <2>5 DEF Job, Serves
    <3>2. job' = [job EXCEPT ![t] = [rows |-> job[t].rows + 1, is |-> "runs"]]
      BY <1>3, <3>1
    <3>3. t \in Owned /\ job[t].is = "runs"
      BY <2>5 DEF Worked, Serves
    <3> QED
      BY <1>0, <3>2, <3>3, SeeingServes
  <2> QED
    BY <2>2, <2>4, <2>5, JobSteps
<1> QED
  BY <1>2, <1>3, OneJob

LEMMA StepSeen ==
  ASSUME SessionInv, SessionInv', [SessionNext]_sessionVars
  PROVE  Seeing
<1>0. /\ Typed /\ Typed' /\ Tagged /\ Routed /\ Underway /\ Worked /\ Said /\ Unheard
      /\ OwnRows /\ OwnRows' /\ Warned /\ Completed
  BY DEF SessionInv
<1>1. CASE Works
  BY <1>0, <1>1, SeeingWorks
<1>2. CASE ~Works
  <2>0. UNCHANGED <<Rows, Verdicts>>
    BY <1>0, <1>2, SideKept
  <2>1. CASE Dies
    BY <1>0, <2>0, <2>1, SeeingDies
  <2>2. CASE (\E c \in Talk : Sends(c)) \/ (\E s \in Stream : Listens(s))
    BY <1>0, <2>0, <2>2, SeeingAsks
  <2>3. CASE \E s \in Stream : Yields(s)
    BY <1>0, <2>0, <2>3, SeeingYields
  <2>4. CASE \E s \in Stream : Unwinds(s)
    BY <1>0, <2>0, <2>4, SeeingUnwinds
  <2>5. CASE ToWaiter
    BY <1>0, <2>0, <2>5, SeeingAnswers
  <2>6. CASE Rests \/ ToNobody \/ ToSubscription \/ \E s \in Stream : Abort(s) \/ GraceExpires(s)
    <3>1. UNCHANGED <<answer, got, closed>>
      BY <2>6 DEF Rests, ToNobody, NoFailure, ToSubscription, Abort, GraceExpires
    <3> QED
      BY <1>0, <2>0, <3>1, SeeingRests
  <2> QED
    BY <1>2, <2>1, <2>2, <2>3, <2>4, <2>5, <2>6, StepKinds DEF Works
<1> QED
  BY <1>1, <1>2

LEMMA StartSeen ==
  ASSUME SessionInit
  PROVE  Private!CallsInit
<1>1. \A c \in Call : tagOf[c] = 0 /\ got[c] = <<>> /\ answer[c] = "idle"
  BY DEF SessionInit
<1>2. \A c \in Call : Rows[c] = 0 /\ Verdicts[c] = "none"
  BY <1>1, Seen
<1>3. \A c \in Call : Handed[c] = <<>>
  <2>1. ASSUME NEW c \in Call
        PROVE  Handed[c] = <<>>
    <3>1. CASE c \in Talk /\ answer[c] # "ok"
      BY <3>1 DEF Handed
    <3>2. CASE ~(c \in Talk /\ answer[c] # "ok")
      <4>1. Len(got[c]) = 0
        BY <1>1
      <4> QED
        BY <3>2, <4>1 DEF Handed
    <3> QED
      BY <3>1, <3>2
  <2> QED
    BY <2>1
<1>4. /\ Rows = [c \in Call |-> 0] /\ Verdicts = [c \in Call |-> "none"]
      /\ Handed = [c \in Call |-> <<>>]
  BY <1>2, <1>3, Functions
<1>5. answer = [c \in Call |-> "idle"] /\ closed = FALSE
  BY DEF SessionInit
<1> QED
  BY <1>4, <1>5, AbstractStarts

(* Every call has the router to itself: whatever the session does on the
   shared connection is, for each call, a step of NativeCalls.             *)
THEOREM SessionImplementsCalls == SessionSpec => ImplementsCalls
<1>1. SessionInit => Private!CallsInit
  BY StartSeen
<1>2. SessionInv /\ SessionInv' /\ [SessionNext]_sessionVars => [Private!CallsNext]_Private!callsVars
  BY StepSeen DEF Seeing
<1> QED
  BY <1>1, <1>2, SessionInvariant, PTL DEF SessionSpec, ImplementsCalls, Private!CallsSpec
=============================================================================
