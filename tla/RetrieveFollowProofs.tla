------------------------ MODULE RetrieveFollowProofs ------------------------
(***************************************************************************)
(* Proofs about RetrieveFollow, for any menu, rows, buffer and batch: its  *)
(* types, the truth of the summary, and that no late answer brings a       *)
(* deleted row back, or an older one after synced.                         *)
(***************************************************************************)
EXTENDS RetrieveFollow, FiniteSetTheorems, TLAPS

Version == 0..MaxWrites + 1

Listen == [is : {"listen"}, id : Id, ver : 1..Gone, at : Nat]

Row == [is : {"row"}, id : Id, ver : Version]

Answer == [is : {"member"}, versions : [Id -> Nat], rows : [Id -> Version]]

Event ==
  Listen \cup Row \cup Answer
    \cup [is : {"done"}, boot : [Id -> Nat]]
    \cup [is : {"sweep"}, ids : SUBSET Id]
    \cup [is : {"start", "end"}]

(* What the variables hold: the router's, those of its commands, the taps',
   the loop's, and the batch at hand by where the loop is.                 *)
TypedRouter ==
  /\ menu \in Menus
  /\ table \in [Id -> 0..Gone]
  /\ sel \subseteq Id /\ news \subseteq Id /\ silent \subseteq Id
  /\ writes \in 0..menu.writes
  /\ \A i \in Id : table[i] <= writes + 1 \/ table[i] = Gone
  /\ \A i \in news : table[i] # 0

TypedWire ==
  /\ run \in [Command -> {"off", "sent", "served", "over"}]
  /\ shot \in [Id -> Version]
  /\ reply \in [versions : [Id -> Nat], rows : [Id -> Version], ids : SUBSET Id]

TypedTaps ==
  /\ queue \in Seq(Event)
  /\ draining \in BOOLEAN /\ stopReq \in BOOLEAN /\ fatal \in BOOLEAN
  /\ aborted \in BOOLEAN
  /\ version \in Nat /\ latest \in [Id -> 0..version]

TypedLoop ==
  /\ pending \in Seq(Listen)
  /\ complete \in BOOLEAN /\ synced \in BOOLEAN
  /\ asking \in BOOLEAN /\ touching \in BOOLEAN /\ erred \in BOOLEAN
  /\ view \in [Id -> Version]
  /\ dirty \in [Id -> Nat] /\ boot \in [Id -> Nat]
  /\ asked \in Int /\ changes \in Nat
  /\ touched \subseteq Id /\ buried \subseteq Id
  /\ sweep \in {"idle", "set", "armed", "due", "running"}
  /\ outcome \in {"none", "ok", "failed", "left"}

TypedBatch ==
  /\ pc \in {"take", "replay", "member", "sweep", "post", "leave", "over"}
  /\ pc = "replay" => left \in [replay : Seq(Listen), ids : SUBSET Id]
  /\ pc = "member" => left \in [ids : SUBSET Id, versions : [Id -> Nat],
                                rows : [Id -> Version]]
  /\ pc = "sweep" => left \in [ids : SUBSET Id]

Typed == TypedRouter /\ TypedWire /\ TypedTaps /\ TypedLoop /\ TypedBatch

-----------------------------------------------------------------------------
(* Kinds of events in a queue.                                             *)
Has(q, w) == \E p \in 1..Len(q) : q[p].is = w

Once(q, w) == \A p, r \in 1..Len(q) : q[p].is = w /\ q[r].is = w => p = r

NeverAfter(q, w, of) ==
  \A p, r \in 1..Len(q) : q[p].is = of /\ q[r].is = w => r < p

Under(c) == run[c] \in {"sent", "served"}

(* How far the print is, and that nothing but its rows and the held-back
   listen replies comes before its end.                                    *)
Printing ==
  /\ run["print"] \in {"sent", "served", "over"}
  /\ run["print"] = "sent" => ~Has(queue, "row") /\ view = Zero
  /\ Has(queue, "done") => run["print"] = "over" /\ ~complete
  /\ Once(queue, "done")
  /\ NeverAfter(queue, "row", "done")
  /\ complete => /\ run["print"] = "over" /\ ~Has(queue, "row") /\ pending = <<>>
  /\ ~complete => /\ pc \in {"take", "post", "leave", "over"} /\ ~synced
                  /\ dirty = Zero /\ boot = Zero /\ buried = {}
                  /\ ~asking /\ sweep = "idle"
  /\ pc = "replay" => ~synced
  /\ pc = "sweep" => synced
  /\ pc = "post" => menu.query
  /\ ~synced => sweep = "idle"
  /\ synced /\ menu.query => boot = Zero

(* One membership read and one sweep at a time, and where they are.        *)
Reading ==
  /\ asking => run["member"] # "off" /\ menu.query
  /\ Under("member") => asking /\ ~Has(queue, "member")
  /\ Has(queue, "member") => asking /\ run["member"] = "over"
  /\ Once(queue, "member")
  /\ pc = "member" => ~asking /\ menu.query /\ left.ids \subseteq Ids(left.versions)
  /\ Ids(dirty) # {} => menu.query
  /\ ~(asking /\ sweep = "running")

Sweeping ==
  /\ Under("sweep") => sweep = "running" /\ ~Has(queue, "sweep")
  /\ Under("sweep") /\ draining => touching \/ Has(queue, "start")
  /\ Has(queue, "sweep") => sweep = "running" /\ run["sweep"] = "over"
  /\ Has(queue, "start") => sweep = "running" /\ ~touching
  /\ touching => sweep = "running"
  /\ Once(queue, "start") /\ Once(queue, "sweep")
  /\ NeverAfter(queue, "start", "sweep")
  /\ Has(queue, "sweep") => touching \/ Has(queue, "start")
  /\ pc = "sweep" => sweep = "idle"

(* Whoever is told to stop, and whoever is not.                            *)
Telling ==
  /\ ~aborted => draining /\ ~Halted /\ outcome = "none" /\ pc \notin {"leave", "over"}
  /\ erred => fatal
  /\ outcome = "ok" => ~fatal
  /\ pc \notin {"leave", "over"} => changes < menu.count \/ menu.count = 0
  /\ changes <= menu.count

(* The size of the read that is out, or at hand.                           *)
Sized ==
  /\ asked <= BatchLimit
  /\ Under("member") => asked = Cardinality(Ids(reply.versions))
  /\ \A p \in 1..Len(queue) :
       queue[p].is = "member" => asked = Cardinality(Ids(queue[p].versions))
  /\ pc = "member" => asked = Cardinality(left.ids)

-----------------------------------------------------------------------------
(* The listen replies held back: those to be replayed, or for the replay.  *)
Back == IF pc = "replay" THEN left.replay ELSE pending

(* All that is still to come.                                              *)
Coming == Back \o queue

Says(q, i, p) == q[p].is = "listen" /\ q[p].id = i

Shows(q, i, p) == q[p].is = "row" /\ q[p].id = i

(* Versions are those the router had, and an answer is newer than the copy. *)
Bounded ==
  /\ \A i \in Id : view[i] <= table[i] /\ shot[i] <= table[i]
  /\ \A p \in 1..Len(queue) :
       queue[p].is = "listen" \/ queue[p].is = "row" => queue[p].ver <= table[queue[p].id]
  /\ \A p \in 1..Len(Back) : Back[p].ver <= table[Back[p].id]

Answered ==
  /\ run["member"] = "served" =>
       \A i \in Id : reply.rows[i] # 0 => view[i] <= reply.rows[i] /\ reply.rows[i] <= table[i]
  /\ \A p \in 1..Len(queue) : queue[p].is = "member" =>
       \A i \in Id : queue[p].rows[i] # 0 => view[i] <= queue[p].rows[i] /\ queue[p].rows[i] <= table[i]
  /\ pc = "member" =>
       \A i \in left.ids : left.rows[i] # 0 => view[i] <= left.rows[i] /\ left.rows[i] <= table[i]

(* Without a query no listen reply in the queue is behind the copy, or behind
   what comes before it.                                                   *)
Ordered ==
  ~menu.query => \A i \in Id, q \in 1..Len(queue) : Says(queue, i, q) =>
    /\ view[i] <= queue[q].ver
    /\ \A p \in 1..q : Says(queue, i, p) \/ Shows(queue, i, p) => queue[p].ver <= queue[q].ver
    /\ \A p \in 1..Len(Back) : Back[p].id = i => Back[p].ver <= queue[q].ver

Behind == Bounded /\ Answered /\ Ordered

(* A .dead is the last word on its id.                                     *)
Final(t, new, i) == t[i] = Gone /\ i \notin new

LastWord ==
  /\ \A i \in buried : /\ Final(table, news, i) /\ view[i] = 0 /\ latest[i] = 0
                       /\ \A p \in 1..Len(Coming) : ~Says(Coming, i, p)
  /\ \A p \in 1..Len(Coming) : Coming[p].is = "listen" /\ Coming[p].ver = Gone =>
       /\ Final(table, news, Coming[p].id)
       /\ \A q \in 1..Len(Coming) : q > p => ~Says(Coming, Coming[p].id, q)

(* Numbers of listen replies: a reply still to be taken is newer than what is
   dirty, and that is newer than what is asked.                            *)
Asked == [i \in Id |-> {n \in Nat \ {0} :
  \/ Under("member") /\ reply.versions[i] = n
  \/ \E p \in 1..Len(queue) : queue[p].is = "member" /\ queue[p].versions[i] = n
  \/ pc = "member" /\ i \in left.ids /\ left.versions[i] = n}]

Newer(S, i, asks, d, l, v) ==
  /\ \A q \in 1..Len(S) : Says(S, i, q) =>
       /\ S[q].at \in 1..l /\ d < S[q].at
       /\ \A n \in asks : n < S[q].at
       /\ \A p \in 1..q - 1 : Says(S, i, p) => S[p].at < S[q].at
  /\ d <= l
  /\ d # 0 => \A n \in asks : n < d
  /\ \A n \in asks : n <= v

Fresh ==
  menu.query => \A i \in Id : Newer(Coming, i, Asked[i], dirty[i], latest[i], version)

-----------------------------------------------------------------------------
(* What is put at the queue's end comes after everything else.             *)
LEMMA Queued ==
  ASSUME queue \in Seq(Event), NEW e \in Event, queue' = Append(queue, e)
  PROVE  /\ queue' \in Seq(Event) /\ Len(queue) \in Nat
         /\ Len(queue') = Len(queue) + 1
         /\ queue'[Len(queue')] = e
         /\ \A p \in 1..Len(queue) : queue'[p] = queue[p]
OBVIOUS

(* What is behind the queue's head moves up.                               *)
LEMMA Dequeued ==
  ASSUME queue \in Seq(Event), queue # <<>>, queue' = Tail(queue)
  PROVE  /\ queue' \in Seq(Event) /\ Len(queue) \in Nat \ {0}
         /\ Len(queue') = Len(queue) - 1
         /\ queue[1] = Head(queue) /\ Head(queue) \in Event
         /\ \A p \in 1..Len(queue') : queue'[p] = queue[p + 1]
OBVIOUS

(* What the kind of an event says of its fields.                           *)
LEMMA EventKinds ==
  ASSUME NEW e \in Event
  PROVE  /\ e.is = "listen" => e \in Listen
         /\ e.is = "row" => e \in Row
         /\ e.is = "member" => e \in Answer
         /\ e.is = "done" => e.boot \in [Id -> Nat]
         /\ e.is = "sweep" => e.ids \subseteq Id
BY DEF Event, Listen, Row, Answer

LEMMA TellTyped ==
  ASSUME Typed, NEW framed, NEW then, Tell(framed, then)
  PROVE  /\ changes' \in Nat /\ draining' \in BOOLEAN /\ aborted' \in BOOLEAN
         /\ pc' \in {then, "leave"}
<1>1. changes \in Nat /\ draining \in BOOLEAN /\ aborted \in BOOLEAN
  BY DEF Typed, TypedRouter, TypedTaps, TypedLoop
<1>2. changes' \in {changes, changes + 1}
  BY DEF Tell
<1>3. \/ pc' = "leave" /\ draining' = FALSE /\ aborted' = TRUE
      \/ pc' = then /\ draining' = draining /\ aborted' = aborted
  BY DEF Tell, Leave, Halt
<1>4. changes' \in Nat
  BY <1>1, <1>2
<1> QED
  BY Zenon, <1>1, <1>3, <1>4

LEMMA ApplyTyped ==
  ASSUME Typed, NEW e \in Listen,
         NEW then, ApplyListen(e, then)
  PROVE  /\ changes' \in Nat /\ draining' \in BOOLEAN /\ aborted' \in BOOLEAN
         /\ pc' \in {then, "leave"}
         /\ touched' \subseteq Id /\ buried' \subseteq Id
         /\ latest' \in [Id -> 0..version] /\ dirty' \in [Id -> Nat]
         /\ boot' \in [Id -> Nat] /\ view' \in [Id -> Version]
<1>1. \E framed : Tell(framed, then)
  BY DEF ApplyListen
<1>2. /\ changes' \in Nat /\ draining' \in BOOLEAN /\ aborted' \in BOOLEAN
      /\ pc' \in {then, "leave"}
  BY <1>1, TellTyped
<1>3. touched' \subseteq Id /\ buried' \subseteq Id
  BY DEF ApplyListen, Typed, TypedRouter, TypedTaps, TypedLoop, Listen
<1>4. latest' \in [Id -> 0..version] /\ dirty' \in [Id -> Nat] /\ boot' \in [Id -> Nat]
  <2>1. /\ e.id \in Id /\ e.at \in Nat /\ version \in Nat
        /\ latest \in [Id -> 0..version] /\ dirty \in [Id -> Nat] /\ boot \in [Id -> Nat]
    BY DEF Typed, TypedRouter, TypedTaps, TypedLoop, Listen
  <2>2. /\ latest' \in {latest, [latest EXCEPT ![e.id] = 0]}
        /\ dirty' \in {dirty, [dirty EXCEPT ![e.id] = 0], [dirty EXCEPT ![e.id] = e.at]}
        /\ boot' \in {boot, [boot EXCEPT ![e.id] = 0]}
    BY DEF ApplyListen, Forget
  <2> QED
    BY <2>1, <2>2
<1>5. ~Dead(e) => e.ver \in Version
  BY FollowConstants DEF Dead, Listen, Gone, Version
<1>6. view' \in [Id -> Version]
  <2>1. view \in [Id -> Version] /\ e.id \in Id /\ 0 \in Version
    BY FollowConstants DEF Typed, TypedRouter, TypedTaps, TypedLoop, Listen, Version
  <2>2. \/ view' \in {view, [view EXCEPT ![e.id] = 0]}
        \/ ~Dead(e) /\ view' = [view EXCEPT ![e.id] = e.ver]
    BY DEF ApplyListen
  <2> QED
    BY <1>5, <2>1, <2>2
<1> QED
  BY <1>2, <1>3, <1>4, <1>6

LEMMA Commands ==
  /\ {"listen", "print", "member", "sweep"} \subseteq Command
  /\ \A c \in Command : c = "listen" \/ c = "print" \/ c = "member" \/ c = "sweep"
BY DEF Command

(* Every step of the follow has one of these names.                        *)
LEMMA StepNames ==
  ASSUME FollowNext
  PROVE  /\ outcome = "none"
         /\ \/ \E i \in Id : \/ Write(i) \/ Remove(i) \/ Slip(i) \/ Announce(i)
                             \/ PrintRow(i) \/ MemberStep(i) \/ SweepStep(i)
            \/ ServePrint \/ PrintDone \/ ServeMember \/ MemberDone \/ ServeSweep
            \/ SweepDone \/ SweepTimer \/ Stop \/ Abandon
            \/ \E c \in Command : CommandFails(c) \/ CommandEnds(c)
            \/ TakeListen \/ TakeRow \/ TakeDone \/ TakeMember \/ TakeSweepStart
            \/ TakeSweep \/ TakeEnd \/ Halting \/ ReplayStep \/ ReplayEnd \/ BatchEnd
            \/ Finish \/ PostSync \/ PostSweep \/ PostNothing
            \/ \E batch \in SUBSET Id : PostMember(batch)
BY DEF FollowNext, Wire, Loop

LEMMA EventIn ==
  ASSUME NEW e,
         \/ e \in Listen \/ e \in Row \/ e \in Answer
         \/ \E b \in [Id -> Nat] : e = [is |-> "done", boot |-> b]
         \/ \E s \in SUBSET Id : e = [is |-> "sweep", ids |-> s]
         \/ e \in [is : {"start", "end"}]
  PROVE  e \in Event
BY DEF Event

LEMMA RowsTyped ==
  ASSUME Typed
  PROVE  Rows \in [Id -> Version]
<1>1. table \in [Id -> 0..MaxWrites + 2] /\ MaxWrites \in Nat
  BY FollowConstants DEF Typed, TypedRouter, TypedTaps, TypedLoop, Gone
<1>2. ASSUME NEW i \in Id
      PROVE  (IF Selected(i) THEN table[i] ELSE 0) \in 0..MaxWrites + 1
  BY <1>1 DEF Selected, Here, Gone
<1> QED
  BY <1>2 DEF Rows, Version

LEMMA RouterUnchanged ==
  ASSUME FollowNext
  PROVE  /\ menu' = menu
         /\ \/ \E i \in Id : Write(i) \/ Remove(i) \/ Slip(i) \/ Announce(i)
            \/ UNCHANGED router
BY StepNames DEF Write, Remove, Slip, Announce,
  PrintRow, MemberStep, SweepStep, ServePrint, PrintDone, ServeMember,
  MemberDone, ServeSweep, SweepDone, SweepTimer, Stop, Abandon, CommandFails, CommandEnds,
  TakeListen, TakeRow, TakeDone, TakeMember, TakeSweepStart, TakeSweep, TakeEnd, Taking, Batch,
  Posting, Halting, ReplayStep, ReplayEnd, BatchEnd, Finish, PostSync, PostSweep,
  PostNothing, PostMember

LEMMA RouterTyped ==
  ASSUME Typed, FollowNext
  PROVE  TypedRouter'
<1> USE FollowConstants DEF Typed, TypedRouter
<1>1. ASSUME NEW i \in Id, Write(i)
      PROVE  TypedRouter'
  <2>1. menu.writes \in 0..MaxWrites /\ writes < menu.writes /\ writes \in Nat
    BY <1>1 DEF Write
  <2>2. writes' = writes + 1 /\ table' = [table EXCEPT ![i] = writes + 2] /\ menu' = menu
    BY <1>1 DEF Write
  <2>3. table' \in [Id -> 0..Gone] /\ writes' \in 0..menu'.writes
    BY <2>1, <2>2 DEF Gone
  <2>4. \A j \in Id : table'[j] <= writes' + 1 \/ table'[j] = Gone
    BY <2>1, <2>2 DEF Gone
  <2>5. sel' \subseteq Id /\ news' \subseteq Id /\ silent' \subseteq Id
    BY <1>1 DEF Write
  <2>6. \A j \in news' : table'[j] # 0
    BY <1>1, <2>1, <2>2 DEF Write
  <2> QED
    BY <2>2, <2>3, <2>4, <2>5, <2>6
<1>2. ASSUME NEW i \in Id, Remove(i)
      PROVE  TypedRouter'
  <2>1. /\ table' = [table EXCEPT ![i] = Gone] /\ menu' = menu /\ writes' = writes
        /\ Gone \in 0..Gone
    BY <1>2 DEF Remove, Gone
  <2>2. sel' \subseteq Id /\ news' \subseteq Id /\ silent' \subseteq Id
    BY <1>2 DEF Remove
  <2>3. table' \in [Id -> 0..Gone] /\ \A j \in Id : table'[j] <= writes' + 1 \/ table'[j] = Gone
    BY <2>1
  <2>4. \A j \in news' : table'[j] # 0
    BY <1>2, <2>1 DEF Remove, Gone
  <2> QED
    BY <2>1, <2>2, <2>3, <2>4
<1>3. ASSUME NEW i \in Id, Slip(i) \/ Announce(i)
      PROVE  TypedRouter'
  BY <1>3 DEF Slip, Announce
<1>4. CASE UNCHANGED <<menu, router>>
  BY <1>4 DEF router
<1> QED
  BY <1>1, <1>2, <1>3, <1>4, RouterUnchanged

LEMMA WireTyped ==
  ASSUME Typed, FollowNext
  PROVE  TypedWire'
<1> DEFINE Cmds == [Command -> {"off", "sent", "served", "over"}]
<1>1. run \in Cmds /\ Rows \in [Id -> Version] /\ TypedWire
  BY RowsTyped DEF Typed, TypedWire
<1>2. run' \in Cmds
  <2>1. \/ UNCHANGED run
        \/ \E c \in Command : \E how :
             how \in {"off", "sent", "served", "over"} /\ run' = [run EXCEPT ![c] = how]
    BY Commands, StepNames DEF Write, Remove, Slip, Announce,
      PrintRow, MemberStep, SweepStep, ServePrint, PrintDone, ServeMember,
      MemberDone, ServeSweep, SweepDone, SweepTimer, Stop, Abandon, CommandFails, CommandEnds,
      TakeListen, TakeRow, TakeDone, TakeMember, TakeSweepStart, TakeSweep, TakeEnd, Taking, Batch,
      Posting, Halting, ReplayStep, ReplayEnd, BatchEnd, Finish, PostSync, PostSweep,
      PostNothing, PostMember, StartSweep
  <2> QED
    BY <1>1, <2>1
<1>3. ASSUME NEW i \in Id, PrintRow(i)
      PROVE  shot' \in [Id -> Version] /\ UNCHANGED reply
  BY <1>1, <1>3, FollowConstants DEF PrintRow, TypedWire, Version
<1>4. ASSUME ServePrint
      PROVE  shot' \in [Id -> Version] /\ UNCHANGED reply
  BY <1>1, <1>4 DEF ServePrint
<1>5. ASSUME ServeMember
      PROVE  /\ UNCHANGED shot
             /\ reply' \in [versions : [Id -> Nat], rows : [Id -> Version], ids : SUBSET Id]
  BY <1>1, <1>5, FollowConstants DEF ServeMember, TypedWire, Version
<1>6. ASSUME MemberDone \/ SweepDone
      PROVE  /\ UNCHANGED shot
             /\ reply' \in [versions : [Id -> Nat], rows : [Id -> Version], ids : SUBSET Id]
  BY <1>1, <1>6, FollowConstants DEF MemberDone, SweepDone, NoReply, Zero, Version
<1>7. ASSUME ServeSweep
      PROVE  /\ UNCHANGED shot
             /\ reply' \in [versions : [Id -> Nat], rows : [Id -> Version], ids : SUBSET Id]
  BY <1>1, <1>7 DEF ServeSweep, TypedWire, Ids
<1>8. ASSUME NEW batch \in SUBSET Id, PostMember(batch)
      PROVE  /\ UNCHANGED shot
             /\ reply' \in [versions : [Id -> Nat], rows : [Id -> Version], ids : SUBSET Id]
  BY <1>1, <1>8 DEF PostMember, Posting, TypedWire, Typed, TypedLoop
<1>9. \/ \E i \in Id : PrintRow(i)
      \/ ServePrint \/ ServeMember \/ MemberDone \/ SweepDone \/ ServeSweep
      \/ \E batch \in SUBSET Id : PostMember(batch)
      \/ UNCHANGED <<shot, reply>>
  BY StepNames DEF Write, Remove, Slip, Announce,
    MemberStep, SweepStep, PrintDone,
    SweepTimer, Stop, Abandon, CommandFails, CommandEnds,
    TakeListen, TakeRow, TakeDone, TakeMember, TakeSweepStart, TakeSweep, TakeEnd, Taking, Batch,
    Posting, Halting, ReplayStep, ReplayEnd, BatchEnd, Finish, PostSync, PostSweep,
    PostNothing
<1> QED
  BY <1>1, <1>2, <1>3, <1>4, <1>5, <1>6, <1>7, <1>8, <1>9 DEF TypedWire

(* What the router announces.                                              *)
LEMMA Announced ==
  ASSUME Typed, NEW i \in Id, Announce(i)
  PROVE  \E e \in Listen : /\ e \in Event /\ e.is = "listen" /\ e.id = i /\ e.ver = table[i]
                           /\ menu.query => e.at = version + 1
                           /\ PushBounded(e)
<1> DEFINE e == [is |-> "listen", id |-> i, ver |-> table[i],
                 at |-> IF menu.query THEN version + 1 ELSE 0]
<1>1. PushBounded(e) /\ e.is = "listen" /\ e.id = i /\ e.ver = table[i]
      /\ (menu.query => e.at = version + 1)
  BY DEF Announce
<1>2. version + 1 \in Nat
  BY DEF Typed, TypedTaps
<1>3. table[i] \in 1..Gone
  BY FollowConstants DEF Typed, TypedRouter, Gone, Announce
<1>4. e \in Listen
  BY <1>2, <1>3 DEF Listen
<1>5. e \in Event
  BY <1>4, EventIn
<1> QED
  BY <1>1, <1>4, <1>5

(* What the commands put into the queue.                                   *)
LEMMA PushedKinds ==
  ASSUME Typed
  PROVE  /\ \A i \in Id : Announce(i) =>
              \E e \in Event : e.is = "listen" /\ PushBounded(e)
         /\ \A i \in Id : PrintRow(i) => \E e \in Event : e.is = "row" /\ PushBounded(e)
         /\ PrintDone => \E e \in Event : e.is = "done" /\ Push(e)
         /\ MemberDone => \E e \in Event : e.is = "member" /\ Push(e)
         /\ SweepDone => \E e \in Event : e.is = "sweep" /\ Push(e)
         /\ StartSweep => \E e \in Event : e.is = "start" /\ Push(e)
         /\ \A c \in Command : CommandEnds(c) =>
              UNCHANGED queue \/ \E e \in Event : e.is = "end" /\ Push(e)
<1>1. ASSUME NEW i \in Id, Announce(i)
      PROVE  \E e \in Event : e.is = "listen" /\ PushBounded(e)
  BY <1>1, Announced
<1>2. ASSUME NEW i \in Id, PrintRow(i)
      PROVE  \E e \in Event : e.is = "row" /\ PushBounded(e)
  <2>1. [is |-> "row", id |-> i, ver |-> shot[i]] \in Event
    BY EventIn DEF Typed, TypedWire, Row
  <2> QED
    BY <1>2, <2>1 DEF PrintRow
<1>3. PrintDone => \E e \in Event : e.is = "done" /\ Push(e)
  <2>1. latest \in [Id -> Nat] /\ Zero \in [Id -> Nat]
    BY DEF Typed, TypedTaps, Zero
  <2>2. \A b \in [Id -> Nat] : [is |-> "done", boot |-> b] \in Event
    BY EventIn
  <2> QED
    BY <2>1, <2>2 DEF PrintDone
<1>4. MemberDone => \E e \in Event : e.is = "member" /\ Push(e)
  <2>1. [is |-> "member", versions |-> reply.versions, rows |-> reply.rows] \in Event
    BY EventIn DEF Typed, TypedWire, Answer
  <2> QED
    BY <2>1 DEF MemberDone
<1>5. SweepDone => \E e \in Event : e.is = "sweep" /\ Push(e)
  <2>1. [is |-> "sweep", ids |-> reply.ids] \in Event
    BY EventIn DEF Typed, TypedWire
  <2> QED
    BY <2>1 DEF SweepDone
<1>6. StartSweep => \E e \in Event : e.is = "start" /\ Push(e)
  BY EventIn DEF StartSweep
<1>7. ASSUME NEW c \in Command, CommandEnds(c)
      PROVE  UNCHANGED queue \/ \E e \in Event : e.is = "end" /\ Push(e)
  BY <1>7, EventIn DEF CommandEnds
<1> QED
  BY <1>1, <1>2, <1>3, <1>4, <1>5, <1>6, <1>7

LEMMA Pushes ==
  ASSUME Typed, FollowNext
  PROVE  \/ UNCHANGED queue
         \/ queue # <<>> /\ queue' = Tail(queue)
         \/ \E e \in Event : queue' = Append(queue, e)
<1>1. ASSUME NEW e \in Event, Push(e) \/ PushBounded(e)
      PROVE  UNCHANGED queue \/ queue' = Append(queue, e)
  BY <1>1 DEF Push, PushBounded
<1>2. \/ \E i \in Id : Announce(i) \/ PrintRow(i)
      \/ PrintDone \/ MemberDone \/ SweepDone \/ StartSweep
      \/ \E c \in Command : CommandEnds(c)
      \/ UNCHANGED queue
      \/ queue # <<>> /\ queue' = Tail(queue)
  BY StepNames DEF Write, Remove, Slip, SweepTimer, PostSweep,
    MemberStep, SweepStep, ServePrint, ServeMember,
    ServeSweep, Stop, Abandon, CommandFails, taps,
    TakeListen, TakeRow, TakeDone, TakeMember, TakeSweepStart, TakeSweep, TakeEnd, Taking, Batch,
    Posting, Halting, ReplayStep, ReplayEnd, BatchEnd, Finish, PostSync,
    PostNothing, PostMember
<1> QED
  BY <1>1, <1>2, PushedKinds

LEMMA TapsTyped ==
  ASSUME Typed, FollowNext
  PROVE  TypedTaps'
<1>1. TypedTaps
  BY DEF Typed
<1>2. queue' \in Seq(Event)
  <2>1. queue \in Seq(Event)
    BY <1>1 DEF TypedTaps
  <2>2. queue # <<>> => Tail(queue) \in Seq(Event)
    BY <2>1
  <2>3. \A e \in Event : Append(queue, e) \in Seq(Event)
    BY <2>1
  <2> QED
    BY <2>1, <2>2, <2>3, Pushes
<1>3. /\ draining' \in {draining, FALSE} /\ stopReq' \in {stopReq, TRUE}
      /\ fatal' \in {fatal, TRUE} /\ aborted' \in {aborted, TRUE}
  BY StepNames DEF Write, Remove, Slip, Announce, taps, PushBounded, Halt, Tell, Leave, ApplyListen,
    PrintRow, MemberStep, SweepStep, ServePrint, PrintDone, ServeMember,
    MemberDone, ServeSweep, SweepDone, SweepTimer, Stop, Abandon, CommandFails, CommandEnds,
    TakeListen, TakeRow, TakeDone, TakeMember, TakeSweepStart, TakeSweep, TakeEnd, Taking, Batch,
    Posting, Halting, ReplayStep, ReplayEnd, BatchEnd, Finish, PostSync, PostSweep,
    PostNothing, PostMember
<1>4. /\ draining' \in BOOLEAN /\ stopReq' \in BOOLEAN /\ fatal' \in BOOLEAN
      /\ aborted' \in BOOLEAN
  BY Zenon, <1>1, <1>3 DEF TypedTaps
<1>5. version' \in Nat /\ latest' \in [Id -> 0..version']
  <2>1. version \in Nat /\ latest \in [Id -> 0..version]
    BY <1>1 DEF TypedTaps
  <2>2. \/ \E i \in Id : Announce(i) /\ version' = version + 1
                         /\ latest' = [latest EXCEPT ![i] = version + 1]
        \/ version' = version /\ \/ UNCHANGED latest
                                 \/ \E i \in Id : latest' = [latest EXCEPT ![i] = 0]
    <3>1. ASSUME \/ TakeListen \/ ReplayStep
          PROVE  version' = version /\ \/ UNCHANGED latest
                                       \/ \E i \in Id : latest' = [latest EXCEPT ![i] = 0]
      <4>1. ASSUME NEW e \in Listen, NEW then, ApplyListen(e, then)
            PROVE  UNCHANGED latest \/ \E i \in Id : latest' = [latest EXCEPT ![i] = 0]
        BY <4>1 DEF ApplyListen, Forget, Listen
      <4>2. CASE TakeListen
        <5>1. Head(queue) \in Listen
          BY <4>2, <1>1, EventKinds, Dequeued DEF TypedTaps, TakeListen, Taking
        <5> QED
          BY <4>1, <4>2, <5>1 DEF TakeListen, Taking
      <4>3. CASE ReplayStep
        <5>1. Head(left.replay) \in Listen
          BY <4>3 DEF Typed, TypedBatch, ReplayStep, Batch
        <5> QED
          BY <4>1, <4>3, <5>1 DEF ReplayStep, Batch
      <4> QED
        BY <3>1, <4>2, <4>3
    <3>2. ASSUME NEW i \in Id, MemberStep(i)
          PROVE  version' = version /\ \/ UNCHANGED latest
                                       \/ \E j \in Id : latest' = [latest EXCEPT ![j] = 0]
      BY <3>2 DEF MemberStep, Batch
    <3> QED
      BY <3>1, <3>2, StepNames DEF Write, Remove, Slip, Announce, taps,
        PrintRow, SweepStep, ServePrint, PrintDone, ServeMember,
        MemberDone, ServeSweep, SweepDone, SweepTimer, Stop, Abandon, CommandFails, CommandEnds,
        TakeRow, TakeDone, TakeMember, TakeSweepStart, TakeSweep, TakeEnd, Taking, Batch,
        Posting, Halting, ReplayEnd, BatchEnd, Finish, PostSync, PostSweep,
        PostNothing, PostMember
  <2> QED
    BY <2>1, <2>2
<1> QED
  BY <1>2, <1>4, <1>5 DEF TypedTaps

(* The event the loop takes.                                               *)
LEMMA Taken ==
  ASSUME TypedTaps, NEW what, Taking(what)
  PROVE  /\ queue' \in Seq(Event) /\ Len(queue) \in Nat \ {0}
         /\ Len(queue') = Len(queue) - 1
         /\ queue[1] = Head(queue) /\ Head(queue) \in Event /\ Head(queue).is = what
         /\ \A p \in 1..Len(queue') : queue'[p] = queue[p + 1]
BY Dequeued DEF Taking, TypedTaps

LEMMA Replayed ==
  ASSUME TypedBatch, ReplayStep
  PROVE  /\ left.replay \in Seq(Listen) /\ left' = [left EXCEPT !.replay = Tail(@)]
         /\ Head(left.replay) \in Listen /\ Tail(left.replay) \in Seq(Listen)
         /\ left' \in [replay : Seq(Listen), ids : SUBSET Id]
         /\ left'.replay = Tail(left.replay)
<1>1. /\ left \in [replay : Seq(Listen), ids : SUBSET Id] /\ left.replay # <<>>
      /\ left' = [left EXCEPT !.replay = Tail(@)]
  BY DEF TypedBatch, ReplayStep, Batch
<1>2. left.replay \in Seq(Listen)
  BY <1>1
<1>3. Head(left.replay) \in Listen /\ Tail(left.replay) \in Seq(Listen)
  BY <1>1, <1>2
<1> QED
  BY <1>1, <1>2, <1>3

LEMMA LoopTyped ==
  ASSUME Typed, FollowNext
  PROVE  TypedLoop'
<1> USE DEF Typed
<1>1. ASSUME TakeListen
      PROVE  TypedLoop'
  <2>1. Head(queue) \in Listen /\ Next_ \in {"take", "post"}
    BY <1>1, Taken, EventKinds DEF TakeListen, Next_
  <2>2. CASE ~complete
    <3>1. pending' \in Seq(Listen)
      <4>1. pending \in Seq(Listen)
        BY DEF TypedLoop
      <4>2. pending' = Append(pending, Head(queue))
        BY <1>1, <2>2 DEF TakeListen
      <4> QED
        BY <2>1, <4>1, <4>2
    <3> QED
      BY <1>1, <2>2, <3>1 DEF TypedLoop, TakeListen, Taking
  <2>3. CASE complete
    <3>1. ApplyListen(Head(queue), Next_)
      BY <1>1, <2>3 DEF TakeListen
    <3>2. /\ changes' \in Nat /\ touched' \subseteq Id /\ buried' \subseteq Id
          /\ dirty' \in [Id -> Nat] /\ boot' \in [Id -> Nat] /\ view' \in [Id -> Version]
      BY <2>1, <3>1, ApplyTyped
    <3> QED
      BY <1>1, <2>3, <3>2 DEF TypedLoop, TakeListen, Taking
  <2> QED
    BY <2>2, <2>3
<1>2. ASSUME ReplayStep
      PROVE  TypedLoop'
  <2>1. ApplyListen(Head(left.replay), "replay") /\ Head(left.replay) \in Listen
    BY <1>2, Replayed DEF ReplayStep
  <2>2. /\ changes' \in Nat /\ touched' \subseteq Id /\ buried' \subseteq Id
        /\ dirty' \in [Id -> Nat] /\ boot' \in [Id -> Nat] /\ view' \in [Id -> Version]
    BY <2>1, ApplyTyped
  <2> QED
    BY <1>2, <2>2 DEF TypedLoop, ReplayStep, Batch
<1>3. ASSUME TakeRow
      PROVE  TypedLoop'
  <2>1. Head(queue) \in Row
    BY <1>3, Taken, EventKinds DEF TakeRow
  <2>2. view' \in [Id -> Version]
    BY <1>3, <2>1 DEF TypedLoop, TakeRow, Row
  <2> QED
    BY <1>3, <2>2 DEF TypedLoop, TakeRow, Taking
<1>4. ASSUME TakeDone
      PROVE  TypedLoop'
  <2>1. Head(queue).boot \in [Id -> Nat]
    BY <1>4, Taken, EventKinds DEF TakeDone
  <2> QED
    BY <1>4, <2>1 DEF TypedLoop, TakeDone, Taking
<1>5. ASSUME TakeMember \/ TakeSweepStart \/ TakeSweep \/ TakeEnd
      PROVE  TypedLoop'
  <2>1. /\ sweep' = sweep \/ sweep' = "idle"
        /\ touched' = touched \/ touched' = {}
        /\ asking' = asking \/ asking' = FALSE
        /\ touching' = touching \/ touching' = TRUE \/ touching' = FALSE
        /\ UNCHANGED <<pending, complete, synced, erred, view, dirty, boot, asked,
                       changes, buried, outcome>>
    BY <1>5 DEF TakeMember, TakeSweepStart, TakeSweep, TakeEnd, Taking, loop
  <2>2. sweep' \in {"idle", "set", "armed", "due", "running"} /\ touched' \subseteq Id
    BY <2>1 DEF TypedLoop
  <2>3. asking' \in BOOLEAN /\ touching' \in BOOLEAN
    BY Zenon, <2>1 DEF TypedLoop
  <2> QED
    BY Zenon, <2>1, <2>2, <2>3 DEF TypedLoop
<1>6. ASSUME NEW i \in Id, MemberStep(i)
      PROVE  TypedLoop'
  <2>1. left.rows[i] \in Version /\ left.ids \subseteq Id
    BY <1>6 DEF MemberStep, Batch, TypedBatch
  <2>2. asked' \in Int
    BY <1>6 DEF TypedLoop, MemberStep
  <2>3. changes' \in Nat
    <3>1. changes' = changes \/ \E framed : Tell(framed, "member")
      BY <1>6 DEF MemberStep
    <3> QED
      BY <3>1, TellTyped DEF TypedLoop
  <2>4. boot' \in [Id -> Nat] /\ view' \in [Id -> Version]
    BY <1>6, <2>1 DEF TypedLoop, MemberStep
  <2> QED
    BY <1>6, <2>2, <2>3, <2>4 DEF TypedLoop, MemberStep, Batch
<1>7. ASSUME NEW i \in Id, SweepStep(i)
      PROVE  TypedLoop'
  <2>1. changes' \in Nat
    BY <1>7, TellTyped DEF TypedLoop, SweepStep
  <2>2. view' \in [Id -> Version]
    <3>1. 0 \in Version
      BY FollowConstants DEF Version
    <3>2. view' = view \/ view' = [view EXCEPT ![i] = 0]
      BY Zenon, <1>7 DEF SweepStep
    <3> QED
      BY <3>1, <3>2 DEF TypedLoop
  <2> QED
    BY <1>7, <2>1, <2>2 DEF TypedLoop, SweepStep, Batch
<1>8. ASSUME NEW batch \in SUBSET Id, PostMember(batch)
      PROVE  TypedLoop'
  <2>1. Cardinality(batch) \in Nat
    BY FollowConstants, FS_Subset, FS_CardinalityType
  <2>2. dirty' \in [Id -> Nat]
    BY <1>8 DEF TypedLoop, PostMember
  <2> QED
    BY <1>8, <2>1, <2>2 DEF TypedLoop, PostMember, Posting, Armed
<1>9. ASSUME ReplayEnd \/ BatchEnd \/ PostSync \/ PostSweep \/ PostNothing \/ SweepTimer
      PROVE  TypedLoop'
  <2>1. /\ sweep' \in {sweep, "armed", "set", "due", "running"}
        /\ synced' \in {synced, ~menu.query, TRUE}
        /\ UNCHANGED <<pending, complete, asking, touching, erred, view, dirty, boot, asked,
                       changes, touched, buried, outcome>>
    BY <1>9 DEF ReplayEnd, BatchEnd, PostSync, PostSweep, PostNothing, SweepTimer,
      Batch, Posting, StartSweep, Armed
  <2>2. sweep' \in {"idle", "set", "armed", "due", "running"}
    BY <2>1 DEF TypedLoop
  <2>3. synced' \in BOOLEAN
    BY Zenon, <2>1 DEF TypedLoop
  <2> QED
    BY Zenon, <2>1, <2>2, <2>3 DEF TypedLoop
<1>10. ASSUME Finish \/ Abandon \/ Halting \/ \E c \in Command : CommandFails(c)
       PROVE  TypedLoop'
  <2>1. /\ outcome' \in {outcome, "ok", "failed", "left"} /\ erred' \in {erred, TRUE}
        /\ UNCHANGED loop
    BY <1>10 DEF Finish, Abandon, Halting, CommandFails, loop
  <2>2. outcome' \in {"none", "ok", "failed", "left"} /\ erred' \in BOOLEAN
    BY Zenon, <2>1 DEF TypedLoop
  <2> QED
    BY Zenon, <2>1, <2>2 DEF TypedLoop, loop
<1>11. ASSUME \/ \E i \in Id : Write(i) \/ Remove(i) \/ Slip(i) \/ Announce(i) \/ PrintRow(i)
              \/ ServePrint \/ PrintDone \/ ServeMember \/ MemberDone \/ ServeSweep
              \/ SweepDone \/ Stop \/ \E c \in Command : CommandEnds(c)
       PROVE  TypedLoop'
  <2>1. UNCHANGED <<loop, outcome, erred>>
    BY <1>11 DEF Write, Remove, Slip, Announce, PrintRow, ServePrint, PrintDone, ServeMember,
      MemberDone, ServeSweep, SweepDone, Stop, CommandEnds
  <2> QED
    BY <2>1 DEF TypedLoop, loop
<1> QED
  BY <1>1, <1>2, <1>3, <1>4, <1>5, <1>6, <1>7, <1>8, <1>9, <1>10, <1>11, StepNames

LEMMA BatchTyped ==
  ASSUME Typed, FollowNext
  PROVE  TypedBatch'
<1> USE DEF Typed
<1>1. ASSUME TakeListen
      PROVE  TypedBatch'
  <2>1. Head(queue) \in Listen /\ Next_ \in {"take", "post"}
    BY <1>1, Taken, EventKinds DEF TakeListen, Next_
  <2>2. pc' \in {"take", "post", "leave"}
    BY <1>1, <2>1, ApplyTyped DEF TakeListen
  <2> QED
    BY <2>2 DEF TypedBatch
<1>2. ASSUME ReplayStep
      PROVE  TypedBatch'
  <2>1. pc' \in {"replay", "leave"}
    BY <1>2, Replayed, ApplyTyped DEF ReplayStep
  <2> QED
    BY <1>2, <2>1, Replayed DEF TypedBatch
<1>3. ASSUME TakeDone
      PROVE  TypedBatch'
  BY <1>3 DEF TypedBatch, TakeDone, TypedLoop
<1>4. ASSUME TakeMember
      PROVE  TypedBatch'
  <2>1. Head(queue) \in Answer
    BY <1>4, Taken, EventKinds DEF TakeMember
  <2> QED
    BY <1>4, <2>1 DEF TypedBatch, TakeMember, Answer, Ids
<1>5. ASSUME TakeSweep
      PROVE  TypedBatch'
  BY <1>5 DEF TypedBatch, TakeSweep, Ids
<1>6. ASSUME NEW i \in Id, MemberStep(i)
      PROVE  TypedBatch'
  <2>1. pc' \in {"member", "leave"}
    BY <1>6 DEF MemberStep, Tell, Leave
  <2>2. left' \in [ids : SUBSET Id, versions : [Id -> Nat], rows : [Id -> Version]]
    BY <1>6 DEF MemberStep, Batch, TypedBatch
  <2> QED
    BY <2>1, <2>2 DEF TypedBatch
<1>7. ASSUME NEW i \in Id, SweepStep(i)
      PROVE  TypedBatch'
  <2>1. pc' \in {"sweep", "leave"}
    BY <1>7 DEF SweepStep, Tell, Leave
  <2>2. left' \in [ids : SUBSET Id]
    BY <1>7 DEF SweepStep, Batch, TypedBatch
  <2> QED
    BY <2>1, <2>2 DEF TypedBatch
<1>8. ASSUME \/ TakeRow \/ TakeSweepStart \/ TakeEnd \/ ReplayEnd \/ BatchEnd \/ Halting \/ Finish
             \/ Abandon \/ PostSweep \/ PostNothing \/ \E batch \in SUBSET Id : PostMember(batch)
      PROVE  TypedBatch'
  <2>1. pc' \in {"take", "post", "leave", "over"}
    BY <1>8 DEF TakeRow, TakeSweepStart, TakeEnd, ReplayEnd, BatchEnd, Halting, Finish,
      Abandon, PostSweep, PostNothing, PostMember, Leave, Next_
  <2> QED
    BY <2>1 DEF TypedBatch
<1>9. ASSUME UNCHANGED <<pc, left>>
      PROVE  TypedBatch'
  BY <1>9 DEF TypedBatch
<1>10. \/ TakeListen \/ ReplayStep \/ TakeDone \/ TakeMember \/ TakeSweep
       \/ \E i \in Id : MemberStep(i) \/ SweepStep(i)
       \/ TakeRow \/ TakeSweepStart \/ TakeEnd \/ ReplayEnd \/ BatchEnd \/ Halting \/ Finish
       \/ Abandon \/ PostSweep \/ PostNothing \/ \E batch \in SUBSET Id : PostMember(batch)
       \/ UNCHANGED <<pc, left>>
  BY StepNames DEF Write, Remove, Slip, Announce, PrintRow, ServePrint, PrintDone, ServeMember,
    MemberDone, ServeSweep, SweepDone, SweepTimer, Stop, CommandFails, CommandEnds, PostSync, Posting
<1> QED
  BY <1>1, <1>2, <1>3, <1>4, <1>5, <1>6, <1>7, <1>8, <1>9, <1>10

LEMMA TypedStep ==
  ASSUME Typed, [FollowNext]_followVars
  PROVE  Typed'
<1>1. CASE FollowNext
  BY <1>1, RouterTyped, WireTyped, TapsTyped, LoopTyped, BatchTyped DEF Typed
<1>2. CASE UNCHANGED followVars
  BY <1>2 DEF Typed, TypedRouter, TypedWire, TypedTaps, TypedLoop, TypedBatch, followVars,
    router, taps, loop
<1> QED
  BY <1>1, <1>2

LEMMA TypedStarts == FollowInit => Typed
<1> SUFFICES ASSUME FollowInit
    PROVE  Typed
  OBVIOUS
<1>1. TypedRouter
  BY FollowConstants DEF FollowInit, TypedRouter, Gone
<1>2. TypedWire
  BY FollowConstants DEF FollowInit, TypedWire, NoReply, Zero, Version
<1>3. TypedTaps
  <2>1. queue \in Seq(Event) /\ version \in Nat /\ latest \in [Id -> 0..version]
    BY DEF FollowInit, Zero
  <2> QED
    BY Zenon, <2>1 DEF FollowInit, TypedTaps
<1>4. TypedLoop
  <2>1. pending \in Seq(Listen) /\ view \in [Id -> Version]
    BY FollowConstants DEF FollowInit, Zero, Version
  <2>2. /\ dirty \in [Id -> Nat] /\ boot \in [Id -> Nat]
        /\ asked \in Int /\ changes \in Nat
    BY DEF FollowInit, Zero
  <2> QED
    BY Zenon, <2>1, <2>2 DEF FollowInit, TypedLoop
<1>5. TypedBatch
  BY DEF FollowInit, TypedBatch
<1> QED
  BY <1>1, <1>2, <1>3, <1>4, <1>5 DEF Typed

THEOREM FollowTyped == FollowSpec => []Typed
BY TypedStarts, TypedStep, PTL DEF FollowSpec

-----------------------------------------------------------------------------
(* Kinds of events in the queue, as it grows at one end and shrinks at the
   other.                                                                  *)
LEMMA KindsQueued ==
  ASSUME NEW q \in Seq(Event), NEW e \in Event, NEW r, r = Append(q, e)
  PROVE  /\ \A w : Has(r, w) <=> Has(q, w) \/ e.is = w
         /\ \A w : Once(q, w) /\ ~(Has(q, w) /\ e.is = w) => Once(r, w)
         /\ \A w, of : w # of /\ NeverAfter(q, w, of) /\ ~(Has(q, of) /\ e.is = w)
                         => NeverAfter(r, w, of)
<1> DEFINE n == Len(q)
<1>1. /\ n \in Nat /\ Len(r) = n + 1 /\ r[n + 1] = e
      /\ \A p \in 1..n : r[p] = q[p]
  OBVIOUS
<1>2. \A p \in 1..n + 1 : p \in 1..n \/ p = n + 1
  BY <1>1
<1>3. 1..n \subseteq 1..n + 1 /\ n + 1 \in 1..n + 1
  BY <1>1
<1> HIDE DEF n
<1>4. ASSUME NEW w
      PROVE  Has(r, w) <=> Has(q, w) \/ e.is = w
  BY <1>1, <1>2, <1>3 DEF Has, n
<1>5. ASSUME NEW w, Once(q, w), ~(Has(q, w) /\ e.is = w)
      PROVE  Once(r, w)
  BY <1>1, <1>2, <1>3, <1>5 DEF Has, Once, n
<1>6. ASSUME NEW w, NEW of, w # of, NeverAfter(q, w, of), ~(Has(q, of) /\ e.is = w)
      PROVE  NeverAfter(r, w, of)
  BY <1>1, <1>2, <1>3, <1>6 DEF Has, NeverAfter, n
<1> QED
  BY <1>4, <1>5, <1>6

LEMMA KindsTaken ==
  ASSUME TypedTaps, NEW what, Taking(what)
  PROVE  /\ Has(queue, what)
         /\ Once(queue, what) => ~Has(queue', what)
         /\ \A w : /\ Has(queue', w) => Has(queue, w)
                   /\ w # what /\ Has(queue, w) => Has(queue', w)
                   /\ Once(queue, w) => Once(queue', w)
                   /\ w # what /\ NeverAfter(queue, w, what) => ~Has(queue, w)
         /\ \A w, of : NeverAfter(queue, w, of) => NeverAfter(queue', w, of)
<1> DEFINE n == Len(queue)
<1>1. /\ n \in Nat \ {0} /\ Len(queue') = n - 1 /\ queue[1].is = what
      /\ \A p \in 1..n - 1 : queue'[p] = queue[p + 1]
  BY Taken
<1>2. \A p \in 1..n - 1 : p + 1 \in 1..n
  BY <1>1
<1>3. \A p \in 1..n : p = 1 \/ (p - 1 \in 1..n - 1 /\ queue'[p - 1] = queue[p])
  BY <1>1
<1>4. Has(queue, what)
  BY <1>1 DEF Has
<1>5. Once(queue, what) => ~Has(queue', what)
  BY <1>1, <1>2 DEF Has, Once
<1>6. ASSUME NEW w
      PROVE  /\ Has(queue', w) => Has(queue, w)
             /\ w # what /\ Has(queue, w) => Has(queue', w)
             /\ w # what /\ NeverAfter(queue, w, what) => ~Has(queue, w)
  <2>1. Has(queue', w) => Has(queue, w)
    BY <1>1, <1>2 DEF Has
  <2>2. w # what /\ Has(queue, w) => Has(queue', w)
    BY <1>1, <1>3 DEF Has
  <2>3. w # what /\ NeverAfter(queue, w, what) => ~Has(queue, w)
    BY <1>1 DEF NeverAfter, Has
  <2> QED
    BY <2>1, <2>2, <2>3
<1>7. ASSUME NEW w, Once(queue, w)
      PROVE  Once(queue', w)
  <2> SUFFICES ASSUME NEW p \in 1..n - 1, NEW r \in 1..n - 1,
                      queue'[p].is = w, queue'[r].is = w
      PROVE  p = r
    BY <1>1 DEF Once
  <2>1. queue[p + 1].is = w /\ queue[r + 1].is = w
    BY <1>1
  <2>2. p + 1 = r + 1
    BY <1>2, <1>7, <2>1 DEF Once
  <2> QED
    BY <1>1, <2>2
<1>8. ASSUME NEW w, NEW of, NeverAfter(queue, w, of)
      PROVE  NeverAfter(queue', w, of)
  <2> SUFFICES ASSUME NEW p \in 1..n - 1, NEW r \in 1..n - 1,
                      queue'[p].is = of, queue'[r].is = w
      PROVE  r < p
    BY <1>1 DEF NeverAfter
  <2>1. queue[p + 1].is = of /\ queue[r + 1].is = w
    BY <1>1
  <2>2. r + 1 < p + 1
    BY <1>2, <1>8, <2>1 DEF NeverAfter
  <2> QED
    BY <1>1, <2>2
<1> QED
  BY <1>4, <1>5, <1>6, <1>7, <1>8

(* The same of what a tap puts into the queue.                             *)
LEMMA KindsPushed ==
  ASSUME TypedTaps, NEW e \in Event, Push(e) \/ PushBounded(e)
  PROVE  /\ Push(e) /\ draining => Has(queue', e.is)
         /\ \A w : /\ Has(queue, w) => Has(queue', w)
                   /\ Has(queue', w) => Has(queue, w) \/ e.is = w
                   /\ Once(queue, w) /\ ~(Has(queue, w) /\ e.is = w) => Once(queue', w)
         /\ \A w, of : w # of /\ NeverAfter(queue, w, of) /\ ~(Has(queue, of) /\ e.is = w)
                         => NeverAfter(queue', w, of)
<1>1. queue \in Seq(Event)
  BY DEF TypedTaps
<1>2. CASE queue' = Append(queue, e)
  BY <1>1, <1>2, KindsQueued
<1>3. CASE UNCHANGED queue /\ ~(Push(e) /\ draining)
  BY <1>3
<1>4. Push(e) /\ draining => queue' = Append(queue, e)
  BY DEF Push
<1>5. queue' = Append(queue, e) \/ UNCHANGED queue
  BY DEF Push, PushBounded
<1> QED
  BY <1>2, <1>3, <1>4, <1>5

Control == Printing /\ Reading /\ Sweeping /\ Telling

LEMMA PrintingSame ==
  ASSUME Typed, Printing, UNCHANGED <<queue, menu>>, run'["print"] = run["print"],
         UNCHANGED <<view, complete, pending, synced, dirty, boot, buried, asking, sweep>>,
         pc' = pc \/ pc' = "take" \/ pc' = "leave" \/ pc' = "over"
  PROVE  Printing'
BY DEF Printing

LEMMA PrintingStep ==
  ASSUME Typed, Control, FollowNext
  PROVE  Printing'
<1> USE Commands DEF Control
<1>0. run \in [Command -> {"off", "sent", "served", "over"}] /\ menu' = menu
  BY RouterUnchanged DEF Typed, TypedWire
<1>1. ASSUME \/ \E i \in Id : Write(i) \/ Remove(i) \/ Slip(i)
             \/ ServeMember \/ ServeSweep \/ Stop \/ Abandon \/ Finish \/ Halting
      PROVE  Printing'
  BY <1>1, <1>0, PrintingSame DEF Write, Remove, Slip, ServeMember, ServeSweep, Stop, Abandon, Finish, Halting,
    Leave, taps, loop
<1>2. ASSUME NEW i \in Id, Announce(i)
      PROVE  Printing'
  BY <1>2, KindsPushed, PushedKinds DEF Printing, Announce, Typed, loop
<1>3. ASSUME NEW i \in Id, PrintRow(i)
      PROVE  Printing'
  BY <1>3, KindsPushed, PushedKinds DEF Printing, PrintRow, Typed, loop
<1>4. ASSUME ServePrint
      PROVE  Printing'
  BY <1>0, <1>4 DEF Printing, ServePrint, loop, taps
<1>5. ASSUME PrintDone
      PROVE  Printing'
  BY <1>0, <1>5, KindsPushed, PushedKinds DEF Printing, PrintDone, loop, Typed
<1>6. ASSUME MemberDone \/ SweepDone
      PROVE  Printing'
  BY <1>0, <1>6, KindsPushed, PushedKinds DEF Printing, MemberDone, SweepDone, loop, Typed
<1>7. ASSUME NEW c \in Command, CommandFails(c)
      PROVE  Printing'
  BY <1>0, <1>7 DEF Printing, CommandFails, loop, Running
<1>8. ASSUME NEW c \in Command, CommandEnds(c)
      PROVE  Printing'
  BY <1>0, <1>8, KindsPushed, PushedKinds DEF Printing, CommandEnds, loop, Running, Typed
<1>9. ASSUME TakeListen
      PROVE  Printing'
  <2>1. CASE ~complete
    BY <1>0, <1>9, <2>1, KindsTaken DEF Printing, TakeListen, Taking, Next_, Typed
  <2>2. CASE complete
    <3>1. pc' \in {"take", "post", "leave"} /\ (pc' = "post" => menu.query)
      BY <1>9, <2>2 DEF TakeListen, ApplyListen, Tell, Leave, Next_
    <3>2. boot = Zero => boot' = Zero
      BY <1>9, <2>2 DEF TakeListen, ApplyListen, Forget, Zero
    <3>3. /\ complete' = complete /\ pending' = pending /\ synced' = synced
          /\ asking' = asking /\ sweep' = sweep /\ run' = run
      BY <1>9, <2>2 DEF TakeListen
    <3> QED
      BY <1>0, <1>9, <2>2, <3>1, <3>2, <3>3, KindsTaken DEF Printing, TakeListen, Typed
  <2> QED
    BY <2>1, <2>2
<1>10. ASSUME TakeRow
       PROVE  Printing'
  BY <1>0, <1>10, KindsTaken DEF Printing, TakeRow, Taking, Next_, Typed
<1>11. ASSUME TakeDone
       PROVE  Printing'
  BY <1>0, <1>11, KindsTaken DEF Printing, TakeDone, Taking, Typed
<1>12. ASSUME TakeMember \/ TakeSweepStart \/ TakeSweep \/ TakeEnd
       PROVE  Printing'
  BY <1>0, <1>12, KindsTaken DEF Printing, Reading, Sweeping, TakeMember, TakeSweepStart, TakeSweep, TakeEnd, Taking,
    Typed, Next_, Leave, loop
<1>13. ASSUME ReplayStep
       PROVE  Printing'
  <2>1. pc' \in {"replay", "leave"}
    BY <1>13 DEF ReplayStep, ApplyListen, Tell, Leave
  <2> QED
    BY <1>0, <1>13, <2>1 DEF Printing, ReplayStep, Batch
<1>14. ASSUME ReplayEnd \/ BatchEnd
       PROVE  Printing'
  <2>1. CASE ReplayEnd
    BY <1>0, <2>1 DEF Printing, ReplayEnd, Batch, Next_
  <2>2. CASE BatchEnd
    BY <1>0, <2>2 DEF Printing, BatchEnd, Batch, Next_
  <2> QED
    BY <1>14, <2>1, <2>2
<1>15. ASSUME NEW i \in Id, MemberStep(i) \/ SweepStep(i)
       PROVE  Printing'
  <2>1. pc' \in {pc, "leave"}
    BY <1>15 DEF MemberStep, SweepStep, Batch, Tell, Leave
  <2>2. boot = Zero => boot' = Zero
    BY <1>15 DEF MemberStep, SweepStep, Zero
  <2>3. /\ UNCHANGED <<queue, run, pending, complete, synced, dirty, asking, sweep, buried>>
        /\ pc \in {"member", "sweep"}
    BY <1>15 DEF MemberStep, SweepStep, Batch
  <2>4. complete
    BY <2>3 DEF Printing
  <2> QED
    BY <1>0, <2>1, <2>2, <2>3, <2>4 DEF Printing
<1>16. ASSUME PostSync \/ PostNothing \/ \E batch \in SUBSET Id : PostMember(batch)
       PROVE  Printing'
  <2>1. CASE PostSync
    BY <1>0, <2>1 DEF Printing, PostSync, Posting
  <2>2. CASE PostNothing
    BY <1>0, <2>2 DEF Printing, PostNothing, Posting, Armed
  <2>3. ASSUME NEW batch \in SUBSET Id, PostMember(batch)
        PROVE  Printing'
    <3>1. complete
      BY <2>3 DEF PostMember, Printing, Ids, Zero
    <3> QED
      BY <1>0, <2>3, <3>1 DEF Printing, PostMember, Posting, Armed
  <2> QED
    BY <1>16, <2>1, <2>2, <2>3
<1>17. ASSUME PostSweep \/ SweepTimer
       PROVE  Printing'
  BY <1>0, <1>17, KindsPushed, PushedKinds DEF Printing, PostSweep, SweepTimer, Posting,
    StartSweep, Typed
<1> QED
  BY <1>1, <1>2, <1>3, <1>4, <1>5, <1>6, <1>7, <1>8, <1>9, <1>10, <1>11, <1>12, <1>13, <1>14,
    <1>15, <1>16, <1>17, StepNames

LEMMA ReadingStep ==
  ASSUME Typed, Control, FollowNext
  PROVE  Reading'
<1> USE Commands DEF Control
<1>0. run \in [Command -> {"off", "sent", "served", "over"}] /\ menu' = menu
  BY RouterUnchanged DEF Typed, TypedWire
<1>1. ASSUME \/ \E i \in Id : Write(i) \/ Remove(i) \/ Slip(i)
             \/ ServePrint \/ ServeSweep \/ Stop
       PROVE  Reading'
  BY <1>0, <1>1 DEF Reading, Under, Write, Remove, Slip, ServePrint, ServeSweep, Stop,
    taps, loop
<1>2. ASSUME \/ \E i \in Id : Announce(i) \/ PrintRow(i)
             \/ PrintDone \/ SweepDone
       PROVE  Reading'
  <2>1. ASSUME NEW i \in Id, Announce(i)
        PROVE  Reading'
    BY <1>0, <2>1, KindsPushed, PushedKinds DEF Reading, Under, Announce, loop, Typed
  <2>2. ASSUME NEW i \in Id, PrintRow(i)
        PROVE  Reading'
    BY <1>0, <2>2, KindsPushed, PushedKinds DEF Reading, Under, PrintRow, loop, Typed
  <2>3. CASE PrintDone
    BY <1>0, <2>3, KindsPushed, PushedKinds DEF Reading, Under, PrintDone, loop, Typed
  <2>4. CASE SweepDone
    BY <1>0, <2>4, KindsPushed, PushedKinds DEF Reading, Under, SweepDone, loop, Typed
  <2> QED
    BY <1>2, <2>1, <2>2, <2>3, <2>4
<1>3. ASSUME ServeMember
       PROVE  Reading'
  BY <1>0, <1>3 DEF Reading, Under, ServeMember, taps, loop
<1>4. ASSUME MemberDone
       PROVE  Reading'
  BY <1>0, <1>4, KindsPushed, PushedKinds DEF Reading, Under, MemberDone, loop, Typed
<1>5. ASSUME NEW c \in Command, CommandFails(c)
       PROVE  Reading'
  BY <1>0, <1>5 DEF Reading, Under, CommandFails, Running, loop
<1>6. ASSUME NEW c \in Command, CommandEnds(c)
       PROVE  Reading'
  BY <1>0, <1>6, KindsPushed, PushedKinds DEF Reading, Under, CommandEnds, Running, loop, Typed
<1>7. ASSUME TakeListen
       PROVE  Reading'
  <2>1. pc' # "member"
    BY <1>7 DEF TakeListen, ApplyListen, Tell, Leave, Next_
  <2>2. Ids(dirty') # {} => menu.query
    <3>1. dirty' = dirty \/ menu.query \/ dirty' = [dirty EXCEPT ![Head(queue).id] = 0]
      BY <1>7 DEF TakeListen, ApplyListen, Forget
    <3> QED
      BY <3>1 DEF Reading, Ids, Typed, TypedLoop
  <2> QED
    BY <1>0, <1>7, <2>1, <2>2, KindsTaken DEF Reading, Under, TakeListen, Taking, Typed, Ids
<1>8. ASSUME TakeRow \/ TakeDone \/ TakeSweepStart \/ TakeSweep \/ TakeEnd
       PROVE  Reading'
  BY <1>0, <1>8, KindsTaken DEF Reading, Under, TakeRow, TakeDone, TakeSweepStart, TakeSweep, TakeEnd, Taking,
    Typed, Next_, Leave, loop
<1>9. ASSUME TakeMember
       PROVE  Reading'
  BY <1>0, <1>9, KindsTaken DEF Reading, Under, TakeMember, Taking, Typed
<1>10. ASSUME ReplayStep
       PROVE  Reading'
  <2>1. pc' # "member"
    BY <1>10 DEF ReplayStep, ApplyListen, Tell, Leave
  <2>2. Ids(dirty') # {} => menu.query
    <3>1. dirty' = dirty \/ menu.query \/ dirty' = [dirty EXCEPT ![Head(left.replay).id] = 0]
      BY <1>10 DEF ReplayStep, ApplyListen, Forget
    <3> QED
      BY <3>1 DEF Reading, Ids, Typed, TypedLoop
  <2> QED
    BY <1>0, <1>10, <2>1, <2>2 DEF Reading, Under, ReplayStep, Batch, Ids
<1>11. ASSUME ReplayEnd \/ BatchEnd \/ Halting
       PROVE  Reading'
  <2>1. CASE ReplayEnd
    BY <1>0, <2>1 DEF Reading, Printing, Under, ReplayEnd, Batch, Next_
  <2>2. CASE BatchEnd
    BY <1>0, <2>2 DEF Reading, Under, BatchEnd, Batch, Next_
  <2>3. CASE Halting
    BY <1>0, <2>3 DEF Reading, Under, Halting, Leave, loop
  <2> QED
    BY <1>11, <2>1, <2>2, <2>3
<1>12. ASSUME NEW i \in Id, MemberStep(i)
       PROVE  Reading'
  <2>1. pc' \in {pc, "leave"} /\ left \in [ids : SUBSET Id, versions : [Id -> Nat], rows : [Id -> Version]]
    BY <1>12 DEF MemberStep, Batch, Tell, Leave, Typed, TypedBatch
  <2>2. left'.ids \subseteq left.ids /\ left'.versions = left.versions
    BY <1>12, <2>1 DEF MemberStep
  <2> QED
    BY <1>0, <1>12, <2>1, <2>2 DEF Reading, Under, MemberStep, Batch, Ids
<1>13. ASSUME NEW i \in Id, SweepStep(i)
       PROVE  Reading'
  <2>1. pc' \in {"sweep", "leave"}
    BY <1>13 DEF SweepStep, Batch, Tell, Leave
  <2> QED
    BY <1>0, <1>13, <2>1 DEF Reading, Under, SweepStep, Batch
<1>14. ASSUME PostSync \/ PostNothing
       PROVE  Reading'
  BY <1>0, <1>14 DEF Reading, Under, PostSync, PostNothing, Posting, Armed
<1>15. ASSUME NEW batch \in SUBSET Id, PostMember(batch)
       PROVE  Reading'
  <2>1. menu.query
    BY <1>15 DEF PostMember, Posting, Printing
  <2> QED
    BY <1>0, <1>15, <2>1 DEF Reading, Under, PostMember, Posting, Armed
<1>16. ASSUME PostSweep \/ SweepTimer
       PROVE  Reading'
  BY <1>0, <1>16, KindsPushed, PushedKinds DEF Reading, Under, PostSweep, SweepTimer, Posting,
    StartSweep, Typed
<1>17. ASSUME Finish \/ Abandon
       PROVE  Reading'
  BY <1>0, <1>17 DEF Reading, Under, Finish, Abandon, taps, loop
<1> QED
  BY <1>1, <1>2, <1>3, <1>4, <1>5, <1>6, <1>7, <1>8, <1>9, <1>10, <1>11, <1>12, <1>13, <1>14,
    <1>15, <1>16, <1>17, StepNames

LEMMA SweepingStep ==
  ASSUME Typed, Control, FollowNext
  PROVE  Sweeping'
<1> USE Commands DEF Control
<1>0. run \in [Command -> {"off", "sent", "served", "over"}] /\ menu' = menu
  BY RouterUnchanged DEF Typed, TypedWire
<1>1. ASSUME \/ \E i \in Id : Write(i) \/ Remove(i) \/ Slip(i)
             \/ ServePrint \/ ServeMember \/ ServeSweep \/ Stop
       PROVE  Sweeping'
  BY <1>0, <1>1 DEF Sweeping, Under, Write, Remove, Slip, ServePrint, ServeMember, ServeSweep, Stop,
    taps, loop
<1>2. ASSUME NEW i \in Id, Announce(i) \/ PrintRow(i)
      PROVE  Sweeping'
  <2>1. draining' => draining
    BY <1>2 DEF Announce, PrintRow, PushBounded, Halt
  <2>2. CASE Announce(i)
    BY <1>0, <2>1, <2>2, KindsPushed, PushedKinds DEF Sweeping, Under, Announce, loop, Typed
  <2>3. CASE PrintRow(i)
    BY <1>0, <2>1, <2>3, KindsPushed, PushedKinds DEF Sweeping, Under, PrintRow, loop, Typed
  <2> QED
    BY <1>2, <2>2, <2>3
<1>3. ASSUME PrintDone \/ MemberDone
       PROVE  Sweeping'
  BY <1>0, <1>3, KindsPushed, PushedKinds DEF Sweeping, Under, PrintDone, MemberDone,
    loop, Typed
<1>4. ASSUME SweepDone
       PROVE  Sweeping'
  <2>1. PICK e \in Event : e.is = "sweep" /\ Push(e)
    BY <1>4, PushedKinds
  <2>2. /\ \A w : /\ Has(queue, w) => Has(queue', w)
                  /\ Has(queue', w) => Has(queue, w) \/ w = "sweep"
                  /\ Once(queue, w) /\ ~(Has(queue, w) /\ w = "sweep") => Once(queue', w)
        /\ NeverAfter(queue, "start", "sweep") => NeverAfter(queue', "start", "sweep")
        /\ ~draining => queue' = queue
    BY <2>1, KindsPushed DEF Typed, Push
  <2>3. /\ run["sweep"] = "served" /\ run' = [run EXCEPT !["sweep"] = "over"]
        /\ UNCHANGED <<pc, loop, draining, aborted>>
    BY <1>4 DEF SweepDone
  <2>4. draining => touching \/ Has(queue, "start")
    BY <2>3 DEF Sweeping, Under
  <2> QED
    BY <1>0, <2>2, <2>3, <2>4 DEF Sweeping, Under, loop
<1>5. ASSUME NEW c \in Command, CommandFails(c)
       PROVE  Sweeping'
  BY <1>0, <1>5 DEF Sweeping, Under, CommandFails, Running, loop, Halt
<1>6. ASSUME NEW c \in Command, CommandEnds(c)
       PROVE  Sweeping'
  BY <1>0, <1>6, KindsPushed, PushedKinds DEF Sweeping, Under, CommandEnds, Running, loop, Typed
<1>7. ASSUME TakeListen
       PROVE  Sweeping'
  <2>1. pc' # "sweep" /\ (draining' => draining)
    BY <1>7 DEF TakeListen, ApplyListen, Tell, Leave, Next_, Halt
  <2> QED
    BY <1>0, <1>7, <2>1, KindsTaken DEF Sweeping, Under, TakeListen, Taking, Typed
<1>8. ASSUME TakeRow \/ TakeDone \/ TakeMember \/ TakeEnd
       PROVE  Sweeping'
  BY <1>0, <1>8, KindsTaken DEF Sweeping, Under, TakeRow, TakeDone, TakeMember, TakeEnd, Taking,
    Typed, Next_, Leave, loop, Halt
<1>9. ASSUME TakeSweepStart
       PROVE  Sweeping'
  BY <1>0, <1>9, KindsTaken DEF Sweeping, Under, TakeSweepStart, Taking, Typed, Next_
<1>10. ASSUME TakeSweep
       PROVE  Sweeping'
  BY <1>0, <1>10, KindsTaken DEF Sweeping, Under, TakeSweep, Taking, Typed
<1>11. ASSUME ReplayStep
       PROVE  Sweeping'
  <2>1. pc' # "sweep" /\ (draining' => draining)
    BY <1>11 DEF ReplayStep, ApplyListen, Tell, Leave, Halt
  <2> QED
    BY <1>0, <1>11, <2>1 DEF Sweeping, Under, ReplayStep, Batch
<1>12. ASSUME ReplayEnd \/ BatchEnd \/ Halting
       PROVE  Sweeping'
  <2>1. CASE ReplayEnd
    BY <1>0, <2>1 DEF Sweeping, Printing, Under, ReplayEnd, Batch, Next_
  <2>2. CASE BatchEnd
    BY <1>0, <2>2 DEF Sweeping, Under, BatchEnd, Batch, Next_
  <2>3. CASE Halting
    BY <1>0, <2>3 DEF Sweeping, Under, Halting, Leave, Halt, loop
  <2> QED
    BY <1>12, <2>1, <2>2, <2>3
<1>13. ASSUME NEW i \in Id, MemberStep(i) \/ SweepStep(i)
       PROVE  Sweeping'
  <2>1. pc' \in {pc, "leave"} /\ (draining' => draining)
    BY <1>13 DEF MemberStep, SweepStep, Batch, Tell, Leave, Halt
  <2>2. CASE MemberStep(i)
    BY <1>0, <2>1, <2>2 DEF Sweeping, Under, MemberStep, Batch
  <2>3. CASE SweepStep(i)
    BY <1>0, <2>1, <2>3 DEF Sweeping, Under, SweepStep, Batch
  <2> QED
    BY <1>13, <2>2, <2>3
<1>14. ASSUME PostSync \/ PostNothing \/ \E batch \in SUBSET Id : PostMember(batch)
       PROVE  Sweeping'
  <2>1. CASE PostSync
    BY <1>0, <2>1 DEF Sweeping, Printing, Under, PostSync, Posting
  <2>2. CASE PostNothing
    BY <1>0, <2>2 DEF Sweeping, Under, PostNothing, Posting, Armed
  <2>3. ASSUME NEW batch \in SUBSET Id, PostMember(batch)
        PROVE  Sweeping'
    BY <1>0, <2>3 DEF Sweeping, Under, PostMember, Posting, Armed
  <2> QED
    BY <1>14, <2>1, <2>2, <2>3
<1>15. ASSUME PostSweep \/ SweepTimer
       PROVE  Sweeping'
  BY <1>0, <1>15, KindsPushed, PushedKinds DEF Sweeping, Under, PostSweep, SweepTimer, Posting,
    StartSweep, Typed, Telling
<1>16. ASSUME Finish \/ Abandon
       PROVE  Sweeping'
  BY <1>0, <1>16 DEF Sweeping, Under, Finish, Abandon, taps, loop
<1> QED
  BY <1>1, <1>2, <1>3, <1>4, <1>5, <1>6, <1>7, <1>8, <1>9, <1>10, <1>11, <1>12, <1>13, <1>14,
    <1>15, <1>16, StepNames

(* A frame that is told either ends the loop or leaves everything running.  *)
LEMMA Told ==
  ASSUME Typed, Telling, pc \notin {"leave", "over"}, NEW framed, NEW then, Tell(framed, then)
  PROVE  /\ \/ pc' = "leave" /\ draining' = FALSE /\ aborted' = TRUE
            \/ pc' = then /\ draining' = draining /\ aborted' = aborted
               /\ (changes' < menu.count \/ menu.count = 0)
         /\ changes' <= menu.count
<1>1. menu.count \in Nat /\ changes \in Nat
  BY FollowConstants DEF Typed, TypedRouter, TypedLoop
<1>2. \/ pc' = "leave" /\ draining' = FALSE /\ aborted' = TRUE
      \/ pc' = then /\ draining' = draining /\ aborted' = aborted
         /\ (changes' < menu.count \/ menu.count = 0)
  <2>1. CASE framed /\ synced /\ menu.count > 0 /\ changes + 1 >= menu.count
    BY <2>1 DEF Tell, Leave, Halt
  <2>2. CASE framed /\ synced /\ menu.count > 0 /\ ~(changes + 1 >= menu.count)
    BY <1>1, <2>2 DEF Tell
  <2>3. CASE ~(framed /\ synced /\ menu.count > 0)
    <3>1. changes' = changes /\ pc' = then /\ draining' = draining /\ aborted' = aborted
      BY <2>3 DEF Tell
    <3> QED
      BY <3>1 DEF Telling
  <2> QED
    BY <2>1, <2>2, <2>3
<1>3. changes' <= menu.count
  <2>1. CASE framed /\ synced /\ menu.count > 0
    BY <1>1, <2>1 DEF Tell, Telling
  <2>2. CASE ~(framed /\ synced /\ menu.count > 0)
    BY <2>2 DEF Tell, Telling
  <2> QED
    BY <2>1, <2>2
<1> QED
  BY <1>2, <1>3

LEMMA TellingStep ==
  ASSUME Typed, Telling, FollowNext
  PROVE  Telling'
<1>0. menu' = menu /\ outcome = "none"
  BY RouterUnchanged, StepNames
<1>1. ASSUME UNCHANGED <<draining, aborted, stopReq, fatal, outcome, erred, changes>>,
             pc' = pc \/ (pc \notin {"leave", "over"} /\ pc' \notin {"leave", "over"})
      PROVE  Telling'
  BY <1>0, <1>1 DEF Telling, Halted
<1>2. ASSUME \E i \in Id : Write(i) \/ Remove(i) \/ Slip(i)
      PROVE  Telling'
  BY <1>1, <1>2 DEF Write, Remove, Slip, taps, loop
<1>3. ASSUME NEW i \in Id, Announce(i) \/ PrintRow(i)
      PROVE  Telling'
  <2>1. /\ UNCHANGED <<stopReq, outcome, erred, changes, pc>>
        /\ \/ UNCHANGED <<draining, aborted, fatal>>
           \/ fatal' = TRUE /\ aborted' = TRUE
    BY <1>3 DEF Announce, PrintRow, PushBounded, Halt, loop
  <2> QED
    BY <1>0, <2>1 DEF Telling, Halted
<1>4. ASSUME ServePrint \/ ServeMember \/ ServeSweep \/ PrintDone \/ MemberDone \/ SweepDone
             \/ SweepTimer
      PROVE  Telling'
  <2>1. UNCHANGED <<draining, aborted, stopReq, fatal, outcome, erred, changes, pc>>
    BY <1>4 DEF ServePrint, ServeMember, ServeSweep, PrintDone, MemberDone, SweepDone,
      SweepTimer, taps, loop
  <2> QED
    BY <1>1, <2>1
<1>5. ASSUME NEW c \in Command, CommandFails(c) \/ CommandEnds(c)
      PROVE  Telling'
  <2>1. /\ UNCHANGED <<stopReq, outcome, changes, pc>>
        /\ \/ UNCHANGED <<draining, aborted, fatal, erred>>
           \/ fatal' = TRUE /\ aborted' = TRUE
    BY <1>5 DEF CommandFails, CommandEnds, Halt, loop
  <2> QED
    BY <1>0, <2>1 DEF Telling, Halted
<1>6. ASSUME Stop \/ Abandon
      PROVE  Telling'
  <2>1. /\ UNCHANGED <<fatal, erred, changes>> /\ aborted' = TRUE /\ outcome' # "ok"
        /\ pc' = pc \/ pc' = "over"
    BY <1>0, <1>6 DEF Stop, Abandon, loop
  <2> QED
    BY <1>0, <2>1 DEF Telling
<1>7. ASSUME Halting \/ TakeEnd
      PROVE  Telling'
  <2>1. /\ UNCHANGED <<fatal, erred, changes, outcome>> /\ aborted' = TRUE /\ pc' = "leave"
    BY <1>7 DEF Halting, TakeEnd, Taking, Leave, Halt, loop
  <2> QED
    BY <1>0, <2>1 DEF Telling
<1>8. ASSUME Finish
      PROVE  Telling'
  <2>1. /\ UNCHANGED <<fatal, erred, changes, aborted>> /\ pc = "leave" /\ pc' = "over"
        /\ outcome' = IF fatal THEN "failed" ELSE "ok"
    BY <1>8 DEF Finish, taps, loop
  <2> QED
    BY <1>0, <2>1 DEF Telling
<1>9. ASSUME UNCHANGED <<stopReq, fatal, outcome, erred>>,
             pc \notin {"leave", "over"},
             NEW framed, NEW then, then \notin {"leave", "over"}, Tell(framed, then)
      PROVE  Telling'
  <2>1. /\ \/ pc' = "leave" /\ draining' = FALSE /\ aborted' = TRUE
           \/ pc' = then /\ draining' = draining /\ aborted' = aborted
              /\ (changes' < menu.count \/ menu.count = 0)
        /\ changes' <= menu.count
    BY <1>9, Told
  <2> QED
    BY <1>0, <1>9, <2>1 DEF Telling, Halted
<1>10. ASSUME TakeListen
       PROVE  Telling'
  <2>1. CASE ~complete
    BY <1>1, <1>10, <2>1 DEF TakeListen, Taking, Next_
  <2>2. CASE complete
    BY <1>9, <1>10, <2>2 DEF TakeListen, Taking, Next_, ApplyListen
  <2> QED
    BY <2>1, <2>2
<1>11. ASSUME ReplayStep
       PROVE  Telling'
  BY <1>9, <1>11 DEF ReplayStep, Batch, ApplyListen
<1>12. ASSUME NEW i \in Id, MemberStep(i)
       PROVE  Telling'
  <2>1. CASE latest[i] # left.versions[i]
    BY <1>1, <1>12, <2>1 DEF MemberStep, Batch
  <2>2. CASE latest[i] = left.versions[i]
    BY <1>9, <1>12, <2>2 DEF MemberStep, Batch
  <2> QED
    BY <2>1, <2>2
<1>13. ASSUME NEW i \in Id, SweepStep(i)
       PROVE  Telling'
  <2>1. CASE menu.query /\ latest[i] # 0
    BY <1>1, <1>13, <2>1 DEF SweepStep, Batch
  <2>2. CASE ~(menu.query /\ latest[i] # 0)
    BY <1>9, <1>13, <2>2 DEF SweepStep, Batch
  <2> QED
    BY <2>1, <2>2
<1>14. ASSUME TakeRow \/ TakeDone \/ TakeMember \/ TakeSweepStart \/ TakeSweep
       PROVE  Telling'
  BY <1>1, <1>14 DEF TakeRow, TakeDone, TakeMember, TakeSweepStart, TakeSweep, Taking, Next_
<1>15. ASSUME ReplayEnd \/ BatchEnd
       PROVE  Telling'
  BY <1>1, <1>15 DEF ReplayEnd, BatchEnd, Batch, Next_
<1>16. ASSUME \/ PostSync \/ PostSweep \/ PostNothing
              \/ \E batch \in SUBSET Id : PostMember(batch)
       PROVE  Telling'
  BY <1>1, <1>16 DEF PostSync, PostSweep, PostNothing, PostMember, Posting
<1> QED
  BY <1>2, <1>3, <1>4, <1>5, <1>6, <1>7, <1>8, <1>10, <1>11, <1>12, <1>13, <1>14, <1>15, <1>16,
    StepNames

LEMMA ControlStep ==
  ASSUME Typed, Control, [FollowNext]_followVars
  PROVE  Control'
<1>1. CASE FollowNext
  BY <1>1, PrintingStep, ReadingStep, SweepingStep, TellingStep DEF Control
<1>2. CASE UNCHANGED followVars
  BY <1>2 DEF Control, Printing, Reading, Sweeping, Telling, Under, Halted, followVars, router,
    taps, loop
<1> QED
  BY <1>1, <1>2

LEMMA ControlStarts == FollowInit => Control
<1> SUFFICES ASSUME FollowInit
    PROVE  Control
  OBVIOUS
<1>1. \A w : ~Has(queue, w) /\ Once(queue, w) /\ \A of : NeverAfter(queue, w, of)
  BY DEF FollowInit, Has, Once, NeverAfter
<1>2. menu.count \in Nat
  BY FollowConstants DEF FollowInit
<1>3. Printing
  BY <1>1 DEF FollowInit, Printing, Command
<1>4. Reading
  BY <1>1 DEF FollowInit, Reading, Under, Ids, Zero, Command
<1>5. Sweeping
  BY <1>1 DEF FollowInit, Sweeping, Under, Command
<1>6. Telling
  BY <1>2 DEF FollowInit, Telling, Halted
<1> QED
  BY <1>3, <1>4, <1>5, <1>6 DEF Control

(* A successful summary hides no failure of a command (SummaryTruth).       *)
THEOREM FollowTellsTruth == FollowSpec => []SummaryTruth
<1>1. Telling => SummaryTruth
  BY DEF Telling, SummaryTruth
<1>2. FollowSpec => [](Typed /\ Control)
  BY TypedStarts, TypedStep, ControlStarts, ControlStep, PTL DEF FollowSpec
<1> QED
  BY <1>1, <1>2, PTL DEF Control

-----------------------------------------------------------------------------
(* What a tap adds is at the queue's end.                                  *)
LEMMA Joined ==
  ASSUME TypedTaps, NEW e \in Event, Push(e) \/ PushBounded(e)
  PROVE  /\ Len(queue) \in Nat /\ Len(queue') \in {Len(queue), Len(queue) + 1}
         /\ \A p \in 1..Len(queue) : p \in 1..Len(queue') /\ queue'[p] = queue[p]
         /\ \A p \in 1..Len(queue') :
              \/ p \in 1..Len(queue) /\ queue'[p] = queue[p]
              \/ p = Len(queue) + 1 /\ queue'[p] = e
         /\ Len(queue') = Len(queue) + 1 => queue'[Len(queue) + 1] = e
<1>1. queue \in Seq(Event) /\ (queue' = queue \/ queue' = Append(queue, e))
  BY DEF TypedTaps, Push, PushBounded
<1> QED
  BY <1>1

(* An event is either new, with the step that made it, or was there.       *)
LEMMA EventsKept ==
  ASSUME Typed, FollowNext, NEW p \in 1..Len(queue')
  PROVE  \/ \E r \in 1..Len(queue) : queue'[p] = queue[r]
         \/ queue'[p].is = "listen" /\ \E i \in Id : Announce(i)
         \/ queue'[p].is = "row" /\ \E i \in Id : PrintRow(i)
         \/ queue'[p].is = "done" /\ PrintDone
         \/ queue'[p].is = "member" /\ MemberDone
         \/ queue'[p].is = "sweep" /\ SweepDone
         \/ queue'[p].is = "start" /\ StartSweep
         \/ queue'[p].is = "end" /\ \E c \in Command : CommandEnds(c)
<1>1. TypedTaps
  BY DEF Typed
<1>2. ASSUME NEW e \in Event, Push(e) \/ PushBounded(e)
      PROVE  (\E r \in 1..Len(queue) : queue'[p] = queue[r]) \/ queue'[p].is = e.is
  BY <1>1, <1>2, Joined
<1>3. ASSUME queue # <<>>, queue' = Tail(queue)
      PROVE  \E r \in 1..Len(queue) : queue'[p] = queue[r]
  <2>1. Len(queue) \in Nat \ {0} /\ Len(queue') = Len(queue) - 1 /\ queue'[p] = queue[p + 1]
    BY <1>1, <1>3, Dequeued DEF TypedTaps
  <2> QED
    BY <2>1
<1>4. ASSUME UNCHANGED queue
      PROVE  \E r \in 1..Len(queue) : queue'[p] = queue[r]
  BY <1>4
<1>5. \/ \E i \in Id : Announce(i) \/ PrintRow(i)
      \/ PrintDone \/ MemberDone \/ SweepDone \/ StartSweep
      \/ \E c \in Command : CommandEnds(c)
      \/ UNCHANGED queue
      \/ queue # <<>> /\ queue' = Tail(queue)
  BY StepNames DEF Write, Remove, Slip, SweepTimer, PostSweep,
    MemberStep, SweepStep, ServePrint, ServeMember,
    ServeSweep, Stop, Abandon, CommandFails, taps,
    TakeListen, TakeRow, TakeDone, TakeMember, TakeSweepStart, TakeSweep, TakeEnd, Taking, Batch,
    Posting, Halting, ReplayStep, ReplayEnd, BatchEnd, Finish, PostSync,
    PostNothing, PostMember
<1>6. ASSUME NEW i \in Id, Announce(i)
      PROVE  (\E r \in 1..Len(queue) : queue'[p] = queue[r]) \/ queue'[p].is = "listen"
  BY <1>2, <1>6, PushedKinds
<1>7. ASSUME NEW i \in Id, PrintRow(i)
      PROVE  (\E r \in 1..Len(queue) : queue'[p] = queue[r]) \/ queue'[p].is = "row"
  BY <1>2, <1>7, PushedKinds
<1>8. ASSUME PrintDone
      PROVE  (\E r \in 1..Len(queue) : queue'[p] = queue[r]) \/ queue'[p].is = "done"
  BY <1>2, <1>8, PushedKinds
<1>9. ASSUME MemberDone
      PROVE  (\E r \in 1..Len(queue) : queue'[p] = queue[r]) \/ queue'[p].is = "member"
  BY <1>2, <1>9, PushedKinds
<1>10. ASSUME SweepDone
      PROVE  (\E r \in 1..Len(queue) : queue'[p] = queue[r]) \/ queue'[p].is = "sweep"
  BY <1>2, <1>10, PushedKinds
<1>11. ASSUME StartSweep
      PROVE  (\E r \in 1..Len(queue) : queue'[p] = queue[r]) \/ queue'[p].is = "start"
  BY <1>2, <1>11, PushedKinds
<1>12. ASSUME NEW c \in Command, CommandEnds(c)
      PROVE  (\E r \in 1..Len(queue) : queue'[p] = queue[r]) \/ queue'[p].is = "end"
  BY <1>2, <1>4, <1>12, PushedKinds
<1> QED
  BY <1>3, <1>4, <1>5, <1>6, <1>7, <1>8, <1>9, <1>10, <1>11, <1>12

LEMMA SizedStep ==
  ASSUME Typed, Control, Sized, FollowNext
  PROVE  Sized'
<1> USE Commands DEF Control
<1>0. /\ run \in [Command -> {"off", "sent", "served", "over"}]
      /\ reply \in [versions : [Id -> Nat], rows : [Id -> Version], ids : SUBSET Id]
  BY DEF Typed, TypedWire
<1>1. ASSUME UNCHANGED asked, ~MemberDone,
             run'["member"] \in {"sent", "served"} => Under("member") /\ reply'.versions = reply.versions,
             pc' = "member" => pc = "member" /\ left' = left
      PROVE  Sized'
  <2>1. \A p \in 1..Len(queue') : queue'[p].is = "member" =>
          \E r \in 1..Len(queue) : queue'[p] = queue[r]
    BY <1>1, EventsKept
  <2>2. \A p \in 1..Len(queue') :
          queue'[p].is = "member" => asked' = Cardinality(Ids(queue'[p].versions))
    BY <1>1, <2>1 DEF Sized
  <2>3. asked' <= BatchLimit
    BY <1>1 DEF Sized
  <2>4. run'["member"] \in {"sent", "served"} => asked' = Cardinality(Ids(reply'.versions))
    BY <1>1 DEF Sized
  <2>5. pc' = "member" => asked' = Cardinality(left'.ids)
    BY <1>1 DEF Sized
  <2> QED
    BY <2>2, <2>3, <2>4, <2>5 DEF Sized, Under
<1>2. ASSUME \/ \E i \in Id : Write(i) \/ Remove(i) \/ Slip(i) \/ Announce(i) \/ PrintRow(i)
             \/ ServePrint \/ PrintDone \/ Stop \/ Abandon \/ Finish \/ Halting
             \/ SweepTimer
      PROVE  Sized'
  <2>1. /\ UNCHANGED <<asked, reply, left>> /\ run'["member"] = run["member"]
        /\ pc' = pc \/ pc' = "over" \/ pc' = "leave"
    BY <1>0, <1>2 DEF Write, Remove, Slip, Announce, PrintRow, ServePrint, PrintDone, Stop, Abandon,
      Finish, Halting, Leave, SweepTimer, StartSweep, loop
  <2>2. ~MemberDone
    BY <1>0, <1>2, <2>1 DEF MemberDone, Write, Remove, Slip, Announce, PrintRow, ServePrint, PrintDone,
      Stop, Abandon, Finish, Halting
  <2> QED
    BY <1>1, <2>1, <2>2 DEF Under
<1>3. ASSUME ServeMember \/ ServeSweep
      PROVE  Sized'
  <2>1. /\ UNCHANGED <<asked, left, pc>> /\ reply'.versions = reply.versions
        /\ run'["member"] \in {"sent", "served"} => Under("member")
        /\ ~MemberDone
    BY <1>0, <1>3 DEF ServeMember, ServeSweep, loop, Under, MemberDone
  <2> QED
    BY <1>1, <2>1
<1>4. ASSUME MemberDone
      PROVE  Sized'
  <2>1. /\ UNCHANGED <<asked, left, pc>> /\ run'["member"] = "over" /\ Under("member")
    BY <1>0, <1>4 DEF MemberDone, loop, Under
  <2>2. asked = Cardinality(Ids(reply.versions))
    BY <2>1 DEF Sized
  <2>3. /\ Push([is |-> "member", versions |-> reply.versions, rows |-> reply.rows])
        /\ [is |-> "member", versions |-> reply.versions, rows |-> reply.rows] \in Event
    BY <1>0, <1>4, EventIn DEF MemberDone, Answer
  <2>4. \A p \in 1..Len(queue') :
          \/ p \in 1..Len(queue) /\ queue'[p] = queue[p]
          \/ queue'[p] = [is |-> "member", versions |-> reply.versions, rows |-> reply.rows]
    BY <2>3, Joined DEF Typed
  <2>5. \A p \in 1..Len(queue') :
          queue'[p].is = "member" => asked' = Cardinality(Ids(queue'[p].versions))
    BY <2>1, <2>2, <2>4 DEF Sized
  <2> QED
    BY <2>1, <2>5 DEF Sized, Under
<1>5. ASSUME SweepDone
      PROVE  Sized'
  <2>1. /\ UNCHANGED <<asked, left, pc>> /\ run'["member"] = run["member"] /\ Under("sweep")
        /\ ~MemberDone
    BY <1>0, <1>5 DEF SweepDone, MemberDone, loop, Under
  <2>2. ~Under("member")
    BY <2>1 DEF Reading, Sweeping
  <2> QED
    BY <1>1, <2>1, <2>2 DEF Under
<1>6. ASSUME NEW c \in Command, CommandFails(c) \/ CommandEnds(c)
      PROVE  Sized'
  <2>1. /\ UNCHANGED <<asked, left, pc, reply>>
        /\ run'["member"] \in {"sent", "served"} => Under("member")
    BY <1>0, <1>6 DEF CommandFails, CommandEnds, loop, Under, Running
  <2>2. ~MemberDone \/ reply.versions = Zero
    BY <1>6 DEF CommandFails, CommandEnds, MemberDone, NoReply
  <2>3. \A p \in 1..Len(queue') : queue'[p].is = "member" =>
          \E r \in 1..Len(queue) : queue'[p] = queue[r]
    <3>1. CASE UNCHANGED queue
      BY <3>1
    <3>2. CASE Push([is |-> "end"])
      BY <3>2, Joined, EventIn DEF Typed
    <3> QED
      BY <1>6, <3>1, <3>2 DEF CommandFails, CommandEnds
  <2> QED
    BY <2>1, <2>3 DEF Sized, Under
<1>7. ASSUME TakeListen \/ TakeRow \/ TakeDone \/ TakeSweepStart \/ TakeSweep \/ TakeEnd
      PROVE  Sized'
  <2>1. UNCHANGED <<asked, reply>> /\ run'["member"] = run["member"] /\ pc' # "member"
    BY <1>0, <1>7 DEF TakeListen, TakeRow, TakeDone, TakeSweepStart, TakeSweep, TakeEnd, Taking,
      ApplyListen, Tell, Leave, Next_, loop
  <2>2. ~MemberDone
    BY <1>0, <1>7, <2>1 DEF MemberDone
  <2> QED
    BY <1>1, <2>1, <2>2 DEF Under
<1>8. ASSUME TakeMember
      PROVE  Sized'
  <2>1. /\ UNCHANGED <<asked, reply>> /\ run'["member"] = "off"
        /\ left'.ids = Ids(Head(queue).versions)
    BY <1>0, <1>8 DEF TakeMember, Taking
  <2>2. asked = Cardinality(Ids(Head(queue).versions))
    BY <1>8, Taken DEF Sized, Typed, TakeMember
  <2>3. ~MemberDone
    BY <1>0, <2>1 DEF MemberDone
  <2>4. \A p \in 1..Len(queue') : queue'[p].is = "member" =>
          \E r \in 1..Len(queue) : queue'[p] = queue[r]
    BY <1>8, <2>3, EventsKept
  <2> QED
    BY <2>1, <2>2, <2>4 DEF Sized, Under
<1>9. ASSUME ReplayStep \/ ReplayEnd \/ BatchEnd \/ PostSync \/ PostSweep \/ PostNothing
             \/ \E i \in Id : SweepStep(i)
      PROVE  Sized'
  <2>1. UNCHANGED <<asked, reply>> /\ run'["member"] = run["member"] /\ pc' # "member"
    BY <1>0, <1>9 DEF ReplayStep, ReplayEnd, BatchEnd, PostSync, PostSweep, PostNothing, SweepStep,
      Batch, Posting, ApplyListen, Tell, Leave, Next_, StartSweep
  <2>2. ~MemberDone
    BY <1>0, <1>9, <2>1 DEF MemberDone
  <2> QED
    BY <1>1, <2>1, <2>2 DEF Under
<1>10. ASSUME NEW i \in Id, MemberStep(i)
       PROVE  Sized'
  <2>1. /\ left \in [ids : SUBSET Id, versions : [Id -> Nat], rows : [Id -> Version]]
        /\ i \in left.ids /\ pc = "member" /\ asked' = asked - 1
        /\ left'.ids = left.ids \ {i} /\ UNCHANGED <<queue, run, reply>>
    BY <1>10 DEF MemberStep, Batch, Typed, TypedBatch
  <2>2. IsFiniteSet(left.ids)
    BY <2>1, FollowConstants, FS_Subset
  <2>3. Cardinality(left.ids) \in Nat /\ Cardinality(left.ids \ {i}) = Cardinality(left.ids) - 1
    BY <2>1, <2>2, FS_CardinalityType, FS_RemoveElement
  <2>4. asked = Cardinality(left.ids)
    BY <2>1 DEF Sized
  <2>5. ~Under("member") /\ ~Has(queue, "member")
    BY <2>1 DEF Reading
  <2>6. asked' <= BatchLimit
    BY <2>1, <2>3, <2>4, FollowConstants DEF Sized
  <2> QED
    BY <2>1, <2>3, <2>4, <2>5, <2>6 DEF Sized, Under, Has
<1>11. ASSUME NEW batch \in SUBSET Id, PostMember(batch)
       PROVE  Sized'
  <2>1. /\ ~asking /\ batch \subseteq Ids(dirty) /\ asked' = Cardinality(batch)
        /\ pc' = "take" /\ UNCHANGED queue
        /\ reply'.versions = [i \in Id |-> IF i \in batch THEN dirty[i] ELSE 0]
    BY <1>0, <1>11 DEF PostMember, Posting
  <2>2. Ids(reply'.versions) = batch
    BY <2>1 DEF Ids
  <2>3. asked' <= BatchLimit
    <3>1. Cardinality(batch) \in Nat /\ BatchLimit \in Nat
      BY FollowConstants, FS_Subset, FS_CardinalityType
    <3> QED
      BY <1>11, <3>1 DEF PostMember
  <2>4. ~Has(queue, "member")
    BY <2>1 DEF Reading
  <2> QED
    BY <2>1, <2>2, <2>3, <2>4 DEF Sized, Under, Has
<1> QED
  BY <1>2, <1>3, <1>4, <1>5, <1>6, <1>7, <1>8, <1>9, <1>10, <1>11, StepNames

-----------------------------------------------------------------------------
(* The events of kind w are those they were, m places further to the front. *)
Moved(q, r, w, m) ==
  /\ \A p \in 1..Len(r) : r[p].is = w => p + m \in 1..Len(q) /\ r[p] = q[p + m]
  /\ \A p \in 1..Len(q) : q[p].is = w => p - m \in 1..Len(r) /\ r[p - m] = q[p]

LEMMA MovedByNone ==
  ASSUME TypedTaps, UNCHANGED queue, NEW w
  PROVE  Moved(queue, queue', w, 0)
<1>1. Len(queue) \in Nat
  BY DEF TypedTaps
<1> QED
  BY <1>1 DEF Moved

LEMMA MovedByPush ==
  ASSUME TypedTaps, NEW e \in Event, Push(e) \/ PushBounded(e), NEW w, w # e.is
  PROVE  Moved(queue, queue', w, 0)
<1>1. /\ Len(queue) \in Nat /\ Len(queue') \in {Len(queue), Len(queue) + 1}
      /\ \A p \in 1..Len(queue) : p \in 1..Len(queue') /\ queue'[p] = queue[p]
      /\ \A p \in 1..Len(queue') :
           \/ p \in 1..Len(queue) /\ queue'[p] = queue[p]
           \/ p = Len(queue) + 1 /\ queue'[p] = e
  BY Joined
<1> QED
  BY <1>1 DEF Moved

LEMMA MovedByTake ==
  ASSUME TypedTaps, NEW what, Taking(what), NEW w, w # what
  PROVE  Moved(queue, queue', w, 1)
<1>1. /\ Len(queue) \in Nat \ {0} /\ Len(queue') = Len(queue) - 1 /\ queue[1].is = what
      /\ \A p \in 1..Len(queue') : queue'[p] = queue[p + 1]
  BY Taken
<1>2. \A p \in 1..Len(queue) : p # 1 => p - 1 \in 1..Len(queue') /\ queue'[p - 1] = queue[p]
  BY <1>1
<1> QED
  BY <1>1, <1>2 DEF Moved

(* Only the step that makes or takes an event of a kind does more than that. *)
LEMMA EventsMoved ==
  ASSUME Typed, FollowNext, NEW w,
         w = "listen" => ~TakeListen /\ \A i \in Id : ~Announce(i),
         w = "row" => ~TakeRow /\ \A i \in Id : ~PrintRow(i),
         w = "member" => ~TakeMember /\ ~MemberDone,
         w = "sweep" => ~TakeSweep /\ ~SweepDone,
         w = "start" => ~TakeSweepStart /\ ~StartSweep,
         w = "done" => ~TakeDone /\ ~PrintDone,
         w # "end"
  PROVE  \E m \in Nat : Moved(queue, queue', w, m)
<1> USE DEF Typed
<1>1. ASSUME NEW e \in Event, e.is # w, Push(e) \/ PushBounded(e)
      PROVE  \E m \in Nat : Moved(queue, queue', w, m)
  BY <1>1, MovedByPush
<1>2. ASSUME NEW what, what # w, Taking(what)
      PROVE  \E m \in Nat : Moved(queue, queue', w, m)
  BY <1>2, MovedByTake
<1>3. ASSUME UNCHANGED queue
      PROVE  \E m \in Nat : Moved(queue, queue', w, m)
  BY <1>3, MovedByNone
<1>4. ASSUME \E i \in Id : Announce(i)
      PROVE  \E m \in Nat : Moved(queue, queue', w, m)
  BY <1>1, <1>4, PushedKinds
<1>5. ASSUME \E i \in Id : PrintRow(i)
      PROVE  \E m \in Nat : Moved(queue, queue', w, m)
  BY <1>1, <1>5, PushedKinds
<1>6. ASSUME PrintDone
      PROVE  \E m \in Nat : Moved(queue, queue', w, m)
  BY <1>1, <1>6, PushedKinds
<1>7. ASSUME MemberDone
      PROVE  \E m \in Nat : Moved(queue, queue', w, m)
  BY <1>1, <1>7, PushedKinds
<1>8. ASSUME SweepDone
      PROVE  \E m \in Nat : Moved(queue, queue', w, m)
  BY <1>1, <1>8, PushedKinds
<1>9. ASSUME StartSweep
      PROVE  \E m \in Nat : Moved(queue, queue', w, m)
  BY <1>1, <1>9, PushedKinds
<1>10. ASSUME NEW c \in Command, CommandEnds(c)
       PROVE  \E m \in Nat : Moved(queue, queue', w, m)
  BY <1>1, <1>3, <1>10, PushedKinds
<1>11. ASSUME TakeListen \/ TakeRow \/ TakeDone \/ TakeMember \/ TakeSweepStart
              \/ TakeSweep \/ TakeEnd
       PROVE  \E m \in Nat : Moved(queue, queue', w, m)
  BY <1>2, <1>11 DEF TakeListen, TakeRow, TakeDone, TakeMember, TakeSweepStart, TakeSweep, TakeEnd
<1>12. \/ \E i \in Id : Announce(i) \/ PrintRow(i)
       \/ PrintDone \/ MemberDone \/ SweepDone \/ StartSweep
       \/ \E c \in Command : CommandEnds(c)
       \/ UNCHANGED queue
       \/ TakeListen \/ TakeRow \/ TakeDone \/ TakeMember \/ TakeSweepStart
       \/ TakeSweep \/ TakeEnd
  BY StepNames DEF Write, Remove, Slip, SweepTimer, PostSweep,
    MemberStep, SweepStep, ServePrint, ServeMember, ServeSweep, Stop, Abandon, CommandFails, taps,
    Batch, Posting, Halting, ReplayStep, ReplayEnd, BatchEnd, Finish, PostSync,
    PostNothing, PostMember
<1> QED
  BY <1>3, <1>4, <1>5, <1>6, <1>7, <1>8, <1>9, <1>10, <1>11, <1>12

(* What is held back, and when.                                            *)
LEMMA BackHolds ==
  ASSUME Typed, Control
  PROVE  /\ Back \in Seq(Listen)
         /\ ~complete => Back = pending /\ pc # "replay"
         /\ complete /\ pc # "replay" => Back = <<>>
<1>1. Back \in Seq(Listen)
  <2>1. pc = "replay" => left.replay \in Seq(Listen)
    BY DEF Typed, TypedBatch
  <2>2. pending \in Seq(Listen)
    BY DEF Typed, TypedLoop
  <2> QED
    BY <2>1, <2>2 DEF Back
<1> QED
  BY <1>1 DEF Back, Control, Printing

LEMMA BackReplayed ==
  ASSUME Typed, Control, ReplayStep
  PROVE  /\ Back = left.replay /\ Back # <<>>
         /\ Back' = Tail(Back) \/ (Back' = <<>> /\ aborted' = TRUE)
<1>1. /\ left'.replay = Tail(left.replay) /\ left.replay # <<>> /\ UNCHANGED pending
      /\ pc = "replay"
  BY Replayed DEF ReplayStep, Batch, Typed
<1>2. pc' = "replay" \/ (pc' = "leave" /\ aborted' = TRUE)
  <2>1. PICK framed : Tell(framed, "replay")
    BY DEF ReplayStep, ApplyListen
  <2>2. Leave \/ pc' = "replay"
    BY <2>1 DEF Tell
  <2> QED
    BY <2>2 DEF Leave, Halt
<1>3. pending = <<>>
  BY <1>1 DEF Control, Printing
<1> QED
  BY <1>1, <1>2, <1>3 DEF Back

LEMMA BackSteps ==
  ASSUME Typed, Control, FollowNext
  PROVE  \/ Back' = Back
         \/ Back' = <<>> /\ aborted' = TRUE
         \/ TakeListen /\ ~complete /\ Back' = Append(Back, Head(queue))
         \/ ReplayStep
<1> USE DEF Control
<1>1. ASSUME pc # "replay", pc' # "replay", UNCHANGED pending
      PROVE  Back' = Back
  BY <1>1 DEF Back
<1>2. ASSUME UNCHANGED <<pc, left, pending>>
      PROVE  Back' = Back
  BY <1>2 DEF Back
<1>3. CASE TakeListen
  <2>1. pc # "replay" /\ pc' # "replay"
    BY <1>3 DEF TakeListen, Taking, ApplyListen, Tell, Leave, Next_
  <2>2. complete => UNCHANGED pending
    BY <1>3 DEF TakeListen
  <2>3. ~complete => pending' = Append(pending, Head(queue))
    BY <1>3 DEF TakeListen
  <2> QED
    BY <1>1, <1>3, <2>1, <2>2, <2>3 DEF Back
<1>5. CASE TakeDone
  BY <1>5 DEF TakeDone, Taking, Back
<1>6. CASE ReplayEnd
  <2>1. pending = <<>> /\ left.replay = <<>> /\ pc = "replay" /\ pc' # "replay" /\ UNCHANGED pending
    BY <1>6 DEF ReplayEnd, Batch, Printing, Next_
  <2> QED
    BY <2>1 DEF Back
<1>7. CASE Abandon \/ Halting
  <2>1. aborted' = TRUE /\ UNCHANGED pending /\ pc' # "replay"
    BY <1>7 DEF Abandon, Halting, Leave, Halt, loop
  <2>2. pc = "replay" => pending = <<>>
    BY DEF Printing
  <2> QED
    BY <1>1, <2>1, <2>2 DEF Back
<1>8. CASE \/ \E i \in Id : Write(i) \/ Remove(i) \/ Slip(i) \/ Announce(i) \/ PrintRow(i)
           \/ ServePrint \/ PrintDone \/ ServeMember \/ MemberDone \/ ServeSweep \/ SweepDone
           \/ SweepTimer \/ Stop \/ \E c \in Command : CommandFails(c) \/ CommandEnds(c)
  BY <1>2, <1>8 DEF Write, Remove, Slip, Announce, PrintRow, ServePrint, PrintDone, ServeMember,
    MemberDone, ServeSweep, SweepDone, SweepTimer, Stop, CommandFails, CommandEnds, loop
<1>9. CASE TakeRow \/ TakeMember \/ TakeSweepStart \/ TakeSweep \/ TakeEnd \/ Finish
  BY <1>1, <1>9 DEF TakeRow, TakeMember, TakeSweepStart, TakeSweep, TakeEnd, Finish, Taking, Leave,
    Next_, loop
<1>10. CASE \/ \E i \in Id : MemberStep(i) \/ SweepStep(i)
            \/ BatchEnd \/ PostSync \/ PostSweep \/ PostNothing
            \/ \E batch \in SUBSET Id : PostMember(batch)
  BY <1>1, <1>10 DEF MemberStep, SweepStep, BatchEnd, PostSync, PostSweep, PostNothing, PostMember,
    Batch, Posting, Tell, Leave, Next_
<1> QED
  BY <1>3, <1>5, <1>6, <1>7, <1>8, <1>9, <1>10, StepNames

-----------------------------------------------------------------------------
(* What is still to come: what is held back, then the queue.               *)
LEMMA Joins ==
  ASSUME NEW B \in Seq(Listen), NEW Q \in Seq(Event)
  PROVE  /\ Len(B) \in Nat /\ Len(Q) \in Nat
         /\ Len(B \o Q) = Len(B) + Len(Q)
         /\ \A p \in 1..Len(B) : /\ p \in 1..Len(B \o Q) /\ (B \o Q)[p] = B[p]
                                 /\ B[p] \in Listen
         /\ \A p \in 1..Len(Q) : /\ Len(B) + p \in 1..Len(B \o Q)
                                 /\ (B \o Q)[Len(B) + p] = Q[p] /\ Q[p] \in Event
         /\ \A p \in 1..Len(B \o Q) :
              /\ p \in 1..Len(B) \/ (p > Len(B) /\ p - Len(B) \in 1..Len(Q))
              /\ p > Len(B) => (B \o Q)[p] = Q[p - Len(B)]
              /\ (B \o Q)[p].is = "listen" => (B \o Q)[p] \in Listen
<1> DEFINE S == B \o Q
<1>1. /\ Len(B) \in Nat /\ Len(Q) \in Nat
      /\ \A p \in 1..Len(B) : B[p] \in Listen
      /\ \A p \in 1..Len(Q) : Q[p] \in Event
  OBVIOUS
<1>2. /\ Len(S) = Len(B) + Len(Q)
      /\ \A p \in 1..Len(B) + Len(Q) : S[p] = IF p <= Len(B) THEN B[p] ELSE Q[p - Len(B)]
  OBVIOUS
<1> HIDE DEF S
<1>3. \A p \in 1..Len(B) : p \in 1..Len(S) /\ S[p] = B[p]
  BY <1>1, <1>2
<1>4. \A p \in 1..Len(Q) : Len(B) + p \in 1..Len(S) /\ S[Len(B) + p] = Q[p]
  BY <1>1, <1>2
<1>5. \A p \in 1..Len(S) : p \in 1..Len(B) \/ (p > Len(B) /\ p - Len(B) \in 1..Len(Q))
  BY <1>1, <1>2
<1>6. \A p \in 1..Len(S) : p > Len(B) => S[p] = Q[p - Len(B)]
  BY <1>1, <1>2
<1>7. \A p \in 1..Len(S) : S[p].is = "listen" => S[p] \in Listen
  BY <1>1, <1>3, <1>5, <1>6, EventKinds
<1> QED
  BY <1>1, <1>2, <1>3, <1>4, <1>5, <1>6, <1>7 DEF S

LEMMA BackTyped ==
  ASSUME Typed
  PROVE  Back \in Seq(Listen) /\ queue \in Seq(Event)
<1>1. pc = "replay" => left.replay \in Seq(Listen)
  BY DEF Typed, TypedBatch
<1>2. pending \in Seq(Listen) /\ queue \in Seq(Event)
  BY DEF Typed, TypedLoop, TypedTaps
<1> QED
  BY <1>1, <1>2 DEF Back

LEMMA BackTypedNext ==
  ASSUME Typed'
  PROVE  Back' \in Seq(Listen) /\ queue' \in Seq(Event)
<1>1. pc' = "replay" => left'.replay \in Seq(Listen)
  BY DEF Typed, TypedBatch
<1>2. pending' \in Seq(Listen) /\ queue' \in Seq(Event)
  BY DEF Typed, TypedLoop, TypedTaps
<1> QED
  BY <1>1, <1>2 DEF Back

(* R's listen replies are some of S's, in their order.                     *)
Kept(S, R, f) ==
  /\ \A p \in 1..Len(R) : R[p].is = "listen" => f[p] \in 1..Len(S) /\ R[p] = S[f[p]]
  /\ \A p, q \in 1..Len(R) : R[p].is = "listen" /\ R[q].is = "listen" /\ p < q => f[p] < f[q]

(* And all of S's but the first k.                                         *)
Passed(S, R, k) ==
  \E f : /\ Kept(S, R, f)
         /\ \A p \in 1..Len(R) : f[p] > k
         /\ \A p \in 1..Len(S) : S[p].is = "listen" /\ p > k =>
              \E r \in 1..Len(R) : f[r] = p /\ R[r] = S[p]

LEMMA Shifted ==
  ASSUME NEW S, NEW R, Len(S) \in Nat, Len(R) \in Nat, NEW k \in Nat, Len(R) = Len(S) - k,
         \A p \in 1..Len(R) : R[p] = S[p + k]
  PROVE  Passed(S, R, k)
<1> DEFINE f == [p \in 1..Len(R) |-> p + k]
<1>1. \A p \in 1..Len(R) : f[p] \in 1..Len(S) /\ R[p] = S[f[p]]
  OBVIOUS
<1>2. \A p, q \in 1..Len(R) : p < q => f[p] < f[q]
  OBVIOUS
<1>5. \A p \in 1..Len(R) : f[p] > k
  OBVIOUS
<1>3. ASSUME NEW p \in 1..Len(S), p > k
      PROVE  \E r \in 1..Len(R) : f[r] = p /\ R[r] = S[p]
  <2>1. p - k \in 1..Len(R) /\ (p - k) + k = p
    BY <1>3
  <2>2. f[p - k] = p
    BY <2>1
  <2> HIDE DEF f
  <2> QED
    BY <2>1, <2>2
<1> HIDE DEF f
<1>4. Kept(S, R, f)
  BY <1>1, <1>2 DEF Kept
<1> QED
  BY <1>3, <1>4, <1>5 DEF Passed

(* The step that applies the reply at the head of what is to come.         *)
Applies == ReplayStep \/ (TakeListen /\ complete)

LEMMA ComingKept ==
  ASSUME Typed, Control, Typed', FollowNext, \A i \in Id : ~Announce(i)
  PROVE  /\ \E f : Kept(Coming, Coming', f) /\ (Applies => \A p \in 1..Len(Coming') : f[p] > 1)
         /\ aborted' # TRUE => \/ Passed(Coming, Coming', 0)
                               \/ Applies /\ Passed(Coming, Coming', 1)
<1> DEFINE b == Len(Back)
           n == Len(queue)
           c == Len(Coming')
<1>1. /\ b \in Nat /\ n \in Nat /\ Len(Coming) = b + n
      /\ \A p \in 1..b : p \in 1..b + n /\ Coming[p] = Back[p]
      /\ \A p \in 1..n : b + p \in 1..b + n /\ Coming[b + p] = queue[p]
      /\ \A p \in 1..b + n : p \in 1..b \/ (p > b /\ p - b \in 1..n)
      /\ \A p \in 1..b + n : p > b => Coming[p] = queue[p - b]
  BY Joins, BackTyped DEF Coming
<1>2. /\ Len(Back') \in Nat /\ Len(queue') \in Nat /\ c = Len(Back') + Len(queue')
      /\ \A p \in 1..Len(Back') : p \in 1..c /\ Coming'[p] = Back'[p]
      /\ \A p \in 1..Len(queue') : Len(Back') + p \in 1..c /\ Coming'[Len(Back') + p] = queue'[p]
      /\ \A p \in 1..c : p \in 1..Len(Back') \/ (p > Len(Back') /\ p - Len(Back') \in 1..Len(queue'))
      /\ \A p \in 1..c : p > Len(Back') => Coming'[p] = queue'[p - Len(Back')]
  BY Joins, BackTypedNext DEF Coming
<1> HIDE DEF b, n, c
<1>3. ASSUME NEW m \in Nat, Moved(queue, queue', "listen", m), Back' = Back
      PROVE  Passed(Coming, Coming', 0)
  <2> DEFINE f == [p \in 1..c |-> IF p <= b THEN p ELSE p + m]
  <2>1. Len(Back') = b
    BY <1>3 DEF b
  <2>2. ASSUME NEW p \in 1..c, Coming'[p].is = "listen"
        PROVE  f[p] \in 1..b + n /\ Coming'[p] = Coming[f[p]]
    <3>1. CASE p \in 1..b
      <4>1. f[p] = p
        BY <1>1, <3>1
      <4> QED
        BY <1>1, <1>2, <1>3, <2>1, <3>1, <4>1
    <3>2. CASE p > b /\ p - b \in 1..Len(queue')
      <4>1. queue'[p - b].is = "listen" /\ Coming'[p] = queue'[p - b]
        BY <1>2, <2>1, <2>2, <3>2
      <4>2. p - b + m \in 1..n /\ queue'[p - b] = queue[p - b + m]
        BY <1>3, <3>2, <4>1 DEF Moved, n
      <4>3. f[p] = p + m
        BY <1>1, <3>2
      <4> HIDE DEF f
      <4>4. b + (p - b + m) = p + m
        BY <1>1, <1>3
      <4> QED
        BY <1>1, <4>1, <4>2, <4>3, <4>4
    <3> QED
      BY <1>2, <2>1, <3>1, <3>2
  <2>3. \A p, q \in 1..c : p < q => f[p] < f[q]
    BY <1>1, <1>2
  <2>4. ASSUME NEW p \in 1..b + n, Coming[p].is = "listen"
        PROVE  \E r \in 1..c : f[r] = p /\ Coming'[r] = Coming[p]
    <3>1. CASE p \in 1..b
      <4>1. p \in 1..c /\ Coming'[p] = Coming[p]
        BY <1>1, <1>2, <1>3, <2>1, <3>1
      <4>2. f[p] = p
        BY <1>1, <3>1, <4>1
      <4> HIDE DEF f
      <4> QED
        BY <4>1, <4>2
    <3>2. CASE p > b /\ p - b \in 1..n
      <4>1. queue[p - b].is = "listen" /\ Coming[p] = queue[p - b]
        BY <1>1, <2>4, <3>2
      <4>2. p - b - m \in 1..Len(queue') /\ queue'[p - b - m] = queue[p - b]
        BY <1>3, <3>2, <4>1 DEF Moved, n
      <4>3. /\ p - m \in 1..c /\ p - m > b /\ b + (p - b - m) = p - m
            /\ Coming'[b + (p - b - m)] = queue'[p - b - m]
        BY <1>1, <1>2, <2>1, <4>2
      <4>4. f[p - m] = p
        BY <1>1, <4>3
      <4> HIDE DEF f
      <4> QED
        BY <4>1, <4>2, <4>3, <4>4
    <3> QED
      BY <1>1, <3>1, <3>2
  <2> HIDE DEF f
  <2>5. Kept(Coming, Coming', f)
    BY <1>1, <2>2, <2>3 DEF Kept, c
  <2>7. \A p \in 1..Len(Coming') : f[p] > 0
    <3>1. \A p \in 1..c : f[p] > 0
      BY <1>1, <1>2 DEF f
    <3> QED
      BY <3>1 DEF c
  <2>6. \A p \in 1..Len(Coming) : Coming[p].is = "listen" /\ p > 0 =>
          \E r \in 1..Len(Coming') : f[r] = p /\ Coming'[r] = Coming[p]
    BY <1>1, <2>4 DEF c
  <2> QED
    BY <2>5, <2>6, <2>7 DEF Passed
<1>4. ASSUME NEW m \in Nat, Moved(queue, queue', "listen", m), Back' = <<>>
      PROVE  \E f : Kept(Coming, Coming', f) /\ \A p \in 1..Len(Coming') : f[p] \in Nat /\ f[p] > b
  <2> DEFINE f == [p \in 1..c |-> p + m + b]
  <2>1. ASSUME NEW p \in 1..c, Coming'[p].is = "listen"
        PROVE  f[p] \in 1..b + n /\ Coming'[p] = Coming[f[p]]
    <3>1. Len(Back') = 0
      BY <1>4
    <3>2. p \in 1..Len(queue') /\ Coming'[p] = queue'[p]
      BY <1>2, <3>1
    <3>3. p + m \in 1..n /\ queue'[p] = queue[p + m]
      BY <1>4, <2>1, <3>2 DEF Moved, n
    <3>4. f[p] = b + (p + m) /\ b + (p + m) \in 1..b + n
      BY <1>1, <3>3
    <3> HIDE DEF f
    <3> QED
      BY <1>1, <3>2, <3>3, <3>4
  <2>2. \A p, q \in 1..c : p < q => f[p] < f[q]
    BY <1>1, <1>2
  <2> HIDE DEF f
  <2>3. Kept(Coming, Coming', f)
    BY <1>1, <2>1, <2>2 DEF Kept, c
  <2>4. \A p \in 1..Len(Coming') : f[p] \in Nat /\ f[p] > b
    <3>1. \A p \in 1..c : f[p] \in Nat /\ f[p] > b
      BY <1>1, <1>2, <1>4 DEF f
    <3> QED
      BY <3>1 DEF c
  <2> QED
    BY <2>3, <2>4
<1>5. ASSUME NEW k \in Nat, c = b + n - k, \A p \in 1..c : Coming'[p] = Coming[p + k]
      PROVE  Passed(Coming, Coming', k)
  <2>1. c = Len(Coming')
    BY DEF c
  <2>2. c \in Nat /\ Len(Coming) \in Nat /\ c = Len(Coming) - k
    BY <1>1, <1>2, <1>5
  <2> QED
    BY <1>5, <2>1, <2>2, Shifted
<1>9. \A k \in Nat : Passed(Coming, Coming', k) =>
        \E f : Kept(Coming, Coming', f) /\ \A p \in 1..Len(Coming') : f[p] > k
  BY DEF Passed
<1>6. CASE TakeListen
  <2>1. /\ n \in Nat \ {0} /\ Len(queue') = n - 1 /\ queue[1] = Head(queue)
        /\ queue[1].is = "listen" /\ \A p \in 1..n - 1 : queue'[p] = queue[p + 1]
    BY <1>6, Taken DEF TakeListen, Typed, n
  <2>2. CASE ~complete
    <3>1. Back' = Append(Back, queue[1])
      <4>1. Back = pending /\ pc # "replay" /\ pending' = Append(pending, Head(queue))
            /\ pc' # "replay"
        BY <1>6, <2>2, BackHolds DEF TakeListen, Next_
      <4> QED
        BY <2>1, <4>1 DEF Back
    <3>2. /\ Len(Back') = b + 1 /\ Back'[b + 1] = queue[1]
          /\ \A p \in 1..b : Back'[p] = Back[p]
      <4>1. Back \in Seq(Listen) /\ queue[1] \in Listen
        BY <2>1, BackTyped, EventKinds DEF n
      <4> QED
        BY <3>1, <4>1 DEF b
    <3>3. c = b + n
      BY <1>1, <1>2, <2>1, <3>2
    <3>4. \A p \in 1..c : Coming'[p] = Coming[p]
      <4>1. ASSUME NEW p \in 1..c
            PROVE  Coming'[p] = Coming[p]
        <5>1. CASE p \in 1..b
          BY <1>1, <1>2, <3>2, <5>1
        <5>2. CASE p = b + 1
          BY <1>1, <1>2, <2>1, <3>2, <5>2
        <5>3. CASE p > b + 1
          <6>1. /\ p - (b + 1) \in 1..n - 1 /\ p - b \in 1..n /\ p > b
                /\ (p - (b + 1)) + 1 = p - b
            BY <1>1, <3>3, <5>3
          <6>2. Coming'[p] = queue'[p - (b + 1)] /\ Coming[p] = queue[p - b]
            BY <1>1, <1>2, <3>2, <3>3, <5>3, <6>1
          <6> QED
            BY <2>1, <6>1, <6>2
        <5> QED
          BY <1>1, <1>2, <5>1, <5>2, <5>3
      <4> QED
        BY <4>1
    <3>5. c = b + n - 0 /\ \A p \in 1..c : Coming'[p] = Coming[p + 0]
      BY <1>1, <3>3, <3>4
    <3>6. ~Applies
      BY <1>6, <2>2 DEF Applies, TakeListen, Taking, ReplayStep, Batch
    <3> QED
      BY <1>5, <1>9, <3>5, <3>6
  <2>3. CASE complete
    <3>1. Back = <<>> /\ Back' = <<>>
      <4>1. pc # "replay" /\ pc' # "replay" /\ UNCHANGED pending
        BY <1>6, <2>3 DEF TakeListen, Taking, ApplyListen, Tell, Leave, Next_
      <4>2. Back' = Back /\ Back = <<>>
        BY <2>3, <4>1, BackHolds DEF Back
      <4> QED
        BY <4>2
    <3>2. b = 0 /\ Len(Back') = 0
      BY <3>1 DEF b
    <3>3. c = b + n - 1
      BY <1>2, <2>1, <3>2
    <3>4. \A p \in 1..c : p + 1 \in 1..b + n /\ Coming'[p] = Coming[p + 1]
      BY <1>1, <1>2, <2>1, <3>2, <3>3
    <3>5. Passed(Coming, Coming', 1)
      BY <1>5, <3>3, <3>4
    <3>6. Applies
      BY <1>6, <2>3 DEF Applies
    <3> QED
      BY <1>9, <3>5, <3>6
  <2> QED
    BY <2>2, <2>3
<1>7. CASE ReplayStep
  <2>1. /\ Back # <<>> /\ Back \in Seq(Listen) /\ UNCHANGED queue
        /\ Back' = Tail(Back) \/ (Back' = <<>> /\ aborted' = TRUE)
    BY <1>7, BackReplayed, BackTyped DEF ReplayStep, Batch
  <2>2. CASE Back' = Tail(Back)
    <3>1. /\ b \in Nat \ {0} /\ Len(Back') = b - 1
          /\ \A p \in 1..b - 1 : Back'[p] = Back[p + 1]
      BY <2>1, <2>2 DEF b
    <3>2. c = b + n - 1 /\ Len(queue') = n
      BY <1>1, <1>2, <2>1, <3>1 DEF n
    <3>3. ASSUME NEW p \in 1..c
          PROVE  p + 1 \in 1..b + n /\ Coming'[p] = Coming[p + 1]
      <4>1. CASE p \in 1..b - 1
        BY <1>1, <1>2, <3>1, <3>2, <4>1
      <4>2. CASE p > b - 1
        <5>1. Coming'[p] = queue'[p - (b - 1)] /\ p - (b - 1) = p + 1 - b
          BY <1>2, <3>1, <3>2, <4>2
        <5>2. Coming[p + 1] = queue[p + 1 - b] /\ p + 1 \in 1..b + n
          BY <1>1, <3>1, <3>2, <4>2
        <5> QED
          BY <2>1, <5>1, <5>2
      <4> QED
        BY <1>1, <3>1, <4>1, <4>2
    <3>5. Passed(Coming, Coming', 1)
      BY <1>5, <3>2, <3>3
    <3>6. Applies
      BY <1>7 DEF Applies
    <3> QED
      BY <1>9, <3>5, <3>6
  <2>3. CASE Back' = <<>> /\ aborted' = TRUE
    <3>1. Moved(queue, queue', "listen", 0)
      BY <2>1, MovedByNone DEF Typed
    <3>2. PICK f : Kept(Coming, Coming', f) /\ \A p \in 1..Len(Coming') : f[p] \in Nat /\ f[p] > b
      BY <1>4, <2>3, <3>1
    <3>3. b \in Nat /\ b >= 1
      BY <1>1, <2>1 DEF b
    <3>4. \A p \in 1..Len(Coming') : f[p] > 1
      BY <3>2, <3>3
    <3> QED
      BY <2>3, <3>2, <3>4
  <2> QED
    BY <2>1, <2>2, <2>3
<1>8. CASE ~TakeListen /\ ~ReplayStep
  <2>1. \E m \in Nat : Moved(queue, queue', "listen", m)
    BY <1>8, EventsMoved
  <2>2. Back' = Back \/ (Back' = <<>> /\ aborted' = TRUE)
    BY <1>8, BackSteps
  <2>3. ~Applies
    BY <1>8 DEF Applies
  <2>4. CASE Back' = Back
    BY <1>3, <1>9, <2>1, <2>3, <2>4
  <2>5. CASE Back' = <<>> /\ aborted' = TRUE
    BY <1>4, <2>1, <2>3, <2>5
  <2> QED
    BY <2>2, <2>4, <2>5
<1> QED
  BY <1>6, <1>7, <1>8 DEF Applies

(* The reply that is applied is the first of what is to come.              *)
LEMMA AppliesFirst ==
  ASSUME Typed, Control, Applies
  PROVE  /\ Len(Coming) >= 1 /\ Coming[1] \in Listen /\ Coming[1].is = "listen"
         /\ \E then : ApplyListen(Coming[1], then)
         /\ complete /\ UNCHANGED <<menu, version, news, table>>
<1>1. /\ Back \in Seq(Listen) /\ queue \in Seq(Event)
      /\ Len(Coming) = Len(Back) + Len(queue) /\ Len(Back) \in Nat /\ Len(queue) \in Nat
      /\ Len(Back) > 0 => Coming[1] = Back[1]
      /\ Len(Back) = 0 /\ Len(queue) > 0 => Coming[1] = queue[1]
  <2>1. Back \in Seq(Listen) /\ queue \in Seq(Event)
    BY BackTyped
  <2> QED
    BY <2>1 DEF Coming
<1>2. CASE ReplayStep
  <2>1. Back = left.replay /\ Back # <<>> /\ Head(left.replay) \in Listen
    BY <1>2, BackReplayed, Replayed DEF Typed
  <2>2. Len(Back) > 0 /\ Head(left.replay) = Back[1]
    BY <1>1, <2>1
  <2>3. complete /\ UNCHANGED <<menu, version, news, table>>
    BY <1>2 DEF ReplayStep, Batch, router, Control, Printing
  <2>4. \E then : ApplyListen(Head(left.replay), then)
    BY <1>2 DEF ReplayStep
  <2> QED
    BY <1>1, <2>1, <2>2, <2>3, <2>4 DEF Listen
<1>3. CASE TakeListen /\ complete
  <2>1. Len(queue) \in Nat \ {0} /\ queue[1] = Head(queue) /\ Head(queue) \in Event /\ Head(queue).is = "listen"
    BY <1>3, Taken DEF TakeListen, Typed
  <2>2. Back = <<>>
    BY <1>3, BackHolds DEF TakeListen, Taking
  <2>3. Len(Back) = 0 /\ Coming[1] = Head(queue) /\ Head(queue) \in Listen
    BY <1>1, <2>1, <2>2, EventKinds
  <2>4. complete /\ UNCHANGED <<menu, version, news, table>>
    BY <1>3 DEF TakeListen, Taking, router
  <2>5. \E then : ApplyListen(Head(queue), then)
    BY <1>3 DEF TakeListen
  <2> QED
    BY <1>1, <2>1, <2>3, <2>4, <2>5
<1> QED
  BY <1>2, <1>3 DEF Applies

(* What the router announces comes last.                                  *)
LEMMA ComingJoined ==
  ASSUME Typed, Typed', NEW i \in Id, Announce(i)
  PROVE  \E e \in Listen :
           /\ e.is = "listen" /\ e.id = i /\ e.ver = table[i]
           /\ menu.query => e.at = version + 1
           /\ Len(Coming) \in Nat /\ Len(Coming') \in Nat /\ Len(Coming) <= Len(Coming')
           /\ \A p \in 1..Len(Coming) : p \in 1..Len(Coming') /\ Coming'[p] = Coming[p]
           /\ \A p \in 1..Len(Coming') :
                \/ p \in 1..Len(Coming)
                \/ p = Len(Coming) + 1 /\ Coming'[p] = e /\ draining
           /\ aborted' # TRUE /\ draining => Len(Coming) + 1 \in 1..Len(Coming')
<1>1. PICK e \in Listen : /\ e \in Event /\ e.is = "listen" /\ e.id = i /\ e.ver = table[i]
                          /\ menu.query => e.at = version + 1
                          /\ PushBounded(e)
  BY Announced
<1>2. Back' = Back
  BY DEF Announce, loop, Back
<1>3. Back \in Seq(Listen) /\ queue \in Seq(Event) /\ Len(Back) \in Nat /\ Len(queue) \in Nat
  BY BackTyped
<1>4. /\ queue' = queue \/ (draining /\ queue' = Append(queue, e))
      /\ aborted' # TRUE /\ draining => queue' = Append(queue, e)
  BY <1>1 DEF PushBounded, Halt
<1> DEFINE b == Len(Back)
           n == Len(queue)
           c == Len(Coming)
           d == Len(Coming')
<1>5. /\ b \in Nat /\ n \in Nat /\ c = b + n
      /\ \A p \in 1..b : p \in 1..c /\ Coming[p] = Back[p]
      /\ \A p \in 1..c : p \in 1..b \/ (p > b /\ p - b \in 1..n)
      /\ \A p \in 1..c : p > b => Coming[p] = queue[p - b]
  BY <1>3, Joins DEF Coming
<1>6. /\ Len(queue') \in Nat /\ d = b + Len(queue')
      /\ \A p \in 1..b : p \in 1..d /\ Coming'[p] = Back[p]
      /\ \A p \in 1..d : p \in 1..b \/ (p > b /\ p - b \in 1..Len(queue'))
      /\ \A p \in 1..d : p > b => Coming'[p] = queue'[p - b]
  BY <1>2, BackTypedNext, Joins DEF Coming
<1>7. CASE queue' = queue
  <2>1. Coming' = Coming
    BY <1>2, <1>7 DEF Coming
  <2>2. ~(aborted' # TRUE /\ draining)
    <3>1. Append(queue, e) # queue
      BY <1>1, <1>3
    <3> QED
      BY <1>4, <1>7, <3>1
  <2>3. c \in Nat /\ d = c
    BY <1>5, <2>1
  <2>4. Len(Coming) \in Nat /\ Len(Coming') \in Nat /\ Len(Coming) <= Len(Coming')
    BY <2>3
  <2> HIDE DEF c, d
  <2> QED
    BY <1>1, <2>1, <2>2, <2>4
<1>8. CASE draining /\ queue' = Append(queue, e)
  <2>1. /\ Len(queue') = n + 1 /\ queue'[n + 1] = e
        /\ \A p \in 1..n : queue'[p] = queue[p]
    BY <1>1, <1>3, <1>8
  <2> HIDE DEF b, n, c, d
  <2>2. c \in Nat /\ d = c + 1
    BY <1>5, <1>6, <2>1
  <2>3. ASSUME NEW p \in 1..c
        PROVE  p \in 1..d /\ Coming'[p] = Coming[p]
    <3>1. CASE p \in 1..b
      BY <1>5, <1>6, <3>1
    <3>2. CASE p > b /\ p - b \in 1..n
      <4>1. p \in 1..d /\ Coming'[p] = queue'[p - b] /\ Coming[p] = queue[p - b]
        <5>1. p \in 1..d /\ p > b
          BY <1>5, <2>2, <3>2
        <5> QED
          BY <1>5, <1>6, <5>1
      <4> QED
        BY <2>1, <3>2, <4>1
    <3> QED
      BY <1>5, <3>1, <3>2
  <2>4. Coming'[c + 1] = e /\ c + 1 \in 1..d
    <3>1. c + 1 \in 1..d /\ c + 1 > b /\ (c + 1) - b = n + 1
      BY <1>5, <2>2
    <3> QED
      BY <1>6, <2>1, <3>1
  <2>5. \A p \in 1..d : p \in 1..c \/ p = c + 1
    BY <2>2
  <2>6. c <= d /\ d \in Nat
    BY <2>2
  <2> QED
    BY <1>1, <1>8, <2>2, <2>3, <2>4, <2>5, <2>6 DEF c, d
<1> QED
  BY <1>4, <1>7, <1>8

-----------------------------------------------------------------------------
(* What is asked stays so until its answer is applied.                     *)
LEMMA AskedSame ==
  ASSUME Typed, FollowNext, ~TakeMember, ~MemberDone,
         run'["member"] \in {"sent", "served"} => Under("member") /\ reply'.versions = reply.versions,
         pc' = "member" => pc = "member" /\ left' = left,
         aborted' # TRUE => /\ Under("member") => run'["member"] \in {"sent", "served"}
                            /\ pc = "member" => pc' = "member"
  PROVE  /\ \A i \in Id : Asked'[i] \subseteq Asked[i]
         /\ aborted' # TRUE => Asked' = Asked
<1>1. PICK m \in Nat : Moved(queue, queue', "member", m)
  BY EventsMoved
<1>2. /\ \A p \in 1..Len(queue') : queue'[p].is = "member" =>
           p + m \in 1..Len(queue) /\ queue'[p] = queue[p + m]
      /\ \A p \in 1..Len(queue) : queue[p].is = "member" =>
           p - m \in 1..Len(queue') /\ queue'[p - m] = queue[p]
  BY <1>1 DEF Moved
<1>3. ASSUME NEW i \in Id
      PROVE  Asked'[i] \subseteq Asked[i] /\ (aborted' # TRUE => Asked'[i] = Asked[i])
  <2>1. \A n \in Nat \ {0} : n \in Asked[i] <=>
          \/ Under("member") /\ reply.versions[i] = n
          \/ \E p \in 1..Len(queue) : queue[p].is = "member" /\ queue[p].versions[i] = n
          \/ pc = "member" /\ i \in left.ids /\ left.versions[i] = n
    BY DEF Asked
  <2>2. \A n \in Nat \ {0} : n \in Asked'[i] <=>
          \/ run'["member"] \in {"sent", "served"} /\ reply'.versions[i] = n
          \/ \E p \in 1..Len(queue') : queue'[p].is = "member" /\ queue'[p].versions[i] = n
          \/ pc' = "member" /\ i \in left'.ids /\ left'.versions[i] = n
    BY DEF Asked, Under
  <2>3. ASSUME NEW n \in Nat \ {0}
        PROVE  /\ n \in Asked'[i] => n \in Asked[i]
               /\ aborted' # TRUE /\ n \in Asked[i] => n \in Asked'[i]
    <3>1. (\E p \in 1..Len(queue') : queue'[p].is = "member" /\ queue'[p].versions[i] = n)
          <=> \E p \in 1..Len(queue) : queue[p].is = "member" /\ queue[p].versions[i] = n
      BY <1>2
    <3>2. /\ n \in Asked[i] <=>
                \/ Under("member") /\ reply.versions[i] = n
                \/ \E p \in 1..Len(queue) : queue[p].is = "member" /\ queue[p].versions[i] = n
                \/ pc = "member" /\ i \in left.ids /\ left.versions[i] = n
          /\ n \in Asked'[i] <=>
                \/ run'["member"] \in {"sent", "served"} /\ reply'.versions[i] = n
                \/ \E p \in 1..Len(queue') : queue'[p].is = "member" /\ queue'[p].versions[i] = n
                \/ pc' = "member" /\ i \in left'.ids /\ left'.versions[i] = n
      BY <2>1, <2>2
    <3> QED
      BY Zenon, <3>1, <3>2
  <2>5. Asked[i] \subseteq Nat \ {0} /\ Asked'[i] \subseteq Nat \ {0}
    BY DEF Asked
  <2> QED
    BY <2>3, <2>5
<1>4. Asked = [i \in Id |-> Asked[i]] /\ Asked' = [i \in Id |-> Asked'[i]]
  BY DEF Asked
<1> QED
  BY <1>3, <1>4

LEMMA AskedByMember ==
  ASSUME Typed, Control, NEW batch \in SUBSET Id, PostMember(batch), NEW i \in Id
  PROVE  /\ Asked[i] = {}
         /\ \A n : n \in Asked'[i] <=> i \in batch /\ n = dirty[i]
         /\ i \in batch => dirty[i] # 0
<1> USE Commands DEF Control
<1>1. /\ ~asking /\ pc = "post" /\ pc' = "take" /\ UNCHANGED queue
      /\ run' = [run EXCEPT !["member"] = "sent"]
      /\ reply' = [reply EXCEPT !.versions = [j \in Id |-> IF j \in batch THEN dirty[j] ELSE 0]]
      /\ \A j \in batch : dirty[j] # 0
  BY DEF PostMember, Posting, Ids
<1>2. ~Under("member") /\ \A p \in 1..Len(queue) : queue[p].is # "member"
  BY <1>1 DEF Reading, Has
<1>3. /\ run'["member"] = "sent"
      /\ reply'.versions[i] = IF i \in batch THEN dirty[i] ELSE 0
      /\ dirty[i] \in Nat
  BY <1>1 DEF Typed, TypedWire, TypedLoop
<1>4. Asked[i] = {}
  BY <1>1, <1>2 DEF Asked
<1>5. ASSUME NEW n
      PROVE  n \in Asked'[i] <=> i \in batch /\ n = dirty[i]
  BY <1>1, <1>2, <1>3 DEF Asked, Under
<1> QED
  BY <1>1, <1>4, <1>5

LEMMA AskedByAnswer ==
  ASSUME Typed, Control, MemberDone \/ TakeMember, FollowNext
  PROVE  /\ \A i \in Id : Asked'[i] \subseteq Asked[i]
         /\ aborted' # TRUE => Asked' = Asked
<1> USE Commands DEF Control
<1>1. CASE MemberDone
  <2> DEFINE e == [is |-> "member", versions |-> reply.versions, rows |-> reply.rows]
  <2>1. Push(e) /\ e \in Event /\ e.is = "member" /\ e.versions = reply.versions
    BY <1>1, EventIn DEF MemberDone, Answer, Typed, TypedWire
  <2>2. /\ \A p \in 1..Len(queue) : p \in 1..Len(queue') /\ queue'[p] = queue[p]
        /\ \A p \in 1..Len(queue') :
             (p \in 1..Len(queue) /\ queue'[p] = queue[p]) \/ (p = Len(queue) + 1 /\ queue'[p] = e)
    BY <2>1, Joined DEF Typed
  <2>3. aborted' # TRUE => \E p \in 1..Len(queue') : queue'[p] = e
    <3>1. aborted' # TRUE => draining
      BY <1>1 DEF MemberDone, Telling
    <3>2. draining => Len(queue) \in Nat /\ Len(queue') = Len(queue) + 1 /\ queue'[Len(queue) + 1] = e
      BY <2>1 DEF Push, Typed, TypedTaps
    <3> QED
      BY <3>1, <3>2
  <2> HIDE DEF e
  <2>4. Under("member") /\ run'["member"] = "over" /\ UNCHANGED <<pc, left>>
    BY <1>1 DEF MemberDone, Under, Typed, TypedWire
  <2>5. \A i \in Id, n \in Nat \ {0} : n \in Asked'[i] => n \in Asked[i]
    BY <2>1, <2>2, <2>4 DEF Asked, Under
  <2>6. aborted' # TRUE => \A i \in Id, n \in Nat \ {0} : n \in Asked[i] => n \in Asked'[i]
    BY <2>1, <2>2, <2>3, <2>4 DEF Asked, Under
  <2>7. aborted' # TRUE => \A i \in Id : Asked'[i] = Asked[i]
    BY <2>5, <2>6 DEF Asked
  <2> QED
    BY <2>5, <2>7 DEF Asked
<1>2. CASE TakeMember
  <2>1. /\ Len(queue) \in Nat \ {0} /\ Len(queue') = Len(queue) - 1 /\ queue[1] \in Event
        /\ queue[1] = Head(queue) /\ queue[1].is = "member"
        /\ \A p \in 1..Len(queue') : queue'[p] = queue[p + 1]
    BY <1>2, Taken DEF TakeMember, Typed
  <2>2. \A p \in 1..Len(queue) : queue[p].is = "member" => p = 1
    BY <2>1 DEF Reading, Once
  <2>3. \A p \in 1..Len(queue') : queue'[p].is # "member"
    BY <2>1, <2>2
  <2>4. /\ pc' = "member" /\ pc = "take" /\ left'.ids = Ids(queue[1].versions)
        /\ left'.versions = queue[1].versions
        /\ run'["member"] = "off"
    BY <1>2, <2>1 DEF TakeMember, Taking, Typed, TypedWire
  <2>5. ~Under("member")
    BY <2>1 DEF Reading, Has
  <2>6. \A i \in Id, n \in Nat \ {0} : n \in Asked[i] <=> queue[1].versions[i] = n
    BY <2>1, <2>2, <2>4, <2>5 DEF Asked
  <2>7. \A i \in Id, n \in Nat \ {0} : n \in Asked'[i] <=> queue[1].versions[i] = n
    BY <2>3, <2>4 DEF Asked, Under, Ids
  <2>8. \A i \in Id : Asked'[i] = Asked[i]
    BY <2>6, <2>7 DEF Asked
  <2> QED
    BY <2>8 DEF Asked
<1> QED
  BY <1>1, <1>2

LEMMA AskedByStep ==
  ASSUME Typed, Control, NEW i \in Id, MemberStep(i)
  PROVE  /\ \A j \in Id : Asked'[j] \subseteq Asked[j]
         /\ aborted' # TRUE => \A j \in Id : j # i => Asked'[j] = Asked[j]
         /\ Asked[i] = {left.versions[i]} /\ left.versions[i] # 0
<1> USE DEF Control
<1>1. /\ left \in [ids : SUBSET Id, versions : [Id -> Nat], rows : [Id -> Version]]
      /\ i \in left.ids /\ pc = "member" /\ UNCHANGED <<queue, run, reply>>
      /\ left' = [left EXCEPT !.ids = left.ids \ {i}]
  BY DEF MemberStep, Batch, Typed, TypedBatch
<1>2. ~Under("member") /\ \A p \in 1..Len(queue) : queue[p].is # "member"
  BY <1>1 DEF Reading, Has
<1>3. left.versions[i] \in Nat \ {0}
  BY <1>1 DEF Reading, Ids
<1>4. pc' = "member" \/ aborted' = TRUE
  BY DEF MemberStep, Tell, Leave, Halt
<1>5. left'.ids = left.ids \ {i} /\ left'.versions = left.versions
  BY <1>1
<1>6. \A j \in Id, n \in Nat \ {0} : n \in Asked[j] <=> j \in left.ids /\ left.versions[j] = n
  BY <1>1, <1>2 DEF Asked
<1>7. \A j \in Id, n \in Nat \ {0} : n \in Asked'[j] <=> /\ j \in left.ids \ {i} /\ left.versions[j] = n
                                                         /\ pc' = "member"
  BY <1>1, <1>2, <1>5 DEF Asked, Under
<1>8. \A j \in Id : Asked'[j] \subseteq Asked[j]
  BY <1>6, <1>7 DEF Asked
<1>11. \A j \in Id : Asked[j] \subseteq Nat \ {0} /\ Asked'[j] \subseteq Nat \ {0}
  BY DEF Asked
<1>9. ASSUME aborted' # TRUE, NEW j \in Id, j # i
      PROVE  Asked'[j] = Asked[j]
  <2>1. \A n \in Nat \ {0} : n \in Asked'[j] <=> n \in Asked[j]
    BY <1>4, <1>6, <1>7, <1>9
  <2> QED
    BY <1>11, <2>1
<1>10. Asked[i] = {left.versions[i]}
  BY <1>1, <1>3, <1>6 DEF Asked
<1> QED
  BY <1>3, <1>8, <1>9, <1>10

LEMMA AskedElse ==
  ASSUME Typed, Control, FollowNext, \A i \in Id : ~MemberStep(i),
         \A batch \in SUBSET Id : ~PostMember(batch)
  PROVE  /\ \A i \in Id : Asked'[i] \subseteq Asked[i]
         /\ aborted' # TRUE => Asked' = Asked
<1> USE Commands DEF Control
<1>0. /\ run \in [Command -> {"off", "sent", "served", "over"}]
      /\ reply \in [versions : [Id -> Nat], rows : [Id -> Version], ids : SUBSET Id]
  BY DEF Typed, TypedWire
<1> DEFINE A == run'["member"] \in {"sent", "served"} => Under("member") /\ reply'.versions = reply.versions
           B == pc' = "member" => pc = "member" /\ left' = left
           C == aborted' # TRUE => /\ Under("member") => run'["member"] \in {"sent", "served"}
                                   /\ pc = "member" => pc' = "member"
<1>1. ASSUME \/ \E i \in Id : Write(i) \/ Remove(i) \/ Slip(i) \/ Announce(i) \/ PrintRow(i)
             \/ ServePrint \/ PrintDone \/ Stop \/ Abandon \/ Finish \/ Halting \/ SweepTimer
      PROVE  A /\ B /\ C
  <2>1. UNCHANGED <<reply, left>> /\ run'["member"] = run["member"]
    BY <1>0, <1>1 DEF Write, Remove, Slip, Announce, PrintRow, ServePrint, PrintDone, Stop, Abandon,
      Finish, Halting, SweepTimer, StartSweep
  <2>2. pc' = pc \/ (pc' = "over" /\ pc = "leave") \/ (aborted' = TRUE /\ (pc' = "over" \/ pc' = "leave"))
    BY <1>1 DEF Write, Remove, Slip, Announce, PrintRow, ServePrint, PrintDone, Stop, Abandon,
      Finish, Halting, Leave, Halt, SweepTimer
  <2> QED
    BY <2>1, <2>2 DEF Under
<1>2. ASSUME ServeMember \/ ServeSweep
      PROVE  A /\ B /\ C
  <2>1. UNCHANGED <<left, pc>> /\ reply'.versions = reply.versions
    BY <1>0, <1>2 DEF ServeMember, ServeSweep
  <2> QED
    BY <1>0, <1>2, <2>1 DEF Under, ServeMember, ServeSweep
<1>3. ASSUME SweepDone
      PROVE  A /\ B /\ C
  <2>1. /\ UNCHANGED <<left, pc>> /\ run'["member"] = run["member"] /\ Under("sweep")
    BY <1>0, <1>3 DEF SweepDone, Under
  <2>2. ~Under("member")
    BY <2>1 DEF Reading, Sweeping
  <2> QED
    BY <2>1, <2>2 DEF Under
<1>4. ASSUME NEW c \in Command, CommandFails(c) \/ CommandEnds(c)
      PROVE  A /\ B /\ C
  <2>1. /\ UNCHANGED <<left, pc, reply>>
        /\ run'["member"] \in {"sent", "served"} => Under("member")
    BY <1>0, <1>4 DEF CommandFails, CommandEnds, Under, Running
  <2>2. aborted' # TRUE => run'["member"] = run["member"]
    BY <1>0, <1>4 DEF CommandFails, CommandEnds, Halt
  <2> QED
    BY <2>1, <2>2 DEF Under
<1>5. ASSUME TakeListen \/ TakeRow \/ TakeDone \/ TakeSweepStart \/ TakeSweep \/ TakeEnd
      PROVE  A /\ B /\ C
  <2>1. UNCHANGED reply /\ run'["member"] = run["member"] /\ pc' # "member" /\ pc # "member"
    BY <1>0, <1>5 DEF TakeListen, TakeRow, TakeDone, TakeSweepStart, TakeSweep, TakeEnd, Taking,
      ApplyListen, Tell, Leave, Next_, loop
  <2> QED
    BY <2>1 DEF Under
<1>6. ASSUME ReplayStep \/ ReplayEnd \/ PostSync \/ PostSweep \/ PostNothing
             \/ \E i \in Id : SweepStep(i)
      PROVE  A /\ B /\ C
  <2>1. UNCHANGED reply /\ run'["member"] = run["member"] /\ pc' # "member" /\ pc # "member"
    BY <1>0, <1>6 DEF ReplayStep, ReplayEnd, PostSync, PostSweep, PostNothing, SweepStep,
      Batch, Posting, ApplyListen, Tell, Leave, Next_, StartSweep
  <2> QED
    BY <2>1 DEF Under
<1>7. ASSUME ~MemberDone, ~TakeMember, A, B, C
      PROVE  /\ \A i \in Id : Asked'[i] \subseteq Asked[i]
             /\ aborted' # TRUE => Asked' = Asked
  BY <1>7, AskedSame
<1>8. CASE BatchEnd
  <2>1. /\ UNCHANGED <<reply, run, queue>> /\ pc' # "member" /\ left.ids = {}
    BY <1>8 DEF BatchEnd, Batch, Next_
  <2>2. \A i \in Id : Asked'[i] = Asked[i]
    BY <2>1 DEF Asked, Under
  <2>3. Asked = [i \in Id |-> Asked[i]] /\ Asked' = [i \in Id |-> Asked'[i]]
    BY DEF Asked
  <2> QED
    BY <2>2, <2>3
<1>9. CASE MemberDone \/ TakeMember
  BY <1>9, AskedByAnswer
<1>10. CASE ~MemberDone /\ ~TakeMember /\ ~BatchEnd
  <2>1. A /\ B /\ C
    <3> HIDE DEF A, B, C
    <3> QED
      BY <1>1, <1>2, <1>3, <1>4, <1>5, <1>6, <1>10, StepNames
  <2> QED
    BY <1>7, <1>10, <2>1
<1> QED
  BY <1>8, <1>9, <1>10

(* Where the reader's copy comes from.                                     *)
LEMMA ViewSteps ==
  ASSUME Typed, Control, FollowNext, NEW i \in Id
  PROVE  \/ view'[i] = view[i]
         \/ view'[i] = 0
         \/ TakeRow /\ Head(queue).id = i /\ view'[i] = Head(queue).ver
         \/ Applies /\ ~menu.query /\ Says(Coming, i, 1) /\ view'[i] = Coming[1].ver
         \/ MemberStep(i) /\ latest[i] = left.versions[i] /\ view'[i] = left.rows[i]
<1>0. view \in [Id -> Version]
  BY DEF Typed, TypedLoop
<1>1. CASE Applies
  <2>1. PICK then : ApplyListen(Coming[1], then)
    BY <1>1, AppliesFirst
  <2>2. Coming[1].is = "listen"
    BY <1>1, AppliesFirst
  <2>3. \/ view' = view
        \/ view' = [view EXCEPT ![Coming[1].id] = 0]
        \/ ~menu.query /\ view' = [view EXCEPT ![Coming[1].id] = Coming[1].ver]
    BY <2>1 DEF ApplyListen
  <2> QED
    BY <1>0, <1>1, <2>2, <2>3 DEF Says
<1>2. CASE TakeRow
  BY <1>0, <1>2 DEF TakeRow
<1>3. ASSUME NEW j \in Id, MemberStep(j)
      PROVE  view'[i] = view[i] \/ (i = j /\ latest[i] = left.versions[i] /\ view'[i] = left.rows[i])
  BY <1>0, <1>3 DEF MemberStep
<1>4. ASSUME NEW j \in Id, SweepStep(j)
      PROVE  view'[i] = view[i] \/ view'[i] = 0
  BY <1>0, <1>4 DEF SweepStep
<1>5. CASE ~Applies /\ ~TakeRow /\ (\A j \in Id : ~MemberStep(j)) /\ \A j \in Id : ~SweepStep(j)
  BY <1>5, StepNames DEF Write, Remove, Slip, Announce, PrintRow, ServePrint, PrintDone, ServeMember,
    MemberDone, ServeSweep, SweepDone, SweepTimer, Stop, Abandon, CommandFails, CommandEnds,
    TakeListen, Applies, TakeDone, TakeMember, TakeSweepStart, TakeSweep, TakeEnd, Batch, Posting,
    Halting, ReplayEnd, BatchEnd, Finish, PostSync, PostSweep, PostNothing, PostMember, loop
<1> QED
  BY <1>1, <1>2, <1>3, <1>4, <1>5

-----------------------------------------------------------------------------
(* While a .dead stays the last word on its id, what is buried stays so.   *)
LEMMA FinalKept ==
  ASSUME Typed, FollowNext, NEW i \in Id, Final(table, news, i)
  PROVE  Final(table', news', i)
<1>1. table \in [Id -> 0..Gone] /\ news \subseteq Id
  BY DEF Typed, TypedRouter
<1>2. ASSUME NEW j \in Id, Write(j) \/ Remove(j) \/ Slip(j) \/ Announce(j)
      PROVE  Final(table', news', i)
  <2>1. CASE Write(j)
    BY <1>1, <2>1 DEF Write, Final
  <2>2. CASE Remove(j)
    BY <1>1, <2>2 DEF Remove, Here, Final
  <2>3. CASE Slip(j)
    BY <2>3 DEF Slip, Final
  <2>4. CASE Announce(j)
    BY <2>4 DEF Announce, Final
  <2> QED
    BY <1>2, <2>1, <2>2, <2>3, <2>4
<1>3. CASE \A j \in Id : ~Write(j) /\ ~Remove(j) /\ ~Slip(j) /\ ~Announce(j)
  <2>1. UNCHANGED <<table, news>>
    BY <1>3, StepNames DEF PrintRow, ServePrint, PrintDone, ServeMember,
      MemberDone, ServeSweep, SweepDone, SweepTimer, Stop, Abandon, CommandFails, CommandEnds,
      TakeListen, TakeRow, TakeDone, TakeMember, TakeSweepStart, TakeSweep, TakeEnd, Taking, Batch,
      Posting, MemberStep, SweepStep, Halting, ReplayStep, ReplayEnd, BatchEnd, Finish, PostSync,
      PostSweep, PostNothing, PostMember, router
  <2> QED
    BY <2>1 DEF Final
<1> QED
  BY <1>2, <1>3

LEMMA LatestSteps ==
  ASSUME Typed, Control, FollowNext, NEW i \in Id, ~Announce(i)
  PROVE  latest'[i] = latest[i] \/ latest'[i] = 0
<1>0. latest \in [Id -> 0..version]
  BY DEF Typed, TypedTaps
<1>1. CASE Applies
  <2>1. PICK then : ApplyListen(Coming[1], then)
    BY <1>1, AppliesFirst
  <2>2. latest' = latest \/ latest' = [latest EXCEPT ![Coming[1].id] = 0]
    BY <2>1 DEF ApplyListen, Forget
  <2> QED
    BY <1>0, <2>2
<1>2. ASSUME NEW j \in Id, Announce(j)
      PROVE  latest'[i] = latest[i]
  BY <1>0, <1>2 DEF Announce
<1>3. ASSUME NEW j \in Id, MemberStep(j)
      PROVE  latest'[i] = latest[i] \/ latest'[i] = 0
  BY <1>0, <1>3 DEF MemberStep
<1>4. CASE ~Applies /\ \A j \in Id : ~Announce(j) /\ ~MemberStep(j)
  BY <1>4, StepNames DEF Write, Remove, Slip, PrintRow, ServePrint, PrintDone, ServeMember,
    MemberDone, ServeSweep, SweepDone, SweepTimer, Stop, Abandon, CommandFails, CommandEnds,
    TakeListen, Applies, TakeRow, TakeDone, TakeMember, TakeSweepStart, TakeSweep, TakeEnd, Batch, Posting,
    SweepStep, Halting, ReplayEnd, BatchEnd, Finish, PostSync, PostSweep, PostNothing, PostMember,
    loop, taps
<1> QED
  BY <1>1, <1>2, <1>3, <1>4

LEMMA BuriedSteps ==
  ASSUME Typed, Control, FollowNext, NEW i \in buried'
  PROVE  \/ i \in buried
         \/ /\ Applies /\ Coming[1].id = i /\ Coming[1].ver = Gone
            /\ view'[i] = 0 /\ latest'[i] = 0
<1>1. CASE Applies
  <2>1. PICK then : ApplyListen(Coming[1], then)
    BY <1>1, AppliesFirst
  <2>2. CASE buried' = buried
    BY <2>2
  <2>3. CASE Dead(Coming[1]) /\ Forget(Coming[1].id) /\ buried' = buried \cup {Coming[1].id}
             /\ view' = [view EXCEPT ![Coming[1].id] = 0]
    <3>1. view \in [Id -> Version] /\ latest \in [Id -> 0..version] /\ Coming[1].id \in Id
      BY <1>1, AppliesFirst DEF Typed, TypedLoop, TypedTaps, Listen
    <3> QED
      BY <1>1, <2>3, <3>1 DEF Dead, Forget
  <2> QED
    BY <2>1, <2>2, <2>3 DEF ApplyListen
<1>2. CASE ~Applies
  BY <1>2, StepNames DEF Write, Remove, Slip, Announce, PrintRow, ServePrint, PrintDone, ServeMember,
    MemberDone, ServeSweep, SweepDone, SweepTimer, Stop, Abandon, CommandFails, CommandEnds,
    TakeListen, Applies, TakeRow, TakeDone, TakeMember, TakeSweepStart, TakeSweep, TakeEnd, Batch, Posting,
    MemberStep, SweepStep, Halting, ReplayEnd, BatchEnd, Finish, PostSync, PostSweep, PostNothing,
    PostMember, loop
<1> QED
  BY <1>1, <1>2

LEMMA LastWordStep ==
  ASSUME Typed, Typed', Control, LastWord, FollowNext
  PROVE  LastWord'
<1>0. /\ buried \subseteq Id
      /\ Len(Coming) \in Nat /\ Len(Coming') \in Nat
      /\ \A p \in 1..Len(Coming) : Coming[p].is = "listen" => Coming[p].id \in Id
  <2>1. Len(Coming) \in Nat /\ Len(Coming') \in Nat
    BY BackTyped, BackTypedNext, Joins DEF Coming
  <2>2. \A p \in 1..Len(Coming) : Coming[p].is = "listen" => Coming[p] \in Listen
    BY BackTyped, Joins DEF Coming
  <2> QED
    BY <2>1, <2>2 DEF Listen, Typed, TypedLoop
<1>1. ASSUME NEW i \in Id, Announce(i)
      PROVE  LastWord'
  <2>1. PICK e \in Listen :
           /\ e.is = "listen" /\ e.id = i /\ e.ver = table[i]
           /\ menu.query => e.at = version + 1
           /\ Len(Coming) \in Nat /\ Len(Coming') \in Nat /\ Len(Coming) <= Len(Coming')
           /\ \A p \in 1..Len(Coming) : p \in 1..Len(Coming') /\ Coming'[p] = Coming[p]
           /\ \A p \in 1..Len(Coming') :
                \/ p \in 1..Len(Coming)
                \/ p = Len(Coming) + 1 /\ Coming'[p] = e /\ draining
           /\ aborted' # TRUE /\ draining => Len(Coming) + 1 \in 1..Len(Coming')
    BY <1>1, ComingJoined
  <2>2. /\ i \in news /\ news' = news \ {i} /\ UNCHANGED <<table, view, buried>>
        /\ \A j \in Id : j # i => latest'[j] = latest[j]
    BY <1>1 DEF Announce, loop, Typed, TypedTaps
  <2>3. \A j \in Id : Final(table, news, j) => j # i
    BY <2>2 DEF Final
  <2>4. ASSUME NEW j \in buried
        PROVE  /\ Final(table', news', j) /\ view'[j] = 0 /\ latest'[j] = 0
               /\ \A p \in 1..Len(Coming') : ~Says(Coming', j, p)
    <3>1. /\ j \in Id /\ Final(table, news, j) /\ view[j] = 0 /\ latest[j] = 0
          /\ \A p \in 1..Len(Coming) : ~Says(Coming, j, p)
      BY <1>0 DEF LastWord
    <3>2. j # i
      BY <2>3, <3>1
    <3>3. \A p \in 1..Len(Coming') : ~Says(Coming', j, p)
      BY <2>1, <3>1, <3>2 DEF Says
    <3> QED
      BY <2>2, <3>1, <3>2, <3>3, FinalKept
  <2>5. ASSUME NEW p \in 1..Len(Coming'), Coming'[p].is = "listen", Coming'[p].ver = Gone
        PROVE  /\ Final(table', news', Coming'[p].id)
               /\ \A q \in 1..Len(Coming') : q > p => ~Says(Coming', Coming'[p].id, q)
    <3>1. CASE p \in 1..Len(Coming)
      <4>1. /\ Coming'[p] = Coming[p] /\ Coming[p].id \in Id
            /\ Final(table, news, Coming[p].id)
            /\ \A q \in 1..Len(Coming) : q > p => ~Says(Coming, Coming[p].id, q)
        BY <1>0, <2>1, <2>5, <3>1 DEF LastWord
      <4>2. Coming[p].id # i /\ Final(table', news', Coming[p].id)
        BY <2>3, <4>1, FinalKept
      <4>3. \A q \in 1..Len(Coming') : q > p => ~Says(Coming', Coming[p].id, q)
        BY <2>1, <4>1, <4>2 DEF Says
      <4> QED
        BY <4>1, <4>2, <4>3
    <3>2. CASE p = Len(Coming) + 1 /\ Coming'[p] = e
      <4>1. Final(table', news', i)
        BY <2>1, <2>2, <2>5, <3>2 DEF Final
      <4>2. \A q \in 1..Len(Coming') : ~(q > p)
        BY <2>1, <3>2
      <4> QED
        BY <2>1, <3>2, <4>1, <4>2
    <3> QED
      BY <2>1, <3>1, <3>2
  <2> QED
    BY <2>2, <2>4, <2>5 DEF LastWord
<1>2. CASE \A i \in Id : ~Announce(i)
  <2>1. PICK f : Kept(Coming, Coming', f) /\ (Applies => \A p \in 1..Len(Coming') : f[p] > 1)
    BY <1>2, ComingKept
  <2>2. \A p \in 1..Len(Coming') : Coming'[p].is = "listen" =>
          f[p] \in 1..Len(Coming) /\ Coming'[p] = Coming[f[p]]
    BY <2>1 DEF Kept
  <2>3. ASSUME NEW p \in 1..Len(Coming'), Coming'[p].is = "listen", Coming'[p].ver = Gone
        PROVE  /\ Final(table', news', Coming'[p].id)
               /\ \A q \in 1..Len(Coming') : q > p => ~Says(Coming', Coming'[p].id, q)
    <3>1. /\ f[p] \in 1..Len(Coming) /\ Coming'[p] = Coming[f[p]] /\ Coming[f[p]].id \in Id
          /\ Final(table, news, Coming[f[p]].id)
          /\ \A q \in 1..Len(Coming) : q > f[p] => ~Says(Coming, Coming[f[p]].id, q)
      BY <1>0, <2>2, <2>3 DEF LastWord
    <3>2. ASSUME NEW q \in 1..Len(Coming'), q > p, Says(Coming', Coming'[p].id, q)
          PROVE  FALSE
      <4>1. f[p] < f[q] /\ f[q] \in 1..Len(Coming) /\ Coming'[q] = Coming[f[q]]
        BY <2>1, <2>3, <3>2 DEF Kept, Says
      <4>2. Says(Coming, Coming[f[p]].id, f[q])
        BY <3>1, <3>2, <4>1 DEF Says
      <4> QED
        BY <3>1, <4>1, <4>2
    <3> QED
      BY <3>1, <3>2, FinalKept
  <2>4. ASSUME NEW j \in buried
        PROVE  /\ Final(table', news', j) /\ view'[j] = 0 /\ latest'[j] = 0
               /\ \A p \in 1..Len(Coming') : ~Says(Coming', j, p)
    <3>1. /\ j \in Id /\ Final(table, news, j) /\ view[j] = 0 /\ latest[j] = 0
          /\ \A p \in 1..Len(Coming) : ~Says(Coming, j, p)
      BY <1>0 DEF LastWord
    <3>2. Final(table', news', j)
      BY <3>1, FinalKept
    <3>3. \A p \in 1..Len(Coming') : ~Says(Coming', j, p)
      BY <2>2, <3>1 DEF Says
    <3>4. latest'[j] = 0
      BY <1>2, <3>1, LatestSteps
    <3>5. view'[j] = 0
      <4>1. ~TakeRow
        <5>1. TakeRow => Has(queue, "row")
          BY Taken DEF TakeRow, Typed, Has
        <5>2. complete
          BY DEF Control, Printing
        <5> QED
          BY <5>1, <5>2 DEF Control, Printing
      <4>2. ~(Applies /\ Says(Coming, j, 1))
        BY <1>0, <3>1, AppliesFirst
      <4>3. ~(MemberStep(j) /\ latest[j] = left.versions[j])
        BY <3>1, AskedByStep
      <4> QED
        BY <3>1, <4>1, <4>2, <4>3, ViewSteps
    <3> QED
      BY <3>2, <3>3, <3>4, <3>5
  <2>5. ASSUME NEW j \in buried', j \notin buried
        PROVE  /\ Final(table', news', j) /\ view'[j] = 0 /\ latest'[j] = 0
               /\ \A p \in 1..Len(Coming') : ~Says(Coming', j, p)
    <3>1. Applies /\ Coming[1].id = j /\ Coming[1].ver = Gone /\ view'[j] = 0 /\ latest'[j] = 0
      BY <2>5, BuriedSteps
    <3>2. 1 \in 1..Len(Coming) /\ Coming[1].is = "listen"
      BY <1>0, <3>1, AppliesFirst
    <3>3. /\ j \in Id /\ Final(table, news, j)
          /\ \A q \in 1..Len(Coming) : q > 1 => ~Says(Coming, j, q)
      BY <1>0, <3>1, <3>2 DEF LastWord
    <3>4. Final(table', news', j)
      BY <3>3, FinalKept
    <3>5. \A p \in 1..Len(Coming') : ~Says(Coming', j, p)
      BY <2>1, <2>2, <3>1, <3>3 DEF Says
    <3> QED
      BY <3>1, <3>4, <3>5
  <2> QED
    BY <2>3, <2>4, <2>5 DEF LastWord
<1> QED
  BY <1>1, <1>2

LEMMA LastWordStarts == FollowInit => LastWord
<1> SUFFICES ASSUME FollowInit
    PROVE  LastWord
  OBVIOUS
<1>1. Coming = <<>> /\ buried = {}
  BY DEF FollowInit, Coming, Back
<1> QED
  BY <1>1 DEF LastWord

LEMMA LastWordSame ==
  ASSUME LastWord, UNCHANGED followVars
  PROVE  LastWord'
<1>1. UNCHANGED <<table, news, queue, latest, pc, left, pending, view, buried>>
  BY DEF followVars, router, taps, loop
<1>2. Coming' = Coming
  BY <1>1 DEF Coming, Back
<1> QED
  BY <1>1, <1>2 DEF LastWord

(* Once its .dead was applied, no late answer brings a row back
   (NoResurrection): its version is forgotten, so an answer that is still under
   way is out of date, and the listen has no more to say about it.          *)
THEOREM FollowBuriesForGood == FollowSpec => []NoResurrection
<1>1. LastWord => NoResurrection
  BY DEF LastWord, NoResurrection
<1>2. ASSUME Typed, Control, LastWord, [FollowNext]_followVars
      PROVE  LastWord'
  <2>1. CASE UNCHANGED followVars
    BY <1>2, <2>1, LastWordSame
  <2>2. CASE FollowNext
    BY <1>2, <2>2, TypedStep, LastWordStep
  <2> QED
    BY <1>2, <2>1, <2>2
<1>3. FollowSpec => [](Typed /\ Control /\ LastWord)
  BY <1>2, TypedStarts, TypedStep, ControlStarts, ControlStep, LastWordStarts, PTL DEF FollowSpec
<1> QED
  BY <1>1, <1>3, PTL

-----------------------------------------------------------------------------
(* The numbers of the listen replies only grow.                            *)
LEMMA NewerKept ==
  ASSUME NEW S, NEW R, NEW f, Kept(S, R, f), Len(S) \in Nat, Len(R) \in Nat,
         NEW i, NEW asks \in SUBSET Nat, NEW fewer \in SUBSET asks,
         NEW d \in Nat, NEW l \in Nat, NEW v \in Nat, NEW w \in Nat, v <= w,
         Newer(S, i, asks, d, l, v)
  PROVE  Newer(R, i, fewer, d, l, w)
<1>1. ASSUME NEW q \in 1..Len(R), Says(R, i, q)
      PROVE  f[q] \in 1..Len(S) /\ R[q] = S[f[q]] /\ Says(S, i, f[q])
  BY <1>1 DEF Kept, Says
<1>2. ASSUME NEW q \in 1..Len(R), Says(R, i, q), NEW p \in 1..q - 1, Says(R, i, p)
      PROVE  R[p].at < R[q].at
  <2>1. p \in 1..Len(R) /\ p < q
    OBVIOUS
  <2>2. f[p] < f[q]
    BY <1>2, <2>1 DEF Kept, Says
  <2>3. /\ f[q] \in 1..Len(S) /\ R[q] = S[f[q]] /\ Says(S, i, f[q])
        /\ f[p] \in 1..Len(S) /\ R[p] = S[f[p]] /\ Says(S, i, f[p])
    BY <1>1, <1>2, <2>1
  <2>4. f[p] \in 1..f[q] - 1
    BY <2>2, <2>3
  <2> QED
    BY <2>3, <2>4 DEF Newer
<1>3. ASSUME NEW q \in 1..Len(R), Says(R, i, q)
      PROVE  R[q].at \in 1..l /\ d < R[q].at /\ \A n \in fewer : n < R[q].at
  BY <1>1, <1>3 DEF Newer
<1>4. d <= l /\ (d # 0 => \A n \in fewer : n < d)
  BY DEF Newer
<1>5. ASSUME NEW n \in fewer
      PROVE  n <= w
  <2>1. n \in Nat /\ n <= v
    BY DEF Newer
  <2> QED
    BY <2>1
<1> QED
  BY <1>2, <1>3, <1>4, <1>5 DEF Newer

LEMMA FreshStep ==
  ASSUME Typed, Typed', Control, LastWord, Fresh, FollowNext
  PROVE  Fresh'
<1> SUFFICES ASSUME menu.query, NEW j \in Id
             PROVE  Newer(Coming', j, Asked'[j], dirty'[j], latest'[j], version')
  BY RouterUnchanged DEF Fresh
<1>0. /\ dirty[j] \in Nat /\ dirty'[j] \in Nat /\ latest[j] \in 0..version /\ latest'[j] \in 0..version'
      /\ version \in Nat /\ version' \in Nat
      /\ Asked[j] \in SUBSET Nat /\ Asked'[j] \in SUBSET Nat
      /\ Len(Coming) \in Nat /\ Len(Coming') \in Nat
      /\ Newer(Coming, j, Asked[j], dirty[j], latest[j], version)
  <2>1. Asked[j] \in SUBSET Nat /\ Asked'[j] \in SUBSET Nat
    BY DEF Asked
  <2>2. Len(Coming) \in Nat /\ Len(Coming') \in Nat
    BY BackTyped, BackTypedNext, Joins DEF Coming
  <2> QED
    BY <2>1, <2>2 DEF Typed, TypedTaps, TypedLoop, Fresh
<1>1. ASSUME \A i \in Id : ~Announce(i), UNCHANGED <<version>>, dirty'[j] = dirty[j],
             latest'[j] = latest[j], Asked'[j] \subseteq Asked[j]
      PROVE  Newer(Coming', j, Asked'[j], dirty'[j], latest'[j], version')
  <2>1. PICK f : Kept(Coming, Coming', f)
    BY <1>1, ComingKept
  <2>2. /\ latest[j] \in Nat /\ Asked[j] \in SUBSET Nat /\ Asked'[j] \in SUBSET Asked[j]
        /\ version <= version'
    BY <1>0, <1>1
  <2> QED
    BY <1>0, <1>1, <2>1, <2>2, NewerKept
<1>2. ASSUME NEW i \in Id, Announce(i)
      PROVE  Newer(Coming', j, Asked'[j], dirty'[j], latest'[j], version')
  <2>1. PICK e \in Listen :
           /\ e.is = "listen" /\ e.id = i /\ e.ver = table[i]
           /\ menu.query => e.at = version + 1
           /\ Len(Coming) \in Nat /\ Len(Coming') \in Nat /\ Len(Coming) <= Len(Coming')
           /\ \A p \in 1..Len(Coming) : p \in 1..Len(Coming') /\ Coming'[p] = Coming[p]
           /\ \A p \in 1..Len(Coming') :
                \/ p \in 1..Len(Coming)
                \/ p = Len(Coming) + 1 /\ Coming'[p] = e /\ draining
           /\ aborted' # TRUE /\ draining => Len(Coming) + 1 \in 1..Len(Coming')
    BY <1>2, ComingJoined
  <2>2. Asked'[j] \subseteq Asked[j]
    <3>1. pc' # "take" \/ pc = "take"
      BY <1>2 DEF Announce
    <3>2. \A k \in Id : ~MemberStep(k)
      BY <1>2 DEF Announce, MemberStep, Batch, router
    <3>3. \A batch \in SUBSET Id : ~PostMember(batch)
      BY <1>2, <3>1 DEF PostMember, Posting
    <3> QED
      BY <3>2, <3>3, AskedElse
  <2>3. /\ dirty'[j] = dirty[j] /\ version <= version'
        /\ j # i => latest'[j] = latest[j]
        /\ draining => version' = version + 1 /\ latest'[i] = version + 1
        /\ latest[j] <= latest'[j]
    BY <1>0, <1>2 DEF Announce, loop, Typed, TypedTaps
  <2>4. ASSUME NEW q \in 1..Len(Coming'), Says(Coming', j, q)
        PROVE  /\ Coming'[q].at \in 1..latest'[j] /\ dirty'[j] < Coming'[q].at
               /\ \A n \in Asked'[j] : n < Coming'[q].at
               /\ \A p \in 1..q - 1 : Says(Coming', j, p) => Coming'[p].at < Coming'[q].at
    <3>1. CASE q \in 1..Len(Coming)
      <4>1. Coming'[q] = Coming[q] /\ Says(Coming, j, q)
        BY <2>1, <2>4, <3>1 DEF Says
      <4>2. /\ Coming[q].at \in 1..latest[j] /\ dirty[j] < Coming[q].at
            /\ \A n \in Asked[j] : n < Coming[q].at
            /\ \A p \in 1..q - 1 : Says(Coming, j, p) => Coming[p].at < Coming[q].at
        BY <1>0, <3>1, <4>1 DEF Newer
      <4>3. \A p \in 1..q - 1 : p \in 1..Len(Coming) /\ Coming'[p] = Coming[p]
        BY <1>0, <2>1, <3>1
      <4>4. Coming[q].at \in 1..latest'[j]
        BY <1>0, <2>3, <4>2
      <4> QED
        BY <2>2, <2>3, <4>1, <4>2, <4>3, <4>4 DEF Says
    <3>2. CASE q = Len(Coming) + 1 /\ Coming'[q] = e /\ draining
      <4>1. j = i /\ e.at = version + 1 /\ latest'[j] = version + 1
        BY <2>1, <2>3, <2>4, <3>2 DEF Says
      <4>2. dirty[j] < version + 1 /\ version + 1 \in 1..version + 1
        BY <1>0 DEF Newer
      <4>3. \A n \in Asked'[j] : n < version + 1
        <5>1. \A n \in Asked'[j] : n \in Nat /\ n <= version
          BY <1>0, <2>2 DEF Newer
        <5> QED
          BY <1>0, <5>1
      <4>4. ASSUME NEW p \in 1..q - 1, Says(Coming', j, p)
            PROVE  Coming'[p].at < version + 1
        <5>1. p \in 1..Len(Coming) /\ Coming'[p] = Coming[p]
          BY <1>0, <2>1, <3>2
        <5>2. Coming[p].at \in 1..latest[j]
          BY <1>0, <4>4, <5>1 DEF Newer, Says
        <5> QED
          BY <1>0, <5>1, <5>2
      <4> QED
        BY <2>3, <3>2, <4>1, <4>2, <4>3, <4>4
    <3> QED
      BY <2>1, <3>1, <3>2
  <2>5. dirty'[j] <= latest'[j] /\ (dirty'[j] # 0 => \A n \in Asked'[j] : n < dirty'[j])
    BY <1>0, <2>2, <2>3 DEF Newer
  <2>6. ASSUME NEW n \in Asked'[j]
        PROVE  n <= version'
    <3>1. n \in Nat /\ n <= version
      BY <1>0, <2>2 DEF Newer
    <3> QED
      BY <1>0, <2>3, <3>1
  <2> QED
    BY <2>4, <2>5, <2>6 DEF Newer
<1>3. CASE Applies
  <2>1. PICK then : ApplyListen(Coming[1], then)
    BY <1>3, AppliesFirst
  <2> DEFINE e == Coming[1]
  <2>2. /\ 1 \in 1..Len(Coming) /\ e \in Listen /\ e.is = "listen" /\ e.id \in Id /\ e.at \in Nat
        /\ UNCHANGED version
    BY <1>0, <1>3, AppliesFirst DEF Listen
  <2>3. Asked'[j] \subseteq Asked[j]
    <3>1. (\A k \in Id : ~MemberStep(k)) /\ \A batch \in SUBSET Id : ~PostMember(batch)
      BY <1>3 DEF Applies, ReplayStep, TakeListen, Taking, MemberStep, PostMember, Posting, Batch
    <3> QED
      BY <3>1, AskedElse
  <2>4. PICK f : Kept(Coming, Coming', f) /\ \A p \in 1..Len(Coming') : f[p] > 1
    <3>1. \A k \in Id : ~Announce(k)
      BY <1>3 DEF Applies, ReplayStep, TakeListen, Taking, Announce, Batch, ApplyListen, Tell, router
    <3> QED
      BY <1>3, <3>1, ComingKept
  <2> HIDE DEF e
  <2>5. CASE dirty'[j] = dirty[j] /\ latest'[j] = latest[j]
    <3>1. latest[j] \in Nat /\ Asked[j] \in SUBSET Nat /\ Asked'[j] \in SUBSET Asked[j] /\ version <= version'
      BY <1>0, <2>2, <2>3
    <3> QED
      BY <1>0, <2>4, <2>5, <3>1, NewerKept
  <2>6. CASE j = e.id /\ ~Stale(e) /\ ~Dead(e)
    <3>1. dirty'[j] = e.at /\ latest'[j] = latest[j] /\ e.at = latest[j]
      BY <2>1, <2>6 DEF ApplyListen, Stale, Typed, TypedLoop, e
    <3>2. Says(Coming, j, 1)
      BY <2>2, <2>6 DEF Says, e
    <3>3. e.at \in 1..latest[j] /\ \A n \in Asked[j] : n < e.at
      BY <1>0, <2>2, <3>2 DEF Newer, e
    <3>4. ASSUME NEW q \in 1..Len(Coming'), Says(Coming', j, q)
          PROVE  e.at < Coming'[q].at
      <4>1. f[q] \in 1..Len(Coming) /\ Coming'[q] = Coming[f[q]] /\ f[q] > 1
        BY <2>4, <3>4 DEF Kept, Says
      <4>2. 1 \in 1..f[q] - 1 /\ Says(Coming, j, f[q])
        BY <1>0, <3>4, <4>1 DEF Says
      <4> QED
        BY <1>0, <3>2, <4>1, <4>2 DEF Newer, e
    <3>5. Newer(Coming', j, Asked'[j], dirty[j], latest[j], version')
      <4>1. latest[j] \in Nat /\ Asked[j] \in SUBSET Nat /\ Asked'[j] \in SUBSET Asked[j] /\ version <= version'
        BY <1>0, <2>2, <2>3
      <4> QED
        BY <1>0, <2>4, <4>1, NewerKept
    <3> QED
      BY <2>3, <3>1, <3>3, <3>4, <3>5 DEF Newer
  <2>7. CASE j = e.id /\ ~Stale(e) /\ Dead(e)
    <3>1. dirty'[j] = 0 /\ latest'[j] = 0
      <4>1. Forget(e.id)
        BY <2>1, <2>7 DEF ApplyListen, e
      <4> QED
        BY <2>7, <4>1 DEF Forget, Typed, TypedLoop, TypedTaps
    <3>2. ASSUME NEW q \in 1..Len(Coming')
          PROVE  ~Says(Coming', j, q)
      <4>1. Coming'[q].is = "listen" => /\ f[q] \in 1..Len(Coming) /\ Coming'[q] = Coming[f[q]]
                                        /\ f[q] > 1
        BY <2>4 DEF Kept
      <4>2. \A p \in 1..Len(Coming) : p > 1 => ~Says(Coming, j, p)
        BY <2>2, <2>7 DEF LastWord, Dead, e
      <4> QED
        BY <4>1, <4>2 DEF Says
    <3>3. \A n \in Asked'[j] : n <= version'
      BY <1>0, <2>2, <2>3 DEF Newer
    <3> QED
      BY <3>1, <3>2, <3>3 DEF Newer
  <2> QED
    <3>1. \/ dirty' = dirty /\ latest' = latest
          \/ dirty' = [dirty EXCEPT ![e.id] = e.at] /\ latest' = latest /\ ~Stale(e) /\ ~Dead(e)
          \/ Forget(e.id) /\ ~Stale(e) /\ Dead(e)
      BY <2>1 DEF ApplyListen, e
    <3>2. j # e.id => dirty'[j] = dirty[j] /\ latest'[j] = latest[j]
      BY <3>1 DEF Forget, Typed, TypedLoop, TypedTaps
    <3> QED
      BY <2>5, <2>6, <2>7, <3>1, <3>2
<1>4. ASSUME NEW i \in Id, MemberStep(i)
      PROVE  Newer(Coming', j, Asked'[j], dirty'[j], latest'[j], version')
  <2>1. /\ \A k \in Id : ~Announce(k)
        /\ UNCHANGED <<version, dirty>>
        /\ latest' = latest \/ (latest[i] = left.versions[i] /\ latest' = [latest EXCEPT ![i] = 0])
    BY <1>4 DEF MemberStep, Announce, Batch, router
  <2>2. Asked'[j] \subseteq Asked[j]
    BY <1>4, AskedByStep
  <2>3. CASE latest'[j] = latest[j]
    BY <1>1, <2>1, <2>2, <2>3
  <2>4. CASE j = i /\ latest[i] = left.versions[i] /\ latest'[j] = 0
    <3>1. latest[j] \in Asked[j] /\ latest[j] # 0
      BY <1>4, <2>4, AskedByStep
    <3>2. dirty[j] = 0
      BY <1>0, <3>1 DEF Newer
    <3>3. \A q \in 1..Len(Coming) : ~Says(Coming, j, q)
      BY <1>0, <3>1 DEF Newer
    <3>4. PICK f : Kept(Coming, Coming', f)
      BY <2>1, ComingKept
    <3>5. \A q \in 1..Len(Coming') : ~Says(Coming', j, q)
      BY <3>3, <3>4 DEF Kept, Says
    <3>6. \A n \in Asked'[j] : n <= version'
      BY <1>0, <2>1, <2>2 DEF Newer
    <3> QED
      BY <2>1, <2>4, <3>2, <3>5, <3>6 DEF Newer
  <2>5. latest'[j] = latest[j] \/ (j = i /\ latest[i] = left.versions[i] /\ latest'[j] = 0)
    BY <2>1 DEF Typed, TypedTaps
  <2> QED
    BY <2>3, <2>4, <2>5
<1>5. ASSUME NEW batch \in SUBSET Id, PostMember(batch)
      PROVE  Newer(Coming', j, Asked'[j], dirty'[j], latest'[j], version')
  <2>1. /\ Asked[j] = {} /\ \A n : n \in Asked'[j] <=> j \in batch /\ n = dirty[j]
        /\ dirty'[j] = IF j \in batch THEN 0 ELSE dirty[j]
        /\ UNCHANGED <<latest, version>>
    BY <1>5, AskedByMember DEF PostMember, Posting
  <2>2. Coming' = Coming
    BY <1>5 DEF PostMember, Posting, Coming, Back
  <2>3. \A q \in 1..Len(Coming') : Says(Coming', j, q) =>
         /\ Coming'[q].at \in 1..latest'[j] /\ dirty'[j] < Coming'[q].at
         /\ \A n \in Asked'[j] : n < Coming'[q].at
         /\ \A p \in 1..q - 1 : Says(Coming', j, p) => Coming'[p].at < Coming'[q].at
    BY <1>0, <2>1, <2>2 DEF Newer
  <2>4. /\ dirty'[j] <= latest'[j]
        /\ dirty'[j] # 0 => \A n \in Asked'[j] : n < dirty'[j]
        /\ \A n \in Asked'[j] : n <= version'
    BY <1>0, <2>1 DEF Newer
  <2> QED
    BY <2>3, <2>4 DEF Newer
<1>6. ASSUME ~Applies, \A i \in Id : ~Announce(i) /\ ~MemberStep(i),
             \A batch \in SUBSET Id : ~PostMember(batch)
      PROVE  Newer(Coming', j, Asked'[j], dirty'[j], latest'[j], version')
  <2>1. UNCHANGED <<version, dirty, latest>>
    BY <1>6, StepNames DEF Write, Remove, Slip, PrintRow, SweepStep, ServePrint, PrintDone, ServeMember,
      MemberDone, ServeSweep, SweepDone, SweepTimer, Stop, Abandon, CommandFails, CommandEnds,
      TakeListen, Applies, TakeRow, TakeDone, TakeMember, TakeSweepStart, TakeSweep, TakeEnd, Taking,
      Batch, Posting, Halting, ReplayEnd, BatchEnd, Finish, PostSync, PostSweep, PostNothing, taps, loop
  <2>2. Asked'[j] \subseteq Asked[j]
    <3>1. CASE MemberDone \/ TakeMember
      BY <3>1, AskedByAnswer
    <3>2. CASE ~MemberDone /\ ~TakeMember
      BY <1>6, <3>2, AskedElse
    <3> QED
      BY <3>1, <3>2
  <2> QED
    BY <1>1, <1>6, <2>1, <2>2
<1> QED
  BY <1>2, <1>3, <1>4, <1>5, <1>6

LEMMA FreshStarts == FollowInit => Sized /\ LastWord /\ Fresh
<1> SUFFICES ASSUME FollowInit
    PROVE  Sized /\ LastWord /\ Fresh
  OBVIOUS
<1>1. LastWord
  BY LastWordStarts
<1>2. run["member"] = "off" /\ queue = <<>> /\ pc = "take" /\ asked = 0 /\ Back = <<>>
  BY Commands DEF FollowInit, Back
<1>3. Sized
  BY <1>2, FollowConstants DEF Sized, Under
<1>4. Coming = <<>> /\ \A i \in Id : Asked[i] = {}
  BY <1>2 DEF Coming, Asked, Under
<1>5. \A i \in Id : dirty[i] = 0 /\ latest[i] = 0
  BY DEF FollowInit, Zero
<1>6. Fresh
  BY <1>4, <1>5 DEF Fresh, Newer
<1> QED
  BY <1>1, <1>3, <1>6

(* The invariants that the types of the follow rest on.                    *)
Numbered == Typed /\ Control /\ Sized /\ LastWord /\ Fresh

LEMMA NumberedStep ==
  ASSUME Numbered, [FollowNext]_followVars
  PROVE  Numbered'
<1>1. Typed' /\ Control'
  BY TypedStep, ControlStep DEF Numbered
<1>2. CASE FollowNext
  BY <1>1, <1>2, SizedStep, LastWordStep, FreshStep DEF Numbered
<1>3. CASE UNCHANGED followVars
  <2>1. UNCHANGED <<menu, table, news, run, reply, queue, version, latest, pc, left, pending, view, dirty, asked, buried>>
    BY <1>3 DEF followVars, router, taps, loop
  <2>2. Back' = Back
    BY <2>1 DEF Back
  <2>3. Coming' = Coming
    BY <2>1, <2>2 DEF Coming
  <2>4. Asked' = Asked
    BY <2>1 DEF Asked, Under
  <2>5. Sized'
    BY <2>1 DEF Numbered, Sized, Under
  <2>6. LastWord'
    BY <1>3, LastWordSame DEF Numbered
  <2>7. Fresh'
    BY <2>1, <2>3, <2>4 DEF Numbered, Fresh
  <2> QED
    BY <1>1, <2>5, <2>6, <2>7 DEF Numbered
<1> QED
  BY <1>2, <1>3

LEMMA FollowNumbered == FollowSpec => []Numbered
<1>1. FollowInit => Numbered
  BY TypedStarts, ControlStarts, FreshStarts DEF Numbered
<1> QED
  BY <1>1, NumberedStep, PTL DEF FollowSpec

(* The types of the follow (FollowTypeOK): what waits for a membership read
   was announced and not overtaken, its size is what push counts, and synced
   is reported only after the snapshot and its bootstrap.                  *)
THEOREM FollowTypes == FollowSpec => []FollowTypeOK
<1>1. ASSUME Numbered
      PROVE  FollowTypeOK
  <2> USE <1>1 DEF Numbered
  <2>1. /\ menu \in Menus /\ menu.writes \in 0..MaxWrites /\ menu.count \in Nat
        /\ Gone - 1 = MaxWrites + 1 /\ MaxWrites \in Nat
    BY FollowConstants DEF Typed, TypedRouter, Gone
  <2>2. /\ table \in [Id -> 0..Gone] /\ sel \subseteq Id /\ news \subseteq Id
        /\ writes \in 0..MaxWrites
    BY <2>1 DEF Typed, TypedRouter
  <2>3. /\ run \in [Command -> {"off", "sent", "served", "over"}]
        /\ view \in [Id -> 0..Gone - 1] /\ latest \in [Id -> 0..version]
        /\ outcome \in {"none", "ok", "failed", "left"}
        /\ sweep \in {"idle", "set", "armed", "due", "running"}
    BY <2>1 DEF Typed, TypedWire, TypedTaps, TypedLoop, Version
  <2>4. Ids(dirty) # {} => menu.query
    BY DEF Control, Reading
  <2>5. \A i \in Id : dirty[i] # 0 => dirty[i] <= latest[i]
    <3>1. ASSUME NEW i \in Id, dirty[i] # 0
          PROVE  dirty[i] <= latest[i]
      <4>1. menu.query
        BY <2>4, <3>1 DEF Ids
      <4> QED
        BY <4>1 DEF Fresh, Newer
    <3> QED
      BY <3>1
  <2>6. asking => run["member"] # "off"
    BY DEF Control, Reading
  <2>7. asked <= BatchLimit /\ (pc = "member" => asked = Cardinality(left.ids))
    BY DEF Sized
  <2>8. synced => complete /\ (menu.query => boot = Zero)
    BY DEF Control, Printing
  <2>9. changes \in 0..menu.count
    BY <2>1 DEF Control, Telling, Typed, TypedLoop
  <2> QED
    BY <2>1, <2>2, <2>3, <2>4, <2>5, <2>6, <2>7, <2>8, <2>9 DEF FollowTypeOK
<1> QED
  BY <1>1, FollowNumbered, PTL

-----------------------------------------------------------------------------
(* A row's version only grows.                                             *)
LEMMA TableGrows ==
  ASSUME Typed, FollowNext, NEW i \in Id
  PROVE  table[i] \in Nat /\ table'[i] \in Nat /\ table[i] <= table'[i]
<1>1. /\ table \in [Id -> 0..Gone] /\ Gone \in Nat /\ Gone = MaxWrites + 2
      /\ writes \in Nat /\ writes <= MaxWrites /\ MaxWrites \in Nat /\ menu.writes <= MaxWrites
      /\ menu.writes \in Nat
      /\ \A j \in Id : table[j] <= writes + 1 \/ table[j] = Gone
  BY FollowConstants DEF Typed, TypedRouter, Gone
<1>2. ASSUME NEW j \in Id, Write(j)
      PROVE  table'[i] \in Nat /\ table[i] <= table'[i]
  <2>1. table' = [table EXCEPT ![j] = writes + 2] /\ table[j] # Gone
    BY <1>2 DEF Write
  <2>2. table'[i] = IF i = j THEN writes + 2 ELSE table[i]
    BY <1>1, <2>1
  <2>3. table[j] <= writes + 1
    BY <1>1, <2>1
  <2> QED
    BY <1>1, <2>2, <2>3
<1>3. ASSUME NEW j \in Id, Remove(j)
      PROVE  table'[i] \in Nat /\ table[i] <= table'[i]
  <2>1. table'[i] = IF i = j THEN Gone ELSE table[i]
    BY <1>1, <1>3 DEF Remove
  <2> QED
    BY <1>1, <2>1
<1>4. CASE \A j \in Id : ~Write(j) /\ ~Remove(j)
  <2>1. UNCHANGED table
    BY <1>4, StepNames DEF Slip, Announce, PrintRow, ServePrint, PrintDone, ServeMember,
      MemberDone, ServeSweep, SweepDone, SweepTimer, Stop, Abandon, CommandFails, CommandEnds,
      TakeListen, TakeRow, TakeDone, TakeMember, TakeSweepStart, TakeSweep, TakeEnd, Taking, Batch,
      Posting, MemberStep, SweepStep, Halting, ReplayStep, ReplayEnd, BatchEnd, Finish, PostSync,
      PostSweep, PostNothing, PostMember, router
  <2> QED
    BY <1>1, <2>1
<1> QED
  BY <1>1, <1>2, <1>3, <1>4

(* The rows of the print.                                                  *)
LEMMA ShotSteps ==
  ASSUME Typed, FollowNext, NEW i \in Id
  PROVE  \/ shot'[i] = shot[i]
         \/ shot'[i] = 0
         \/ ServePrint /\ shot'[i] = Rows[i]
<1>1. shot \in [Id -> Version]
  BY DEF Typed, TypedWire
<1>2. ASSUME NEW j \in Id, PrintRow(j)
      PROVE  shot'[i] = shot[i] \/ shot'[i] = 0
  BY <1>1, <1>2 DEF PrintRow
<1>3. CASE ~ServePrint /\ \A j \in Id : ~PrintRow(j)
  BY <1>3, StepNames DEF Write, Remove, Slip, Announce, PrintDone, ServeMember,
    MemberDone, ServeSweep, SweepDone, SweepTimer, Stop, Abandon, CommandFails, CommandEnds,
    TakeListen, TakeRow, TakeDone, TakeMember, TakeSweepStart, TakeSweep, TakeEnd, Taking, Batch,
    Posting, MemberStep, SweepStep, Halting, ReplayStep, ReplayEnd, BatchEnd, Finish, PostSync,
    PostSweep, PostNothing, PostMember
<1> QED
  BY <1>2, <1>3 DEF ServePrint

(* Which row a print's row event carries.                                  *)
LEMMA RowPrinted ==
  ASSUME Typed, NEW i \in Id, PrintRow(i), NEW p \in 1..Len(queue')
  PROVE  \/ p \in 1..Len(queue) /\ queue'[p] = queue[p]
         \/ p = Len(queue) + 1 /\ queue'[p] = [is |-> "row", id |-> i, ver |-> shot[i]]
<1>1. [is |-> "row", id |-> i, ver |-> shot[i]] \in Event
  BY EventIn DEF Typed, TypedWire, Row
<1> QED
  BY <1>1, Joined DEF PrintRow, Typed

LEMMA BackEvents ==
  ASSUME Typed, Control, FollowNext, NEW p \in 1..Len(Back')
  PROVE  \/ \E r \in 1..Len(Back) : Back'[p] = Back[r]
         \/ TakeListen /\ Len(queue) >= 1 /\ Back'[p] = queue[1] /\ queue[1].is = "listen"
<1>1. Back \in Seq(Listen) /\ Len(Back) \in Nat
  BY BackTyped
<1>2. CASE Back' = Back \/ Back' = <<>>
  BY <1>2
<1>3. CASE TakeListen /\ ~complete /\ Back' = Append(Back, Head(queue))
  <2>1. Len(queue) >= 1 /\ Head(queue) = queue[1] /\ queue[1].is = "listen" /\ queue[1] \in Listen
    BY <1>3, Taken, EventKinds DEF TakeListen, Typed
  <2> QED
    BY <1>1, <1>3, <2>1
<1>4. CASE ReplayStep
  <2>1. Back # <<>> /\ (Back' = Tail(Back) \/ Back' = <<>>)
    BY <1>4, BackReplayed
  <2>2. CASE Back' = Tail(Back)
    <3>1. Len(Back') = Len(Back) - 1 /\ Back'[p] = Back[p + 1]
      BY <1>1, <2>1, <2>2
    <3> QED
      BY <1>1, <3>1
  <2> QED
    BY <2>1, <2>2
<1> QED
  BY <1>2, <1>3, <1>4, BackSteps

LEMMA BoundedStep ==
  ASSUME Typed, Typed', Control, Bounded, Answered, FollowNext
  PROVE  Bounded'
<1>0. /\ view \in [Id -> Version] /\ view' \in [Id -> Version]
      /\ shot \in [Id -> Version] /\ shot' \in [Id -> Version]
      /\ \A n \in Version : n \in Nat
      /\ \A p \in 1..Len(queue) : queue[p] \in Event
      /\ Back \in Seq(Listen)
      /\ \A p \in 1..Len(Back) : Back[p] \in Listen
      /\ MaxWrites \in Nat /\ Gone \in Nat
  <2>1. \A n \in Version : n \in Nat
    BY FollowConstants DEF Version
  <2>2. MaxWrites \in Nat /\ Gone \in Nat
    BY FollowConstants DEF Gone
  <2>3. Back \in Seq(Listen) /\ \A p \in 1..Len(Back) : Back[p] \in Listen
    BY BackTyped
  <2>4. \A p \in 1..Len(queue) : queue[p] \in Event
    BY BackTyped
  <2> QED
    BY <2>1, <2>2, <2>3, <2>4 DEF Typed, TypedLoop, TypedWire
<1>1. \A i \in Id : table[i] \in Nat /\ table'[i] \in Nat /\ table[i] <= table'[i]
  BY TableGrows
<1>2. \A p \in 1..Len(queue) : queue[p].is = "listen" =>
        queue[p].id \in Id /\ queue[p].ver \in Nat /\ queue[p].ver <= table[queue[p].id]
  <2>1. ASSUME NEW p \in 1..Len(queue), queue[p].is = "listen"
        PROVE  queue[p].id \in Id /\ queue[p].ver \in Nat /\ queue[p].ver <= table[queue[p].id]
    <3>1. queue[p] \in Listen
      BY <1>0, <2>1, EventKinds
    <3> QED
      BY <2>1, <3>1 DEF Bounded, Listen
  <2> QED
    BY <2>1
<1>3. \A p \in 1..Len(queue) : queue[p].is = "row" =>
        queue[p].id \in Id /\ queue[p].ver \in Nat /\ queue[p].ver <= table[queue[p].id]
  <2>1. ASSUME NEW p \in 1..Len(queue), queue[p].is = "row"
        PROVE  queue[p].id \in Id /\ queue[p].ver \in Nat /\ queue[p].ver <= table[queue[p].id]
    <3>1. queue[p] \in Row
      BY <1>0, <2>1, EventKinds
    <3> QED
      BY <1>0, <2>1, <3>1 DEF Bounded, Row
  <2> QED
    BY <2>1
<1>4. \A p \in 1..Len(Back) : Back[p].id \in Id /\ Back[p].ver \in Nat /\ Back[p].ver <= table[Back[p].id]
  <2>1. ASSUME NEW p \in 1..Len(Back)
        PROVE  Back[p].id \in Id /\ Back[p].ver \in Nat /\ Back[p].ver <= table[Back[p].id]
    <3>1. Back[p] \in Listen
      BY <1>0
    <3> QED
      BY <3>1 DEF Bounded, Listen
  <2> QED
    BY <2>1
<1>5. ASSUME NEW i \in Id
      PROVE  view'[i] <= table'[i]
  <2>1. view[i] <= table[i] /\ view[i] \in Nat /\ view'[i] \in Nat
    BY <1>0, <1>5 DEF Bounded
  <2>2. CASE view'[i] = view[i] \/ view'[i] = 0
    BY <1>1, <2>1, <2>2
  <2>3. CASE TakeRow /\ Head(queue).id = i /\ view'[i] = Head(queue).ver
    <3>1. 1 \in 1..Len(queue) /\ queue[1] = Head(queue) /\ queue[1].is = "row"
      BY <2>3, Taken DEF TakeRow, Typed
    <3>2. view'[i] <= table[i]
      BY <1>3, <2>3, <3>1
    <3> QED
      BY <1>1, <2>1, <3>2
  <2>4. CASE Applies /\ ~menu.query /\ Says(Coming, i, 1) /\ view'[i] = Coming[1].ver
    <3>1. Coming[1].ver <= table[i]
      <4>1. Len(Coming) >= 1 /\ Len(Coming) = Len(Back) + Len(queue) /\ Len(Back) \in Nat /\ Len(queue) \in Nat
        BY <2>4, AppliesFirst, BackTyped, Joins DEF Coming
      <4>2. CASE Len(Back) >= 1
        <5>1. 1 \in 1..Len(Back) /\ Coming[1] = Back[1]
          BY <4>1, <4>2, BackTyped, Joins DEF Coming
        <5> QED
          BY <1>4, <2>4, <5>1 DEF Says
      <4>3. CASE Len(Back) = 0
        <5>1. 1 \in 1..Len(queue) /\ Coming[1] = queue[1]
          <6>1. 1 \in 1..Len(queue) /\ 1 \in 1..Len(Coming) /\ 1 > Len(Back) /\ 1 - Len(Back) = 1
            BY <4>1, <4>3
          <6> QED
            BY <6>1, BackTyped, Joins DEF Coming
        <5> QED
          BY <1>2, <2>4, <5>1 DEF Says
      <4> QED
        BY <4>1, <4>2, <4>3
    <3> QED
      BY <1>1, <2>1, <2>4, <3>1
  <2>5. CASE MemberStep(i) /\ latest[i] = left.versions[i] /\ view'[i] = left.rows[i]
    <3>1. pc = "member" /\ i \in left.ids
      BY <2>5 DEF MemberStep, Batch
    <3>2. view'[i] = 0 \/ view'[i] <= table[i]
      BY <2>5, <3>1 DEF Answered
    <3> QED
      BY <1>1, <2>1, <3>2
  <2> QED
    BY <2>2, <2>3, <2>4, <2>5, ViewSteps
<1>6. ASSUME NEW i \in Id
      PROVE  shot'[i] <= table'[i]
  <2>1. shot[i] <= table[i] /\ shot[i] \in Nat /\ shot'[i] \in Nat
    BY <1>0 DEF Bounded
  <2>2. CASE ServePrint /\ shot'[i] = Rows[i]
    BY <1>1, <2>1, <2>2 DEF Rows
  <2> QED
    BY <1>1, <2>1, <2>2, ShotSteps
<1>7. ASSUME NEW p \in 1..Len(queue'), queue'[p].is = "listen" \/ queue'[p].is = "row"
      PROVE  queue'[p].ver <= table'[queue'[p].id]
  <2>1. CASE \E r \in 1..Len(queue) : queue'[p] = queue[r]
    <3>1. PICK r \in 1..Len(queue) : queue'[p] = queue[r]
      BY <2>1
    <3>2. /\ queue[r].id \in Id /\ queue[r].ver \in Nat /\ queue[r].ver <= table[queue[r].id]
      BY <1>2, <1>3, <1>7, <3>1
    <3> QED
      BY <1>1, <3>1, <3>2
  <2>2. ASSUME NEW i \in Id, Announce(i)
        PROVE  (\E r \in 1..Len(queue) : queue'[p] = queue[r]) \/ queue'[p].ver <= table'[queue'[p].id]
    <3>1. PICK e \in Listen : e \in Event /\ e.id = i /\ e.ver = table[i] /\ PushBounded(e)
      BY <2>2, Announced
    <3>2. (p \in 1..Len(queue) /\ queue'[p] = queue[p]) \/ queue'[p] = e
      BY <3>1, Joined DEF Typed
    <3> QED
      BY <1>1, <3>1, <3>2
  <2>3. ASSUME NEW i \in Id, PrintRow(i)
        PROVE  (\E r \in 1..Len(queue) : queue'[p] = queue[r]) \/ queue'[p].ver <= table'[queue'[p].id]
    <3>1. (p \in 1..Len(queue) /\ queue'[p] = queue[p]) \/ queue'[p] = [is |-> "row", id |-> i, ver |-> shot[i]]
      BY <2>3, RowPrinted
    <3>2. shot[i] \in Nat /\ shot[i] <= table[i]
      BY <1>0 DEF Bounded
    <3>3. shot[i] <= table'[i]
      BY <1>1, <3>2
    <3> QED
      BY <3>1, <3>3
  <2> QED
    BY <1>7, <2>1, <2>2, <2>3, EventsKept
<1>8. ASSUME NEW p \in 1..Len(Back')
      PROVE  Back'[p].ver <= table'[Back'[p].id]
  <2>1. Back'[p].id \in Id /\ Back'[p].ver \in Nat /\ Back'[p].ver <= table[Back'[p].id]
    <3>1. CASE \E r \in 1..Len(Back) : Back'[p] = Back[r]
      BY <1>4, <3>1
    <3>2. CASE Len(queue) >= 1 /\ Back'[p] = queue[1] /\ queue[1].is = "listen"
      <4>1. 1 \in 1..Len(queue)
        BY <3>2, BackTyped
      <4> QED
        BY <1>2, <3>2, <4>1
    <3> QED
      BY <3>1, <3>2, BackEvents
  <2> QED
    BY <1>1, <2>1
<1> QED
  BY <1>5, <1>6, <1>7, <1>8 DEF Bounded

(* Where a membership read's answer is, and where it comes from.           *)
LEMMA AnswerLeft ==
  ASSUME FollowNext, pc' = "member"
  PROVE  \/ TakeMember
         \/ \E i \in Id : MemberStep(i)
         \/ pc = "member" /\ left' = left
<1>1. CASE \/ \E i \in Id : Write(i) \/ Remove(i) \/ Slip(i) \/ Announce(i) \/ PrintRow(i)
           \/ ServePrint \/ PrintDone \/ ServeMember \/ MemberDone \/ ServeSweep \/ SweepDone
           \/ SweepTimer \/ Stop \/ Abandon \/ Finish \/ Halting
           \/ \E c \in Command : CommandFails(c) \/ CommandEnds(c)
  BY <1>1 DEF Write, Remove, Slip, Announce, PrintRow, ServePrint, PrintDone, ServeMember, MemberDone,
    ServeSweep, SweepDone, SweepTimer, Stop, Abandon, Finish, Halting, Leave, CommandFails, CommandEnds
<1>2. CASE \/ TakeListen \/ TakeRow \/ TakeDone \/ TakeSweepStart \/ TakeSweep \/ TakeEnd
           \/ ReplayStep \/ ReplayEnd \/ BatchEnd \/ PostSync \/ PostSweep \/ PostNothing
           \/ \E batch \in SUBSET Id : PostMember(batch)
           \/ \E i \in Id : SweepStep(i)
  <2>1. pc' # "member"
    BY <1>2 DEF TakeListen, TakeRow, TakeDone, TakeSweepStart, TakeSweep, TakeEnd, ApplyListen, Tell,
      Leave, Next_, ReplayStep, ReplayEnd, BatchEnd, PostSync, PostSweep, PostNothing, PostMember,
      SweepStep, Posting
  <2> QED
    BY <2>1
<1> QED
  BY <1>1, <1>2, StepNames

LEMMA AnswerServed ==
  ASSUME Typed, Control, FollowNext, run'["member"] = "served"
  PROVE  ServeMember \/ (run["member"] = "served" /\ reply'.rows = reply.rows
                         /\ reply'.versions = reply.versions)
<1> USE Commands DEF Control
<1>0. /\ run \in [Command -> {"off", "sent", "served", "over"}]
      /\ reply \in [versions : [Id -> Nat], rows : [Id -> Version], ids : SUBSET Id]
  BY DEF Typed, TypedWire
<1>1. CASE \/ \E i \in Id : Write(i) \/ Remove(i) \/ Slip(i) \/ Announce(i) \/ PrintRow(i)
           \/ ServePrint \/ PrintDone \/ ServeSweep
           \/ SweepTimer \/ Stop \/ Abandon \/ Finish \/ Halting
           \/ \E c \in Command : CommandFails(c) \/ CommandEnds(c)
  BY <1>0, <1>1 DEF Write, Remove, Slip, Announce, PrintRow, ServePrint, PrintDone,
    ServeSweep, SweepTimer, Stop, Abandon, Finish, Halting, CommandFails, CommandEnds, StartSweep
<1>2. CASE MemberDone
  BY <1>0, <1>2 DEF MemberDone
<1>3. CASE SweepDone
  <2>1. run'["member"] = run["member"] /\ Under("sweep")
    BY <1>0, <1>3 DEF SweepDone, Under
  <2>2. ~Under("member")
    BY <2>1 DEF Reading, Sweeping
  <2> QED
    BY <2>1, <2>2 DEF Under
<1>4. CASE \E batch \in SUBSET Id : PostMember(batch)
  BY <1>0, <1>4 DEF PostMember
<1>5. CASE \/ TakeListen \/ TakeRow \/ TakeDone \/ TakeMember \/ TakeSweepStart \/ TakeSweep \/ TakeEnd
           \/ ReplayStep \/ ReplayEnd \/ BatchEnd \/ PostSync \/ PostSweep \/ PostNothing
           \/ \E i \in Id : MemberStep(i) \/ SweepStep(i)
  BY <1>0, <1>5 DEF TakeListen, TakeRow, TakeDone, TakeMember, TakeSweepStart, TakeSweep, TakeEnd,
    Taking, ReplayStep, ReplayEnd, BatchEnd, PostSync, PostSweep, PostNothing, MemberStep, SweepStep,
    Batch, Posting, StartSweep
<1> QED
  BY <1>1, <1>2, <1>3, <1>4, <1>5, StepNames

LEMMA AnswerQueued ==
  ASSUME Typed, FollowNext, NEW p \in 1..Len(queue'), queue'[p].is = "member"
  PROVE  \/ \E r \in 1..Len(queue) : queue'[p] = queue[r]
         \/ MemberDone /\ queue'[p].rows = reply.rows /\ queue'[p].versions = reply.versions
<1>1. CASE MemberDone
  <2> DEFINE e == [is |-> "member", versions |-> reply.versions, rows |-> reply.rows]
  <2>1. Push(e) /\ e \in Event
    BY <1>1, EventIn DEF MemberDone, Answer, Typed, TypedWire
  <2>2. (p \in 1..Len(queue) /\ queue'[p] = queue[p]) \/ queue'[p] = e
    BY <2>1, Joined DEF Typed
  <2> QED
    BY <1>1, <2>2
<1> QED
  BY <1>1, EventsKept

LEMMA AnsweredStep ==
  ASSUME Typed, Typed', Control, Bounded, Answered, FollowNext
  PROVE  Answered'
<1> DEFINE Fits(n, v, t) == n # 0 => v <= n /\ n <= t
<1>0. /\ view \in [Id -> Version] /\ view' \in [Id -> Version]
      /\ \A n \in Version : n \in Nat
      /\ reply \in [versions : [Id -> Nat], rows : [Id -> Version], ids : SUBSET Id]
      /\ \A p \in 1..Len(queue) : queue[p] \in Event
  <2>1. \A n \in Version : n \in Nat
    BY FollowConstants DEF Version
  <2>2. \A p \in 1..Len(queue) : queue[p] \in Event
    BY BackTyped
  <2> QED
    BY <2>1, <2>2 DEF Typed, TypedLoop, TypedWire
<1>1. \A i \in Id : table[i] \in Nat /\ table'[i] \in Nat /\ table[i] <= table'[i]
  BY TableGrows
<1>2. ASSUME NEW i \in Id, ~MemberStep(i), run["member"] = "served" \/ Has(queue, "member") \/ pc = "member"
      PROVE  view'[i] = view[i] \/ view'[i] = 0
  <2>1. menu.query
    BY <1>2 DEF Control, Reading, Under
  <2>2. ~TakeRow
    <3>1. CASE TakeRow
      <4>1. pc = "take" /\ Len(queue) >= 1 /\ queue[1].is = "row" /\ Len(queue) \in Nat
        BY <3>1, Taken DEF TakeRow, Taking, Typed
      <4>2. Has(queue, "row")
        BY <4>1 DEF Has
      <4>3. ~asking
        BY <4>2 DEF Control, Printing
      <4> QED
        BY <1>2, <4>1, <4>3 DEF Control, Reading, Under
    <3> QED
      BY <3>1
  <2> QED
    BY <1>2, <2>1, <2>2, ViewSteps
<1>3. ASSUME NEW i \in Id, view'[i] = view[i] \/ view'[i] = 0, NEW n \in Version, Fits(n, view[i], table[i])
      PROVE  Fits(n, view'[i], table'[i])
  <2>1. view[i] \in Nat /\ view'[i] \in Nat /\ n \in Nat
    BY <1>0
  <2> QED
    BY <1>1, <1>3, <2>1
<1>4. \A p \in 1..Len(queue) : queue[p].is = "member" => queue[p].rows \in [Id -> Version]
  BY <1>0, EventKinds DEF Answer
<1> HIDE DEF Fits
<1>5. ASSUME run'["member"] = "served", NEW i \in Id
      PROVE  Fits(reply'.rows[i], view'[i], table'[i])
  <2>1. CASE ServeMember
    <3>1. reply'.rows[i] = Rows[i] \/ reply'.rows[i] = 0
      BY <1>0, <2>1 DEF ServeMember
    <3>2. UNCHANGED <<view, table>>
      BY <2>1 DEF ServeMember, loop, router
    <3>3. view[i] <= table[i] /\ (Rows[i] # 0 => Rows[i] = table[i])
      BY DEF Bounded, Rows
    <3> QED
      BY <1>1, <3>1, <3>2, <3>3 DEF Fits
  <2>2. CASE run["member"] = "served" /\ reply'.rows = reply.rows
    <3>1. Fits(reply.rows[i], view[i], table[i])
      BY <2>2 DEF Answered, Fits
    <3>2. ~MemberStep(i)
      BY <2>2 DEF MemberStep, Batch, Control, Reading, Under
    <3>3. reply.rows[i] \in Version
      BY <1>0
    <3> QED
      BY <1>2, <1>3, <2>2, <3>1, <3>2, <3>3
  <2> QED
    BY <1>5, <2>1, <2>2, AnswerServed
<1>6. ASSUME NEW p \in 1..Len(queue'), queue'[p].is = "member", NEW i \in Id
      PROVE  Fits(queue'[p].rows[i], view'[i], table'[i])
  <2>1. CASE \E r \in 1..Len(queue) : queue'[p] = queue[r]
    <3>1. PICK r \in 1..Len(queue) : queue'[p] = queue[r]
      BY <2>1
    <3>2. Has(queue, "member") /\ Fits(queue[r].rows[i], view[i], table[i])
      BY <1>6, <3>1 DEF Answered, Fits, Has
    <3>3. ~MemberStep(i)
      BY <3>2 DEF MemberStep, Batch, Control, Reading
    <3>4. queue[r].rows[i] \in Version
      BY <1>4, <1>6, <3>1
    <3> QED
      BY <1>2, <1>3, <3>1, <3>2, <3>3, <3>4
  <2>2. CASE MemberDone /\ queue'[p].rows = reply.rows
    <3>1. run["member"] = "served" /\ UNCHANGED <<view, table>>
      BY <2>2 DEF MemberDone, loop, router
    <3> QED
      BY <2>2, <3>1 DEF Answered, Fits
  <2> QED
    BY <1>6, <2>1, <2>2, AnswerQueued
<1>7. ASSUME pc' = "member", NEW i \in left'.ids
      PROVE  Fits(left'.rows[i], view'[i], table'[i])
  <2>0. i \in Id
    BY <1>7 DEF Typed, TypedBatch
  <2>1. CASE TakeMember
    <3>1. /\ Len(queue) \in Nat \ {0} /\ queue[1] = Head(queue) /\ queue[1].is = "member"
          /\ left'.rows = queue[1].rows /\ UNCHANGED <<view, table>>
      BY <2>1, Taken DEF TakeMember, Taking, Typed, router
    <3> QED
      BY <2>0, <3>1 DEF Answered, Fits
  <2>2. ASSUME NEW j \in Id, MemberStep(j)
        PROVE  Fits(left'.rows[i], view'[i], table'[i])
    <3>1. /\ left'.rows = left.rows /\ i \in left.ids /\ i # j /\ pc = "member"
          /\ UNCHANGED table /\ left.rows[i] \in Version
      BY <1>7, <2>0, <2>2 DEF MemberStep, Batch, Typed, TypedBatch, router
    <3>2. view'[i] = view[i]
      BY <1>0, <2>0, <2>2, <3>1 DEF MemberStep
    <3> QED
      BY <2>0, <3>1, <3>2 DEF Answered, Fits
  <2>3. CASE pc = "member" /\ left' = left /\ \A j \in Id : ~MemberStep(j)
    <3>1. left.rows[i] \in Version
      BY <2>0, <2>3 DEF Typed, TypedBatch
    <3>2. Fits(left.rows[i], view[i], table[i])
      BY <1>7, <2>0, <2>3 DEF Answered, Fits
    <3> QED
      BY <1>2, <1>3, <2>0, <2>3, <3>1, <3>2
  <2> QED
    BY <1>7, <2>1, <2>2, <2>3, AnswerLeft
<1> QED
  BY <1>5, <1>6, <1>7 DEF Answered, Fits

(* The events up to a listen reply are those that were up to it.           *)
LEMMA QueueOrder ==
  ASSUME Typed, FollowNext, \A i \in Id : ~Announce(i),
         NEW q \in 1..Len(queue'), queue'[q].is = "listen"
  PROVE  \E m \in Nat : \A p \in 1..q : p + m \in 1..Len(queue) /\ queue'[p] = queue[p + m]
<1>1. queue \in Seq(Event) /\ Len(queue) \in Nat
  BY BackTyped
<1>2. CASE UNCHANGED queue
  <2>1. \A p \in 1..q : p + 0 \in 1..Len(queue) /\ queue'[p] = queue[p + 0]
    BY <1>1, <1>2
  <2> QED
    BY <2>1
<1>3. CASE queue # <<>> /\ queue' = Tail(queue)
  <2>1. Len(queue') = Len(queue) - 1 /\ \A p \in 1..Len(queue') : queue'[p] = queue[p + 1]
    BY <1>1, <1>3, Dequeued
  <2>2. \A p \in 1..q : p + 1 \in 1..Len(queue) /\ queue'[p] = queue[p + 1]
    BY <1>1, <2>1
  <2> QED
    BY <2>2
<1>4. ASSUME NEW e \in Event, queue' = Append(queue, e)
      PROVE  \E m \in Nat : \A p \in 1..q : p + m \in 1..Len(queue) /\ queue'[p] = queue[p + m]
  <2>1. Len(queue') = Len(queue) + 1 /\ \A p \in 1..Len(queue) : queue'[p] = queue[p]
    BY <1>1, <1>4, Queued
  <2>2. ~TakeListen
    <3>1. TakeListen => Len(queue') = Len(queue) - 1
      BY Taken DEF TakeListen, Typed
    <3> QED
      BY <1>1, <2>1, <3>1
  <2>3. PICK m \in Nat : Moved(queue, queue', "listen", m)
    BY <2>2, EventsMoved
  <2>4. q + m \in 1..Len(queue)
    BY <2>3 DEF Moved
  <2>5. q \in 1..Len(queue)
    BY <1>1, <2>1, <2>4
  <2>6. \A p \in 1..q : p + 0 \in 1..Len(queue) /\ queue'[p] = queue[p + 0]
    BY <1>1, <2>1, <2>5
  <2> QED
    BY <2>6
<1> QED
  BY <1>2, <1>3, <1>4, Pushes

LEMMA OrderedStep ==
  ASSUME Typed, Typed', Control, Bounded, Ordered, FollowNext
  PROVE  Ordered'
<1> SUFFICES ASSUME ~menu.query, NEW i \in Id, NEW q \in 1..Len(queue'), Says(queue', i, q)
             PROVE  /\ view'[i] <= queue'[q].ver
                    /\ \A p \in 1..q : Says(queue', i, p) \/ Shows(queue', i, p) =>
                         queue'[p].ver <= queue'[q].ver
                    /\ \A p \in 1..Len(Back') : Back'[p].id = i => Back'[p].ver <= queue'[q].ver
  BY RouterUnchanged DEF Ordered
<1>1. CASE \A k \in Id : ~Announce(k)
  <2>1. PICK m \in Nat : \A p \in 1..q : p + m \in 1..Len(queue) /\ queue'[p] = queue[p + m]
    BY <1>1, QueueOrder DEF Says
  <2> DEFINE r == q + m
  <2>2. r \in 1..Len(queue) /\ queue'[q] = queue[r] /\ Says(queue, i, r)
    BY <2>1 DEF Says
  <2>3. /\ view[i] <= queue[r].ver
        /\ \A p \in 1..r : Says(queue, i, p) \/ Shows(queue, i, p) => queue[p].ver <= queue[r].ver
        /\ \A p \in 1..Len(Back) : Back[p].id = i => Back[p].ver <= queue[r].ver
    BY <2>2 DEF Ordered
  <2>4. \A p \in 1..q : p + m \in 1..r /\ queue'[p] = queue[p + m]
    BY <2>1
  <2>5. 1 \in 1..r
    BY <2>2
  <2>6. queue[r].ver \in Nat
    <3>1. queue[r] \in Listen
      BY <2>2, BackTyped, EventKinds DEF Says
    <3>2. Gone \in Nat
      BY FollowConstants DEF Gone
    <3> QED
      BY <3>1, <3>2 DEF Listen
  <2> HIDE DEF r
  <2>7. \A p \in 1..q : Says(queue', i, p) \/ Shows(queue', i, p) => queue'[p].ver <= queue'[q].ver
    BY <2>2, <2>3, <2>4 DEF Says, Shows
  <2>8. ASSUME NEW p \in 1..Len(Back'), Back'[p].id = i
        PROVE  Back'[p].ver <= queue'[q].ver
    <3>1. CASE \E s \in 1..Len(Back) : Back'[p] = Back[s]
      BY <2>2, <2>3, <2>8, <3>1
    <3>2. CASE Back'[p] = queue[1] /\ queue[1].is = "listen"
      BY <2>2, <2>3, <2>5, <2>8, <3>2 DEF Says
    <3> QED
      BY <3>1, <3>2, BackEvents
  <2>9. view'[i] <= queue'[q].ver
    <3>1. CASE view'[i] = view[i]
      BY <2>2, <2>3, <3>1
    <3>2. CASE view'[i] = 0
      BY <2>2, <2>6, <3>2
    <3>3. CASE TakeRow /\ Head(queue).id = i /\ view'[i] = Head(queue).ver
      <4>1. queue[1] = Head(queue) /\ queue[1].is = "row"
        BY <3>3, Taken DEF TakeRow, Typed
      <4> QED
        BY <2>2, <2>3, <2>5, <3>3, <4>1 DEF Shows
    <3>4. CASE Applies /\ Says(Coming, i, 1) /\ view'[i] = Coming[1].ver
      <4>1. Len(Coming) >= 1 /\ Len(Coming) = Len(Back) + Len(queue) /\ Len(Back) \in Nat /\ Len(queue) \in Nat
        BY <3>4, AppliesFirst, BackTyped, Joins DEF Coming
      <4>2. CASE Len(Back) >= 1
        <5>1. 1 \in 1..Len(Back) /\ Coming[1] = Back[1]
          BY <4>1, <4>2, BackTyped, Joins DEF Coming
        <5> QED
          BY <2>2, <2>3, <3>4, <5>1 DEF Says
      <4>3. CASE Len(Back) = 0
        <5>1. 1 \in 1..Len(queue) /\ Coming[1] = queue[1]
          <6>1. 1 \in 1..Len(queue) /\ 1 \in 1..Len(Coming) /\ 1 > Len(Back) /\ 1 - Len(Back) = 1
            BY <4>1, <4>3
          <6> QED
            BY <6>1, BackTyped, Joins DEF Coming
        <5> QED
          BY <2>2, <2>3, <2>5, <3>4, <5>1 DEF Says
      <4> QED
        BY <4>1, <4>2, <4>3
    <3>5. CASE MemberStep(i)
      BY <3>5 DEF MemberStep, Batch, Control, Reading
    <3> QED
      BY <3>1, <3>2, <3>3, <3>4, <3>5, ViewSteps
  <2> QED
    BY <2>7, <2>8, <2>9
<1>2. ASSUME NEW k \in Id, Announce(k)
      PROVE  /\ view'[i] <= queue'[q].ver
             /\ \A p \in 1..q : Says(queue', i, p) \/ Shows(queue', i, p) =>
                  queue'[p].ver <= queue'[q].ver
             /\ \A p \in 1..Len(Back') : Back'[p].id = i => Back'[p].ver <= queue'[q].ver
  <2>1. PICK e \in Listen : e \in Event /\ e.id = k /\ e.ver = table[k] /\ PushBounded(e)
    BY <1>2, Announced
  <2>2. /\ Len(queue) \in Nat /\ \A p \in 1..Len(queue) : queue'[p] = queue[p]
        /\ \A p \in 1..Len(queue') :
             (p \in 1..Len(queue) /\ queue'[p] = queue[p]) \/ (p = Len(queue) + 1 /\ queue'[p] = e)
    BY <2>1, Joined DEF Typed
  <2>3. UNCHANGED <<view, table>> /\ Back' = Back
    BY <1>2 DEF Announce, loop, Back
  <2>4. CASE q \in 1..Len(queue) /\ queue'[q] = queue[q]
    <3>1. Says(queue, i, q) /\ \A p \in 1..q : queue'[p] = queue[p]
      BY <2>2, <2>4 DEF Says
    <3> QED
      BY <2>3, <2>4, <3>1 DEF Ordered, Says, Shows
  <2>5. CASE q = Len(queue) + 1 /\ queue'[q] = e
    <3>1. k = i /\ queue'[q].ver = table[i] /\ table[i] \in Nat
      BY <2>1, <2>5, TableGrows DEF Says
    <3>2. \A p \in 1..q : p \in 1..Len(queue) \/ p = q
      BY <2>2, <2>5
    <3>3. \A p \in 1..q : Says(queue', i, p) \/ Shows(queue', i, p) => queue'[p].ver <= table[i]
      BY <2>2, <3>1, <3>2 DEF Bounded, Says, Shows
    <3> QED
      BY <2>3, <3>1, <3>3 DEF Bounded
  <2> QED
    BY <2>2, <2>4, <2>5
<1> QED
  BY <1>1, <1>2

LEMMA BehindStarts == FollowInit => Behind
<1> SUFFICES ASSUME FollowInit
    PROVE  Behind
  OBVIOUS
<1>1. run["member"] = "off" /\ queue = <<>> /\ pc = "take" /\ Back = <<>>
  BY Commands DEF FollowInit, Back
<1>2. \A i \in Id : view[i] = 0 /\ shot[i] = 0 /\ (table[i] = 0 \/ table[i] = 1)
  BY DEF FollowInit, Zero
<1> QED
  BY <1>1, <1>2 DEF Behind, Bounded, Answered, Ordered

LEMMA FollowBehind == FollowSpec => [](Typed /\ Control /\ Behind)
<1>1. ASSUME Typed, Control, Behind, [FollowNext]_followVars
      PROVE  Behind'
  <2>1. CASE UNCHANGED followVars
    <3>1. UNCHANGED <<menu, table, run, shot, reply, queue, pc, left, pending, view>>
      BY <2>1 DEF followVars, router, taps, loop
    <3>2. Back' = Back
      BY <3>1 DEF Back
    <3> QED
      BY <1>1, <3>1, <3>2 DEF Behind, Bounded, Answered, Ordered
  <2>2. CASE FollowNext
    <3>1. Typed'
      BY <1>1, TypedStep
    <3> QED
      BY <1>1, <2>2, <3>1, BoundedStep, AnsweredStep, OrderedStep DEF Behind
  <2> QED
    BY <1>1, <2>1, <2>2
<1> QED
  BY <1>1, TypedStarts, TypedStep, ControlStarts, ControlStep, BehindStarts, PTL DEF FollowSpec

(* After synced the reader never goes back to an older row (LiveMonotone):
   not by a listen reply that is older than the print, and not by a
   membership answer that was served before a change.                      *)
THEOREM FollowNeverGoesBack == FollowSpec => LiveMonotone
<1>1. ASSUME Typed, Control, Behind, [FollowNext]_followVars, NEW i \in Id, synced, view[i] # 0, view'[i] # 0
      PROVE  view'[i] >= view[i]
  <2>1. view[i] \in Nat
    <3>1. \A n \in Version : n \in Nat
      BY FollowConstants DEF Version
    <3> QED
      BY <1>1, <3>1 DEF Typed, TypedLoop
  <2>2. CASE view'[i] = view[i]
    BY <2>1, <2>2
  <2>3. CASE FollowNext /\ TakeRow
    <3>1. Has(queue, "row")
      <4>1. Len(queue) \in Nat \ {0} /\ queue[1].is = "row"
        BY <1>1, <2>3, Taken DEF TakeRow, Typed
      <4> QED
        BY <4>1 DEF Has
    <3> QED
      BY <1>1, <3>1 DEF Control, Printing
  <2>4. CASE FollowNext /\ Applies /\ ~menu.query /\ Says(Coming, i, 1) /\ view'[i] = Coming[1].ver
    <3>1. TakeListen /\ complete
      BY <1>1, <2>4 DEF Applies, ReplayStep, Batch, Control, Printing
    <3>2. Len(queue) \in Nat \ {0} /\ queue[1] = Head(queue) /\ Back = <<>>
      BY <1>1, <3>1, Taken, BackHolds DEF TakeListen, Taking, Typed
    <3>3. Coming = queue
      BY <1>1, <3>2, BackTyped DEF Coming
    <3>4. view[i] <= queue[1].ver
      BY <1>1, <2>4, <3>2, <3>3 DEF Behind, Ordered
    <3>5. queue[1].ver \in Nat
      <4>1. queue[1] \in Listen
        BY <1>1, <2>4, <3>2, <3>3, BackTyped, EventKinds DEF Says
      <4> QED
        BY <4>1, FollowConstants DEF Listen, Gone
    <3> QED
      BY <2>1, <2>4, <3>3, <3>4, <3>5
  <2>5. CASE MemberStep(i) /\ view'[i] = left.rows[i]
    <3>1. pc = "member" /\ i \in left.ids
      BY <2>5 DEF MemberStep, Batch
    <3>2. view[i] <= left.rows[i]
      BY <1>1, <2>5, <3>1 DEF Behind, Answered
    <3>3. left.rows[i] \in Nat
      <4>1. \A n \in Version : n \in Nat
        BY FollowConstants DEF Version
      <4> QED
        BY <1>1, <3>1, <4>1 DEF Typed, TypedBatch
    <3> QED
      BY <2>1, <2>5, <3>2, <3>3
  <2>6. CASE UNCHANGED followVars
    BY <2>2, <2>6 DEF followVars, loop
  <2> QED
    BY <1>1, <2>2, <2>3, <2>4, <2>5, <2>6, ViewSteps
<1>2. Typed /\ Control /\ Behind /\ [FollowNext]_followVars =>
        [\A i \in Id : synced /\ view[i] # 0 /\ view'[i] # 0 => view'[i] >= view[i]]_followVars
  BY <1>1
<1> QED
  BY <1>2, FollowBehind, PTL DEF FollowSpec, LiveMonotone
=============================================================================
