----------------------- MODULE RetrieveFollowRestProofs -----------------------
(***************************************************************************)
(* Proof that RetrieveFollow converges, for any menu, rows, buffer and     *)
(* batch: with nothing under way, it is synced and the reader holds what   *)
(* the router holds.  The invariant says where each change still is on its *)
(* way from the router to the copy.                                        *)
(***************************************************************************)
EXTENDS RetrieveFollowProofs

(* The controller's signal is given only by who stops the loop.            *)
Called == aborted => Halted \/ pc \in {"leave", "over"}

(* What bootstrap waits for has not been forgotten.                        *)
Waited ==
  menu.query => \A i \in Id :
    /\ boot[i] <= latest[i]
    /\ \A p \in 1..Len(queue) : queue[p].is = "done" => queue[p].boot[i] <= latest[i]

(* A change that was announced is on its way, or waits to be asked about.  *)
Uncounted == ~menu.query => latest = Zero /\ dirty = Zero

Owed ==
  menu.query /\ ~aborted => \A i \in Id : latest[i] # 0 =>
    \/ \E p \in 1..Len(Coming) : Says(Coming, i, p) /\ Coming[p].at = latest[i]
    \/ dirty[i] = latest[i]
    \/ latest[i] \in Asked[i]

(* The loop never waits with work that nothing under way will bring up.    *)
Prompt ==
  ~aborted =>
    /\ run["print"] = "over" => complete \/ Has(queue, "done")
    /\ menu.query /\ pc = "take" /\ Ids(dirty) # {} => asking \/ sweep = "running"
    /\ pc # "replay" /\ ~menu.query /\ complete => synced
    /\ menu.query /\ pc = "take" /\ complete /\ boot = Zero => synced

(* Ids with no change that is unannounced, or went without a word.         *)
Steady == Id \ (silent \cup news)

(* And those of them that nothing to come still talks about.               *)
Settled ==
  {i \in Steady : IF menu.query THEN latest[i] = 0
                  ELSE \A p \in 1..Len(Coming) : ~Says(Coming, i, p)}

(* Without a query, the last reply on an id is what the router holds.      *)
LastIsTrue ==
  ~menu.query /\ ~aborted => \A i \in Steady, p \in 1..Len(Coming) :
    Says(Coming, i, p) =>
      \/ Coming[p].ver = table[i]
      \/ \E q \in 1..Len(Coming) : q > p /\ Says(Coming, i, q)

(* With one, an answer that is not overtaken is what the router holds.     *)
AnswerIsTrue ==
  ~aborted => \A i \in Steady : latest[i] # 0 =>
    /\ run["member"] = "served" /\ reply.versions[i] = latest[i] =>
         reply.rows[i] = Rows[i]
    /\ \A p \in 1..Len(queue) :
         queue[p].is = "member" /\ queue[p].versions[i] = latest[i] =>
           queue[p].rows[i] = Rows[i]
    /\ pc = "member" /\ i \in left.ids /\ left.versions[i] = latest[i] =>
         left.rows[i] = Rows[i]

(* The snapshot brings what is settled, and then the copy has it.          *)
Shown ==
  ~aborted /\ ~complete => \A i \in Settled :
    /\ run["print"] = "served" /\ shot[i] # 0 => shot[i] = Rows[i]
    /\ \A p \in 1..Len(queue) : Shows(queue, i, p) => queue[p].ver = Rows[i]
    /\ \/ view[i] = Rows[i]
       \/ run["print"] = "sent"
       \/ run["print"] = "served" /\ shot[i] = Rows[i] /\ view[i] = 0
       \/ \E p \in 1..Len(queue) : Shows(queue, i, p)

Copied == ~aborted /\ complete => \A i \in Settled : view[i] = Rows[i]

(* Who is here but not in a sweep's list was announced since it began.     *)
Named == {i \in Id : \E p \in 1..Len(queue) : Says(queue, i, p)}

Heard ==
  {i \in Id :
     \/ touching /\ i \in touched
     \/ \E p \in 1..Len(queue) :
          /\ Says(queue, i, p)
          /\ \A q \in 1..Len(queue) : queue[q].is = "start" => q < p}

Swept ==
  ~aborted =>
    /\ run["sweep"] = "served" =>
         \A i \in Id : Rows[i] # 0 => i \in reply.ids \cup news \cup Heard
    /\ \A k \in 1..Len(queue) : queue[k].is = "sweep" =>
         \A i \in Id : Rows[i] # 0 => i \in queue[k].ids \cup news \cup Heard
    /\ pc = "sweep" =>
         \A i \in left.ids : Rows[i] # 0 => i \in news \cup Named

-----------------------------------------------------------------------------
(* What the steps do to the router's rows and to what is still announced.  *)
LEMMA StillGoing ==
  ASSUME Typed, Control, FollowNext, ~aborted'
  PROVE  ~aborted /\ draining
<1>1. aborted => aborted'
  BY StepNames DEF Write, Remove, Slip, Announce, PushBounded, PrintRow, MemberStep, SweepStep,
    ServePrint, PrintDone, ServeMember, MemberDone, ServeSweep, SweepDone, SweepTimer, Stop,
    Abandon, CommandFails, CommandEnds, TakeListen, TakeRow, TakeDone, TakeMember, TakeSweepStart,
    TakeSweep, TakeEnd, Taking, ApplyListen, Tell, Leave, Halting, ReplayStep, ReplayEnd, BatchEnd,
    Finish, PostSync, PostSweep, PostNothing, PostMember, Batch, Posting, Halt, taps
<1>2. ~aborted
  BY <1>1
<1> QED
  BY <1>2 DEF Control, Telling

LEMMA RowsSteps ==
  ASSUME Typed, FollowNext, NEW i \in Id
  PROVE  \/ /\ Rows'[i] = Rows[i] /\ table'[i] = table[i]
            /\ i \in news' <=> i \in news
            /\ i \in silent' <=> i \in silent
         \/ Write(i) /\ i \in news'
         \/ Remove(i) /\ Rows'[i] = 0 /\ i \in news' \cup silent'
         \/ Slip(i) /\ Rows'[i] = 0 /\ i \in silent' /\ news' = news
         \/ /\ Announce(i) /\ Rows'[i] = Rows[i] /\ table'[i] = table[i]
            /\ silent' = silent
<1>1. menu' = menu /\ table \in [Id -> 0..Gone] /\ sel \subseteq Id /\ Gone \in Nat \ {0}
  BY RouterUnchanged, FollowConstants DEF Typed, TypedRouter, Gone
<1>2. ASSUME table'[i] = table[i], i \in sel' <=> i \in sel
      PROVE  Rows'[i] = Rows[i]
  BY <1>1, <1>2 DEF Rows, Selected, Here
<1>3. CASE UNCHANGED router
  BY <1>2, <1>3 DEF router
<1>4. ASSUME NEW j \in Id, j # i, Write(j) \/ Remove(j) \/ Slip(j) \/ Announce(j)
      PROVE  /\ Rows'[i] = Rows[i] /\ table'[i] = table[i]
             /\ i \in news' <=> i \in news
             /\ i \in silent' <=> i \in silent
  <2>1. table'[i] = table[i]
    BY <1>1, <1>4 DEF Write, Remove, Slip, Announce
  <2>2. i \in sel' <=> i \in sel
    BY <1>1, <1>4 DEF Write, Remove, Slip, Announce
  <2>3. (i \in news' <=> i \in news) /\ (i \in silent' <=> i \in silent)
    BY <1>1, <1>4 DEF Write, Remove, Slip, Announce
  <2> QED
    BY <1>2, <2>1, <2>2, <2>3
<1>5. Write(i) => i \in news'
  BY DEF Write
<1>6. ASSUME Remove(i)
      PROVE  Rows'[i] = 0 /\ i \in news' \cup silent'
  <2>1. table'[i] = Gone
    BY <1>1, <1>6 DEF Remove
  <2> QED
    BY <1>6, <2>1 DEF Remove, Rows, Selected, Here
<1>7. ASSUME Slip(i)
      PROVE  Rows'[i] = 0 /\ i \in silent' /\ news' = news
  BY <1>1, <1>7 DEF Slip, Rows, Selected
<1>8. ASSUME Announce(i)
      PROVE  Rows'[i] = Rows[i] /\ table'[i] = table[i] /\ silent' = silent
  BY <1>2, <1>8 DEF Announce
<1> QED
  BY <1>3, <1>4, <1>5, <1>6, <1>7, <1>8, RouterUnchanged

LEMMA SteadySteps ==
  ASSUME Typed, FollowNext, NEW i \in Steady'
  PROVE  /\ i \in Id /\ Rows'[i] = Rows[i] /\ table'[i] = table[i]
         /\ i \in Steady \/ Announce(i)
<1>1. i \in Id /\ i \notin news' /\ i \notin silent'
  BY DEF Steady
<1> QED
  BY <1>1, RowsSteps DEF Steady

(* Who forgets the number of an id, and what it leaves.                    *)
LEMMA LatestResets ==
  ASSUME Typed, Control, FollowNext, NEW i \in Id, ~Announce(i), latest'[i] # latest[i]
  PROVE  /\ latest'[i] = 0
         /\ \/ /\ Applies /\ Says(Coming, i, 1) /\ Coming[1].ver = Gone
               /\ view'[i] = 0 /\ boot'[i] = 0
            \/ MemberStep(i) /\ latest[i] = left.versions[i] /\ view'[i] = left.rows[i]
<1>0. /\ latest \in [Id -> 0..version] /\ boot \in [Id -> Nat] /\ view \in [Id -> Version]
  BY DEF Typed, TypedTaps, TypedLoop
<1>1. CASE Applies
  <2>1. PICK then : ApplyListen(Coming[1], then)
    BY <1>1, AppliesFirst
  <2>2. Coming[1] \in Listen /\ Coming[1].is = "listen"
    BY <1>1, AppliesFirst
  <2>3. latest' # latest
    BY <1>0
  <2>4. /\ Dead(Coming[1]) /\ Forget(Coming[1].id)
        /\ view' = [view EXCEPT ![Coming[1].id] = 0]
    BY <2>1, <2>3 DEF ApplyListen
  <2>5. Coming[1].id = i
    BY <1>0, <2>4 DEF Forget
  <2> QED
    BY <1>0, <1>1, <2>2, <2>4, <2>5 DEF Forget, Dead, Says
<1>2. ASSUME NEW j \in Id, MemberStep(j)
      PROVE  /\ latest'[i] = 0
             /\ MemberStep(i) /\ latest[i] = left.versions[i] /\ view'[i] = left.rows[i]
  <2>1. /\ latest[j] = left.versions[j] /\ latest' = [latest EXCEPT ![j] = 0]
        /\ view' = [view EXCEPT ![j] = left.rows[j]]
    BY <1>2 DEF MemberStep
  <2>2. j = i
    BY <1>0, <2>1
  <2> QED
    BY <1>0, <1>2, <2>1, <2>2
<1>3. ASSUME NEW j \in Id, Announce(j)
      PROVE  FALSE
  BY <1>0, <1>3 DEF Announce
<1>4. CASE ~Applies /\ \A j \in Id : ~MemberStep(j) /\ ~Announce(j)
  <2>1. latest' = latest
    BY <1>4, StepNames DEF Write, Remove, Slip, PrintRow, SweepStep, ServePrint, PrintDone, ServeMember,
      MemberDone, ServeSweep, SweepDone, SweepTimer, Stop, Abandon, CommandFails, CommandEnds,
      TakeListen, Applies, TakeRow, TakeDone, TakeMember, TakeSweepStart, TakeSweep, TakeEnd, Taking,
      Batch, Posting, Halting, ReplayEnd, BatchEnd, Finish, PostSync, PostSweep, PostNothing,
      PostMember, taps, loop
  <2> QED
    BY <2>1
<1> QED
  BY <1>1, <1>2, <1>3, <1>4

-----------------------------------------------------------------------------
(* What the loop is told, and what it waits for.                           *)
LEMMA CalledStep ==
  ASSUME Typed, Control, Called, FollowNext
  PROVE  Called'
<1>1. ASSUME aborted', ~aborted
      PROVE  Halted' \/ pc' = "leave" \/ pc' = "over"
  <2>1. CASE \E i \in Id : Announce(i) \/ PrintRow(i)
    BY <1>1, <2>1 DEF Announce, PrintRow, PushBounded, Halted
  <2>2. CASE \E c \in Command : CommandFails(c) \/ CommandEnds(c)
    BY <1>1, <2>2 DEF CommandFails, CommandEnds, Halted
  <2>3. CASE Stop \/ Abandon \/ Halting \/ TakeEnd
    BY <1>1, <2>3 DEF Stop, Abandon, Halting, TakeEnd, Leave, Halted
  <2>4. CASE TakeListen \/ ReplayStep \/ \E i \in Id : MemberStep(i) \/ SweepStep(i)
    BY <1>1, <2>4 DEF TakeListen, ReplayStep, MemberStep, SweepStep, ApplyListen, Tell, Leave
  <2>5. ASSUME \/ \E i \in Id : Write(i) \/ Remove(i) \/ Slip(i)
               \/ ServePrint \/ PrintDone \/ ServeMember \/ MemberDone \/ ServeSweep
               \/ SweepDone \/ SweepTimer
               \/ TakeRow \/ TakeDone \/ TakeMember \/ TakeSweepStart
               \/ TakeSweep \/ ReplayEnd \/ BatchEnd
               \/ Finish \/ PostSync \/ PostSweep \/ PostNothing
               \/ \E batch \in SUBSET Id : PostMember(batch)
        PROVE  aborted' = aborted
    BY <2>5 DEF Write, Remove, Slip, ServePrint, PrintDone, ServeMember, MemberDone, ServeSweep,
      SweepDone, SweepTimer, TakeRow, TakeDone, TakeMember, TakeSweepStart, TakeSweep, Taking, Batch,
      Posting, ReplayEnd, BatchEnd, Finish, PostSync, PostSweep, PostNothing, PostMember, taps, loop
  <2> QED
    BY <1>1, <2>1, <2>2, <2>3, <2>4, <2>5, StepNames
<1>2. ASSUME Halted \/ pc = "leave" \/ pc = "over"
      PROVE  Halted' \/ pc' = "leave" \/ pc' = "over"
  <2>1. (stopReq => stopReq') /\ (fatal => fatal')
    <3>1. CASE \E i \in Id : Announce(i) \/ PrintRow(i)
      BY <3>1 DEF Announce, PrintRow, PushBounded
    <3>2. CASE \E c \in Command : CommandFails(c) \/ CommandEnds(c)
      BY <3>2 DEF CommandFails, CommandEnds
    <3>3. CASE Stop
      BY <3>3 DEF Stop
    <3>4. ASSUME ~Stop, \A i \in Id : ~Announce(i) /\ ~PrintRow(i),
                 \A c \in Command : ~CommandFails(c) /\ ~CommandEnds(c)
          PROVE  UNCHANGED <<stopReq, fatal>>
      BY <3>4, StepNames DEF Write, Remove, Slip, MemberStep, SweepStep,
        ServePrint, PrintDone, ServeMember, MemberDone, ServeSweep, SweepDone, SweepTimer,
        Abandon, TakeListen, TakeRow, TakeDone, TakeMember, TakeSweepStart,
        TakeSweep, TakeEnd, Taking, Halting, ReplayStep, ReplayEnd, BatchEnd,
        Finish, PostSync, PostSweep, PostNothing, PostMember, Batch, Posting, taps
    <3> QED
      BY <3>1, <3>2, <3>3, <3>4
  <2>2. pc = "leave" \/ pc = "over" => pc' = pc \/ pc' = "over"
    BY StepNames DEF Write, Remove, Slip, Announce, PrintRow, MemberStep, SweepStep,
    ServePrint, PrintDone, ServeMember, MemberDone, ServeSweep, SweepDone, SweepTimer, Stop,
    Abandon, CommandFails, CommandEnds, TakeListen, TakeRow, TakeDone, TakeMember, TakeSweepStart,
    TakeSweep, TakeEnd, Taking, Halting, ReplayStep, ReplayEnd, BatchEnd,
    Finish, PostSync, PostSweep, PostNothing, PostMember, Batch, Posting
  <2> QED
    BY <1>2, <2>1, <2>2 DEF Halted
<1> QED
  BY <1>1, <1>2 DEF Called

LEMMA UncountedStep ==
  ASSUME Typed, Typed', Control, Uncounted, FollowNext
  PROVE  Uncounted'
<1> SUFFICES ASSUME ~menu.query
             PROVE  latest' = Zero /\ dirty' = Zero
  BY RouterUnchanged DEF Uncounted
<1>1. latest = Zero /\ dirty = Zero
  BY DEF Uncounted
<1>2. ASSUME NEW i \in Id
      PROVE  latest'[i] = 0
  <2>1. ~Announce(i) \/ latest' = latest
    BY DEF Announce
  <2> QED
    BY <1>1, <2>1, LatestSteps DEF Zero
<1>3. dirty' = dirty \/ \E i \in Id : dirty' = [dirty EXCEPT ![i] = 0]
  <2>1. CASE Applies
    <3>1. PICK then : ApplyListen(Coming[1], then)
      BY <2>1, AppliesFirst
    <3>2. Coming[1].id \in Id
      BY <2>1, AppliesFirst DEF Listen
    <3> QED
      BY <3>1, <3>2 DEF ApplyListen, Forget
  <2>2. \A batch \in SUBSET Id : ~PostMember(batch)
    BY <1>1 DEF PostMember, Ids, Zero
  <2>3. CASE ~Applies
    BY <2>2, <2>3, StepNames DEF Write, Remove, Slip, Announce, PrintRow, MemberStep, SweepStep, ServePrint, PrintDone, ServeMember,
      MemberDone, ServeSweep, SweepDone, SweepTimer, Stop, Abandon, CommandFails, CommandEnds,
      TakeListen, Applies, TakeRow, TakeDone, TakeMember, TakeSweepStart, TakeSweep, TakeEnd, Taking,
      Batch, Posting, Halting, ReplayEnd, BatchEnd, Finish, PostSync, PostSweep, PostNothing, loop
  <2> QED
    BY <2>1, <2>3
<1>4. latest' = [i \in Id |-> latest'[i]] /\ dirty' = [i \in Id |-> dirty'[i]]
  BY DEF Typed, TypedTaps, TypedLoop
<1>5. \A i \in Id : dirty'[i] = 0
  BY <1>1, <1>3 DEF Zero
<1> QED
  BY <1>2, <1>4, <1>5 DEF Zero

-----------------------------------------------------------------------------
(* What bootstrap waits for is the number of a reply that still counts.    *)
LEMMA DoneQueued ==
  ASSUME Typed, FollowNext, NEW p \in 1..Len(queue'), queue'[p].is = "done"
  PROVE  \/ \E r \in 1..Len(queue) : queue'[p] = queue[r]
         \/ PrintDone /\ queue'[p].boot = IF menu.query THEN latest ELSE Zero
<1>1. CASE PrintDone
  <2> DEFINE b == IF menu.query THEN latest ELSE Zero
             e == [is |-> "done", boot |-> b]
  <2>1. Push(e) /\ e \in Event
    <3>1. b \in [Id -> Nat]
      BY DEF Typed, TypedTaps, Zero
    <3>2. Push(e)
      BY <1>1 DEF PrintDone
    <3> HIDE DEF b
    <3> QED
      BY <3>1, <3>2, EventIn
  <2>2. (p \in 1..Len(queue) /\ queue'[p] = queue[p]) \/ queue'[p] = e
    BY <2>1, Joined DEF Typed
  <2> QED
    BY <1>1, <2>2
<1> QED
  BY <1>1, EventsKept

LEMMA BootSteps ==
  ASSUME Typed, Control, FollowNext, NEW i \in Id
  PROVE  \/ boot'[i] = boot[i]
         \/ boot'[i] = 0
         \/ TakeDone /\ boot' = Head(queue).boot
<1>0. boot \in [Id -> Nat]
  BY DEF Typed, TypedLoop
<1>1. CASE Applies
  <2>1. PICK then : ApplyListen(Coming[1], then)
    BY <1>1, AppliesFirst
  <2>2. boot' = boot \/ boot' = [boot EXCEPT ![Coming[1].id] = 0]
    BY <2>1 DEF ApplyListen, Forget
  <2> QED
    BY <1>0, <2>2
<1>2. ASSUME NEW j \in Id, MemberStep(j)
      PROVE  boot'[i] = boot[i] \/ boot'[i] = 0
  BY <1>0, <1>2 DEF MemberStep
<1>3. CASE TakeDone
  BY <1>3 DEF TakeDone
<1>4. CASE ~Applies /\ ~TakeDone /\ \A j \in Id : ~MemberStep(j)
  BY <1>4, StepNames DEF Write, Remove, Slip, Announce, PrintRow, SweepStep, ServePrint, PrintDone, ServeMember,
    MemberDone, ServeSweep, SweepDone, SweepTimer, Stop, Abandon, CommandFails, CommandEnds,
    TakeListen, Applies, TakeRow, TakeMember, TakeSweepStart, TakeSweep, TakeEnd, Batch, Posting,
    Halting, ReplayEnd, BatchEnd, Finish, PostSync, PostSweep, PostNothing, PostMember, loop
<1> QED
  BY <1>1, <1>2, <1>3, <1>4

LEMMA WaitedStep ==
  ASSUME Typed, Typed', Control, Waited, FollowNext
  PROVE  Waited'
<1> SUFFICES ASSUME menu.query, NEW i \in Id
             PROVE  /\ boot'[i] <= latest'[i]
                    /\ \A p \in 1..Len(queue') :
                         queue'[p].is = "done" => queue'[p].boot[i] <= latest'[i]
  BY RouterUnchanged DEF Waited
<1>0. /\ boot[i] \in Nat /\ latest[i] \in 0..version /\ latest'[i] \in Nat /\ version \in Nat
      /\ latest \in [Id -> 0..version]
  BY DEF Typed, TypedTaps, TypedLoop
<1>1. /\ boot[i] <= latest[i]
      /\ \A p \in 1..Len(queue) : queue[p].is = "done" => queue[p].boot[i] <= latest[i]
  BY DEF Waited
<1>2. CASE latest'[i] = latest[i] \/ Announce(i)
  <2>1. latest[i] <= latest'[i]
    BY <1>0, <1>2 DEF Announce
  <2>2. boot'[i] <= latest[i]
    <3>1. CASE TakeDone /\ boot' = Head(queue).boot
      <4>1. Len(queue) \in Nat \ {0} /\ queue[1] = Head(queue) /\ queue[1].is = "done"
        BY <3>1, Taken DEF TakeDone, Typed
      <4> QED
        BY <1>1, <3>1, <4>1
    <3> QED
      BY <1>0, <1>1, <3>1, BootSteps
  <2>3. boot'[i] <= latest'[i]
    <3>1. boot'[i] \in Nat
      BY DEF Typed, TypedLoop
    <3> QED
      BY <1>0, <2>1, <2>2, <3>1
  <2>4. ASSUME NEW p \in 1..Len(queue'), queue'[p].is = "done"
        PROVE  queue'[p].boot[i] <= latest'[i]
    <3>1. queue'[p].boot[i] \in Nat
      <4>1. queue' \in Seq(Event)
        BY DEF Typed, TypedTaps
      <4>2. queue'[p] \in Event
        BY <4>1
      <4> QED
        BY <2>4, <4>2, EventKinds
    <3>2. CASE \E r \in 1..Len(queue) : queue'[p] = queue[r]
      <4>1. queue'[p].boot[i] <= latest[i]
        BY <1>1, <2>4, <3>2
      <4> QED
        BY <1>0, <2>1, <3>1, <4>1
    <3>3. CASE PrintDone /\ queue'[p].boot = latest
      BY <1>0, <2>1, <3>3
    <3> QED
      BY <2>4, <3>2, <3>3, DoneQueued
  <2> QED
    BY <2>3, <2>4
<1>3. CASE latest'[i] # latest[i] /\ ~Announce(i)
  <2>1. /\ latest'[i] = 0
        /\ \/ Applies /\ boot'[i] = 0
           \/ MemberStep(i) /\ latest[i] = left.versions[i]
    BY <1>3, LatestResets
  <2>2. boot'[i] = 0
    <3>1. CASE MemberStep(i) /\ latest[i] = left.versions[i]
      <4>1. boot' = IF boot[i] # 0 /\ left.versions[i] >= boot[i]
                    THEN [boot EXCEPT ![i] = 0] ELSE boot
        BY <3>1 DEF MemberStep
      <4>2. left.versions[i] >= boot[i]
        BY <1>0, <1>1, <3>1
      <4> QED
        BY <4>1, <4>2 DEF Typed, TypedLoop
    <3> QED
      BY <2>1, <3>1
  <2>3. complete /\ ~PrintDone
    <3>1. complete
      BY <2>1, AppliesFirst DEF MemberStep, Batch, Control, Printing
    <3>2. run["print"] = "over"
      BY <3>1 DEF Control, Printing
    <3> QED
      BY <3>1, <3>2 DEF PrintDone
  <2>4. ASSUME NEW p \in 1..Len(queue'), queue'[p].is = "done"
        PROVE  FALSE
    <3>1. PICK r \in 1..Len(queue) : queue'[p] = queue[r]
      BY <2>3, <2>4, DoneQueued
    <3>2. Has(queue, "done")
      BY <2>4, <3>1 DEF Has
    <3> QED
      BY <2>3, <3>2 DEF Control, Printing
  <2> QED
    BY <2>1, <2>2, <2>4
<1> QED
  BY <1>2, <1>3

-----------------------------------------------------------------------------
(* The loop does not wait with work left.                                  *)
LEMMA PrintSteps ==
  ASSUME Typed, Control, FollowNext, ~aborted'
  PROVE  \/ run'["print"] = run["print"]
         \/ ServePrint
         \/ PrintDone
<1>0. run \in [Command -> {"off", "sent", "served", "over"}] /\ draining /\ ~aborted
  BY StillGoing DEF Typed, TypedWire
<1>1. ASSUME NEW c \in Command, CommandFails(c) \/ CommandEnds(c)
      PROVE  run'["print"] = run["print"]
  <2>1. c = "listen" /\ run' = [run EXCEPT ![c] = "over"]
    BY <1>0, <1>1 DEF CommandFails, CommandEnds, Halt
  <2> QED
    BY <1>0, <2>1
<1>2. ASSUME NEW c, c # "print", NEW x, run' = [run EXCEPT ![c] = x]
      PROVE  run'["print"] = run["print"]
  BY <1>0, <1>2
<1>3. \/ run' = run
      \/ ServePrint \/ PrintDone
      \/ \E c \in Command : CommandFails(c) \/ CommandEnds(c)
      \/ \E x : run' = [run EXCEPT !["member"] = x] \/ run' = [run EXCEPT !["sweep"] = x]
  BY StepNames DEF Write, Remove, Slip, Announce, PrintRow, SweepStep, MemberStep,
    ServeMember, MemberDone, ServeSweep, SweepDone, SweepTimer, StartSweep, Stop, Abandon, TakeDone,
    TakeListen, ReplayStep, TakeRow, TakeMember, TakeSweepStart, TakeSweep, TakeEnd, Batch, Posting,
    Halting, ReplayEnd, BatchEnd, Finish, PostSync, PostSweep, PostNothing, PostMember, loop
<1> QED
  BY <1>1, <1>2, <1>3

LEMMA PrintEnds ==
  ASSUME Typed, Control, FollowNext, ~aborted',
         run["print"] = "over" => complete \/ Has(queue, "done"),
         run'["print"] = "over"
  PROVE  complete' \/ Has(queue', "done")
<1>0. run \in [Command -> {"off", "sent", "served", "over"}] /\ draining /\ ~aborted
  BY StillGoing DEF Typed, TypedWire
<1>1. CASE PrintDone
  <2> DEFINE b == IF menu.query THEN latest ELSE Zero
             e == [is |-> "done", boot |-> b]
  <2>1. Push(e) /\ e \in Event
    <3>1. b \in [Id -> Nat]
      BY DEF Typed, TypedTaps, Zero
    <3>2. Push(e)
      BY <1>1 DEF PrintDone
    <3> HIDE DEF b
    <3> QED
      BY <3>1, <3>2, EventIn
  <2>2. Has(queue', "done")
    BY <1>0, <2>1, KindsPushed DEF Typed
  <2> QED
    BY <2>2
<1>2. CASE TakeDone
  BY <1>2 DEF TakeDone
<1>3. CASE ~PrintDone /\ ~TakeDone
  <2>1. run["print"] = "over"
    BY <1>0, <1>3, PrintSteps, Commands DEF ServePrint
  <2>2. CASE complete
    <3>1. complete'
      BY <2>2, StepNames DEF Write, Remove, Slip, Announce, PrintRow, SweepStep, MemberStep, ServePrint, PrintDone,
        ServeMember, MemberDone, ServeSweep, SweepDone, SweepTimer, Stop, Abandon, CommandFails, CommandEnds,
        TakeListen, ReplayStep, TakeRow, TakeDone, TakeMember, TakeSweepStart, TakeSweep, TakeEnd, Batch, Posting,
        Halting, ReplayEnd, BatchEnd, Finish, PostSync, PostSweep, PostNothing, PostMember, loop
    <3> QED
      BY <3>1
  <2>3. CASE Has(queue, "done")
    <3>1. PICK m \in Nat : Moved(queue, queue', "done", m)
      <4>1. \E m \in Nat : Moved(queue, queue', "done", m)
        BY <1>3, EventsMoved
      <4> QED
        BY <4>1
    <3>2. PICK p \in 1..Len(queue) : queue[p].is = "done"
      BY <2>3 DEF Has
    <3>3. p - m \in 1..Len(queue') /\ queue'[p - m] = queue[p]
      BY <3>1, <3>2 DEF Moved
    <3>4. Has(queue', "done")
      BY <3>2, <3>3 DEF Has
    <3> QED
      BY <3>4
  <2> QED
    BY <1>0, <2>1, <2>2, <2>3
<1> QED
  BY <1>1, <1>2, <1>3

LEMMA PromptStep ==
  ASSUME Typed, Typed', Control, Uncounted, Uncounted', Prompt, FollowNext
  PROVE  Prompt'
<1> SUFFICES ASSUME ~aborted'
             PROVE  /\ run'["print"] = "over" => complete' \/ Has(queue', "done")
                    /\ menu'.query /\ pc' = "take" /\ Ids(dirty)' # {} => asking' \/ sweep' = "running"
                    /\ pc' # "replay" /\ ~menu'.query /\ complete' => synced'
                    /\ menu'.query /\ pc' = "take" /\ complete' /\ boot' = Zero => synced'
  BY DEF Prompt
<1>0. ~aborted /\ menu' = menu
  BY StillGoing, RouterUnchanged
<1>1. run'["print"] = "over" => complete' \/ Has(queue', "done")
  BY <1>0, PrintEnds DEF Prompt
<1>2. ASSUME menu.query, pc' = "take"
      PROVE  \/ PostSweep \/ PostNothing \/ \E batch \in SUBSET Id : PostMember(batch)
             \/ SweepTimer /\ pc = "take"
             \/ UNCHANGED <<pc, dirty, asking, sweep, complete, synced, boot>>
  <2>1. ~TakeListen /\ ~ReplayStep
    BY <1>2 DEF TakeListen, ReplayStep, ApplyListen, Tell, Leave, Next_
  <2>2. ~TakeRow /\ ~TakeDone /\ ~TakeMember /\ ~TakeSweepStart /\ ~TakeSweep /\ ~TakeEnd
    BY <1>2 DEF TakeRow, TakeDone, TakeMember, TakeSweepStart, TakeSweep, TakeEnd, Leave, Next_
  <2>3. \A i \in Id : ~MemberStep(i) /\ ~SweepStep(i)
    BY <1>2 DEF MemberStep, SweepStep, Tell, Leave
  <2>4. ~Halting /\ ~ReplayEnd /\ ~BatchEnd /\ ~Finish /\ ~PostSync /\ ~Abandon
    BY <1>2 DEF Halting, ReplayEnd, BatchEnd, Finish, PostSync, Posting, Abandon, Leave, Next_
  <2>5. SweepTimer => pc = "take"
    BY <1>2 DEF SweepTimer
  <2>6. ASSUME \/ \E i \in Id : Write(i) \/ Remove(i) \/ Slip(i) \/ Announce(i) \/ PrintRow(i)
               \/ ServePrint \/ PrintDone \/ ServeMember \/ MemberDone \/ ServeSweep
               \/ SweepDone \/ Stop \/ \E c \in Command : CommandFails(c) \/ CommandEnds(c)
        PROVE  UNCHANGED <<pc, dirty, asking, sweep, complete, synced, boot>>
    BY <2>6 DEF Write, Remove, Slip, Announce, PrintRow, ServePrint, PrintDone,
      ServeMember, MemberDone, ServeSweep, SweepDone, Stop, CommandFails, CommandEnds, loop
  <2> QED
    BY <2>1, <2>2, <2>3, <2>4, <2>5, <2>6, StepNames
<1>3. ASSUME menu.query, pc' = "take"
      PROVE  /\ Ids(dirty)' # {} => asking' \/ sweep' = "running"
             /\ complete' /\ boot' = Zero => synced'
  <2>1. CASE PostSweep
    BY <2>1 DEF PostSweep, Posting, StartSweep
  <2>2. CASE PostNothing
    <3>1. asking \/ sweep = "running" \/ Ids(dirty) = {}
      BY <2>2 DEF PostNothing
    <3>2. UNCHANGED <<asking, dirty, boot, complete, synced>> /\ (complete /\ boot = Zero => synced)
          /\ (sweep = "running" => sweep' = "running")
      BY <2>2 DEF PostNothing, Posting, Armed
    <3> QED
      BY <3>1, <3>2 DEF Ids
  <2>3. CASE \E batch \in SUBSET Id : PostMember(batch)
    BY <2>3 DEF PostMember, Posting
  <2>4. CASE SweepTimer /\ pc = "take"
    <3>1. UNCHANGED <<asking, dirty, boot, complete, synced>> /\ sweep # "running"
      BY <2>4 DEF SweepTimer
    <3> QED
      BY <1>0, <1>3, <2>4, <3>1 DEF Prompt, Ids
  <2>5. CASE UNCHANGED <<pc, dirty, asking, sweep, complete, synced, boot>>
    BY <1>0, <1>3, <2>5 DEF Prompt, Ids
  <2> QED
    BY <1>2, <1>3, <2>1, <2>2, <2>3, <2>4, <2>5
<1>4. ASSUME ~menu.query, pc' # "replay", complete'
      PROVE  synced'
  <2>1. CASE ReplayEnd
    BY <1>4, <2>1 DEF ReplayEnd
  <2>2. CASE ReplayStep
    BY <1>4, <2>2 DEF ReplayStep, ApplyListen, Tell, Leave, Halt
  <2>3. CASE ~ReplayEnd /\ ~ReplayStep
    <3>0. ~TakeDone
      BY <1>4 DEF TakeDone
    <3>1. UNCHANGED complete /\ (synced => synced')
      <4>1. CASE PostSync
        BY <4>1 DEF PostSync, Posting
      <4>2. ASSUME \/ TakeListen \/ TakeRow \/ TakeMember \/ TakeSweepStart \/ TakeSweep \/ TakeEnd
                   \/ Halting \/ BatchEnd \/ Finish \/ PostSweep \/ PostNothing
                   \/ \E i \in Id : MemberStep(i) \/ SweepStep(i)
                   \/ \E batch \in SUBSET Id : PostMember(batch)
            PROVE  UNCHANGED <<complete, synced>>
        BY <4>2 DEF TakeListen, TakeRow, TakeMember, TakeSweepStart, TakeSweep, TakeEnd, Halting,
          BatchEnd, Batch, Finish, PostSweep, PostNothing, Posting, MemberStep, SweepStep, PostMember, loop
      <4>3. ASSUME \/ \E i \in Id : Write(i) \/ Remove(i) \/ Slip(i) \/ Announce(i) \/ PrintRow(i)
                   \/ ServePrint \/ PrintDone \/ ServeMember \/ MemberDone \/ ServeSweep
                   \/ SweepDone \/ SweepTimer \/ Stop \/ Abandon
                   \/ \E c \in Command : CommandFails(c) \/ CommandEnds(c)
            PROVE  UNCHANGED <<complete, synced>>
        BY <4>3 DEF Write, Remove, Slip, Announce, PrintRow, ServePrint, PrintDone, ServeMember,
          MemberDone, ServeSweep, SweepDone, SweepTimer, Stop, Abandon, CommandFails, CommandEnds, loop
      <4> QED
        BY <2>3, <3>0, <4>1, <4>2, <4>3, StepNames
    <3>2. CASE pc = "replay"
      <4>1. FALSE \/ Halting \/ pc' = "replay"
        BY <2>3, <3>2, StepNames DEF Write, Remove, Slip, Announce, PrintRow, SweepStep, MemberStep, ServePrint, PrintDone,
          ServeMember, MemberDone, ServeSweep, SweepDone, SweepTimer, Stop, Abandon, CommandFails, CommandEnds,
          TakeListen, TakeRow, TakeDone, TakeMember, TakeSweepStart, TakeSweep, TakeEnd, Batch, Posting, Taking,
          Halting, BatchEnd, Finish, PostSync, PostSweep, PostNothing, PostMember
      <4> QED
        BY <1>4, <4>1 DEF Halting, Leave, Halt
    <3> QED
      BY <1>0, <1>4, <3>1, <3>2 DEF Prompt
  <2> QED
    BY <2>1, <2>2, <2>3
<1> QED
  BY <1>0, <1>1, <1>3, <1>4

-----------------------------------------------------------------------------
(* A change that was announced is never lost from sight.                   *)
LEMMA DirtySame ==
  ASSUME Typed, Control, FollowNext, ~Applies, \A batch \in SUBSET Id : ~PostMember(batch)
  PROVE  dirty' = dirty
<1>1. ASSUME \/ TakeRow \/ TakeDone \/ TakeMember \/ TakeSweepStart \/ TakeSweep \/ TakeEnd
             \/ Halting \/ ReplayEnd \/ BatchEnd \/ Finish \/ PostSync \/ PostSweep \/ PostNothing
             \/ \E i \in Id : MemberStep(i) \/ SweepStep(i)
      PROVE  dirty' = dirty
  BY <1>1 DEF TakeRow, TakeDone, TakeMember, TakeSweepStart, TakeSweep, TakeEnd, Halting, ReplayEnd,
    BatchEnd, Batch, Finish, PostSync, PostSweep, PostNothing, Posting, MemberStep, SweepStep, loop
<1>2. ASSUME \/ \E i \in Id : Write(i) \/ Remove(i) \/ Slip(i) \/ Announce(i) \/ PrintRow(i)
             \/ ServePrint \/ PrintDone \/ ServeMember \/ MemberDone \/ ServeSweep
             \/ SweepDone \/ SweepTimer \/ Stop \/ Abandon
             \/ \E c \in Command : CommandFails(c) \/ CommandEnds(c)
      PROVE  dirty' = dirty
  BY <1>2 DEF Write, Remove, Slip, Announce, PrintRow, ServePrint, PrintDone, ServeMember,
    MemberDone, ServeSweep, SweepDone, SweepTimer, Stop, Abandon, CommandFails, CommandEnds, loop
<1>3. TakeListen => dirty' = dirty
  BY DEF Applies, TakeListen
<1> QED
  BY <1>1, <1>2, <1>3, StepNames DEF Applies

LEMMA AskedKept ==
  ASSUME Typed, Control, FollowNext, ~aborted', \A i \in Id : ~MemberStep(i),
         \A batch \in SUBSET Id : ~PostMember(batch)
  PROVE  Asked' = Asked
<1>1. CASE MemberDone \/ TakeMember
  BY <1>1, AskedByAnswer
<1>2. CASE ~MemberDone /\ ~TakeMember
  BY <1>2, AskedElse
<1> QED
  BY <1>1, <1>2

LEMMA ComingPassed ==
  ASSUME Typed, Control, Typed', FollowNext, ~aborted', \A i \in Id : ~Announce(i),
         NEW i, NEW p \in 1..Len(Coming), Says(Coming, i, p)
  PROVE  \/ \E r \in 1..Len(Coming') : Coming'[r] = Coming[p] /\ Says(Coming', i, r)
         \/ Applies /\ p = 1
<1>0. Len(Coming) \in Nat
  BY BackTyped, Joins DEF Coming
<1>1. Coming[p].is = "listen"
  BY DEF Says
<1>2. CASE Passed(Coming, Coming', 0)
  <2>1. \E r \in 1..Len(Coming') : Coming'[r] = Coming[p]
    BY <1>0, <1>1, <1>2 DEF Passed
  <2> QED
    BY <2>1 DEF Says
<1>3. CASE Applies /\ Passed(Coming, Coming', 1)
  <2>1. CASE p > 1
    <3>1. \E r \in 1..Len(Coming') : Coming'[r] = Coming[p]
      BY <1>1, <1>3, <2>1 DEF Passed
    <3> QED
      BY <3>1 DEF Says
  <2> QED
    BY <1>0, <1>3, <2>1
<1> QED
  BY <1>2, <1>3, ComingKept

LEMMA OwedStep ==
  ASSUME Typed, Typed', Control, Owed, FollowNext
  PROVE  Owed'
<1> SUFFICES ASSUME menu.query, ~aborted', NEW i \in Id, latest'[i] # 0
             PROVE  \/ \E p \in 1..Len(Coming') : Says(Coming', i, p) /\ Coming'[p].at = latest'[i]
                    \/ dirty'[i] = latest'[i]
                    \/ latest'[i] \in Asked'[i]
  BY RouterUnchanged DEF Owed
<1>0. /\ ~aborted /\ draining /\ aborted' # TRUE
      /\ latest \in [Id -> 0..version] /\ dirty \in [Id -> Nat]
  BY StillGoing DEF Typed, TypedTaps, TypedLoop
<1>1. ASSUME latest[i] # 0
      PROVE  \/ \E p \in 1..Len(Coming) : Says(Coming, i, p) /\ Coming[p].at = latest[i]
             \/ dirty[i] = latest[i]
             \/ latest[i] \in Asked[i]
  BY <1>0, <1>1 DEF Owed
<1>2. ASSUME NEW j \in Id, Announce(j)
      PROVE  \/ \E p \in 1..Len(Coming') : Says(Coming', i, p) /\ Coming'[p].at = latest'[i]
             \/ dirty'[i] = latest'[i]
             \/ latest'[i] \in Asked'[i]
  <2>1. PICK e \in Listen :
           /\ e.is = "listen" /\ e.id = j /\ e.ver = table[j]
           /\ menu.query => e.at = version + 1
           /\ Len(Coming) \in Nat /\ Len(Coming') \in Nat /\ Len(Coming) <= Len(Coming')
           /\ \A p \in 1..Len(Coming) : p \in 1..Len(Coming') /\ Coming'[p] = Coming[p]
           /\ \A p \in 1..Len(Coming') :
                \/ p \in 1..Len(Coming)
                \/ p = Len(Coming) + 1 /\ Coming'[p] = e /\ draining
           /\ aborted' # TRUE /\ draining => Len(Coming) + 1 \in 1..Len(Coming')
    BY <1>2, ComingJoined
  <2>2. latest' = [latest EXCEPT ![j] = version + 1] /\ dirty' = dirty
    BY <1>0, <1>2 DEF Announce, loop
  <2>3. CASE j = i
    <3>1. latest'[i] = version + 1
      BY <1>0, <2>2, <2>3
    <3>2. Len(Coming) + 1 \in 1..Len(Coming') /\ Coming'[Len(Coming) + 1] = e
      BY <1>0, <2>1
    <3> QED
      BY <2>1, <2>3, <3>1, <3>2 DEF Says
  <2>4. CASE j # i
    <3>1. latest'[i] = latest[i] /\ dirty'[i] = dirty[i]
      BY <1>0, <2>2, <2>4
    <3>2. Asked' = Asked
      <4>1. \A k \in Id : ~MemberStep(k)
        BY <1>2 DEF Announce, MemberStep, Batch, router
      <4>2. \A batch \in SUBSET Id : ~PostMember(batch)
        BY <1>2 DEF Announce, PostMember, Posting
      <4> QED
        BY <4>1, <4>2, AskedKept
    <3>3. \A p \in 1..Len(Coming) : Says(Coming, i, p) => p \in 1..Len(Coming') /\ Says(Coming', i, p)
                                                       /\ Coming'[p] = Coming[p]
      BY <2>1 DEF Says
    <3> QED
      BY <1>1, <3>1, <3>2, <3>3
  <2> QED
    BY <2>3, <2>4
<1>3. CASE \A j \in Id : ~Announce(j)
  <2>1. latest'[i] = latest[i] /\ latest[i] # 0
    BY <1>3, LatestSteps
  <2>2. CASE Applies
    <3>1. PICK then : ApplyListen(Coming[1], then)
      BY <2>2, AppliesFirst
    <3>2. Coming[1] \in Listen /\ Coming[1].is = "listen" /\ Coming[1].id \in Id
      BY <2>2, AppliesFirst DEF Listen
    <3>3. Asked' = Asked
      <4>1. (\A k \in Id : ~MemberStep(k)) /\ \A batch \in SUBSET Id : ~PostMember(batch)
        BY <2>2 DEF Applies, ReplayStep, TakeListen, Taking, MemberStep, PostMember, Posting, Batch
      <4> QED
        BY <4>1, AskedKept
    <3>4. \/ dirty' = dirty
          \/ dirty' = [dirty EXCEPT ![Coming[1].id] = Coming[1].at] /\ ~Stale(Coming[1])
          \/ Forget(Coming[1].id)
      BY <3>1 DEF ApplyListen
    <3>5. CASE Coming[1].id = i /\ Forget(i)
      BY <1>0, <2>1, <3>5 DEF Forget
    <3>6. CASE Coming[1].id = i /\ dirty' = [dirty EXCEPT ![i] = Coming[1].at] /\ ~Stale(Coming[1])
      <4>1. Coming[1].at = latest[i]
        BY <3>6 DEF Stale
      <4> QED
        BY <1>0, <2>1, <3>6, <4>1
    <3>7. CASE dirty'[i] = dirty[i] /\ (Coming[1].id # i \/ Stale(Coming[1]))
      <4>1. ASSUME NEW p \in 1..Len(Coming), Says(Coming, i, p), Coming[p].at = latest[i]
            PROVE  \E r \in 1..Len(Coming') : Says(Coming', i, r) /\ Coming'[r].at = latest'[i]
        <5>1. p # 1
          BY <3>7, <4>1 DEF Says, Stale
        <5>2. \E r \in 1..Len(Coming') : Coming'[r] = Coming[p] /\ Says(Coming', i, r)
          BY <1>3, <4>1, <5>1, ComingPassed
        <5> QED
          BY <2>1, <4>1, <5>2
      <4> QED
        BY <1>1, <2>1, <3>3, <3>7, <4>1
    <3>8. CASE Coming[1].id = i /\ dirty' = dirty /\ ~Stale(Coming[1])
      <4>1. ~Dead(Coming[1]) \/ Forget(i)
        BY <3>1, <3>8 DEF ApplyListen
      <4>2. dirty' = [dirty EXCEPT ![i] = Coming[1].at] \/ Forget(i)
        BY <3>1, <3>8, <4>1 DEF ApplyListen
      <4> QED
        BY <3>5, <3>6, <3>8, <4>2
    <3>9. Coming[1].id # i => dirty'[i] = dirty[i]
      BY <1>0, <3>2, <3>4 DEF Forget
    <3> QED
      BY <3>4, <3>5, <3>6, <3>7, <3>8, <3>9
  <2>3. ASSUME ~Applies, NEW p \in 1..Len(Coming), Says(Coming, i, p), Coming[p].at = latest[i]
        PROVE  \E r \in 1..Len(Coming') : Says(Coming', i, r) /\ Coming'[r].at = latest'[i]
    <3>1. \E r \in 1..Len(Coming') : Coming'[r] = Coming[p] /\ Says(Coming', i, r)
      BY <1>3, <2>3, ComingPassed
    <3> QED
      BY <2>1, <2>3, <3>1
  <2>4. ASSUME NEW batch \in SUBSET Id, PostMember(batch)
        PROVE  \/ \E p \in 1..Len(Coming') : Says(Coming', i, p) /\ Coming'[p].at = latest'[i]
               \/ dirty'[i] = latest'[i]
               \/ latest'[i] \in Asked'[i]
    <3>1. /\ Asked[i] = {} /\ \A n : n \in Asked'[i] <=> i \in batch /\ n = dirty[i]
          /\ dirty'[i] = IF i \in batch THEN 0 ELSE dirty[i]
      BY <2>4, AskedByMember DEF PostMember
    <3>2. ~Applies
      BY <2>4 DEF Applies, ReplayStep, TakeListen, Taking, PostMember, Posting, Batch
    <3> QED
      BY <1>1, <2>1, <2>3, <3>1, <3>2
  <2>5. ASSUME NEW j \in Id, MemberStep(j)
        PROVE  \/ \E p \in 1..Len(Coming') : Says(Coming', i, p) /\ Coming'[p].at = latest'[i]
               \/ dirty'[i] = latest'[i]
               \/ latest'[i] \in Asked'[i]
    <3>1. ~Applies /\ (\A batch \in SUBSET Id : ~PostMember(batch))
      BY <2>5 DEF Applies, ReplayStep, TakeListen, Taking, PostMember, Posting, MemberStep, Batch
    <3>2. dirty' = dirty
      BY <3>1, DirtySame
    <3>3. latest[i] \in Asked[i] => latest'[i] \in Asked'[i]
      <4>1. CASE j # i
        BY <1>0, <2>1, <2>5, <4>1, AskedByStep
      <4>2. CASE j = i /\ latest[i] \in Asked[i]
        <5>0. Asked[j] = {left.versions[j]}
          BY <2>5, AskedByStep
        <5>1. latest[i] = left.versions[i]
          BY <4>2, <5>0
        <5>2. latest' = [latest EXCEPT ![i] = 0]
          BY <2>5, <4>2, <5>1 DEF MemberStep
        <5> QED
          BY <1>0, <2>1, <5>2
      <4> QED
        BY <4>1, <4>2
    <3> QED
      BY <1>1, <2>1, <2>3, <3>1, <3>2, <3>3
  <2>6. CASE ~Applies /\ (\A j \in Id : ~MemberStep(j)) /\ \A batch \in SUBSET Id : ~PostMember(batch)
    <3>1. dirty' = dirty /\ Asked' = Asked
      BY <2>6, DirtySame, AskedKept
    <3> QED
      BY <1>1, <2>1, <2>3, <2>6, <3>1
  <2> QED
    BY <2>2, <2>4, <2>5, <2>6
<1> QED
  BY <1>2, <1>3

-----------------------------------------------------------------------------
(* Without a query the last reply on an id is what the router holds.       *)
LEMMA LaterPassed ==
  ASSUME NEW S, NEW R, NEW k \in Nat, Passed(S, R, k), Len(S) \in Nat, Len(R) \in Nat,
         NEW i, NEW p \in 1..Len(R), Says(R, i, p)
  PROVE  \E b \in 1..Len(S) :
           /\ Says(S, i, b) /\ R[p] = S[b]
           /\ \A q \in 1..Len(S) : q > b /\ Says(S, i, q) =>
                \E r \in 1..Len(R) : r > p /\ Says(R, i, r)
<1>1. PICK f : /\ Kept(S, R, f)
               /\ \A r \in 1..Len(R) : f[r] > k
               /\ \A r \in 1..Len(S) : S[r].is = "listen" /\ r > k =>
                    \E t \in 1..Len(R) : f[t] = r /\ R[t] = S[r]
  BY DEF Passed
<1>2. R[p].is = "listen" /\ R[p].id = i
  BY DEF Says
<1>3. f[p] \in 1..Len(S) /\ R[p] = S[f[p]] /\ f[p] > k
  BY <1>1, <1>2 DEF Kept
<1>4. Says(S, i, f[p])
  BY <1>2, <1>3 DEF Says
<1>5. ASSUME NEW q \in 1..Len(S), q > f[p], Says(S, i, q)
      PROVE  \E r \in 1..Len(R) : r > p /\ Says(R, i, r)
  <2>1. q > k /\ S[q].is = "listen"
    BY <1>3, <1>5 DEF Says
  <2>2. PICK t \in 1..Len(R) : f[t] = q /\ R[t] = S[q]
    BY <1>1, <2>1
  <2>3. R[t].is = "listen" /\ Says(R, i, t)
    BY <1>5, <2>1, <2>2 DEF Says
  <2>4. t # p
    BY <1>3, <1>5, <2>2
  <2>5. ~(t < p)
    <3>1. t < p => f[t] < f[p]
      BY <1>1, <1>2, <2>3 DEF Kept
    <3>2. ~(q < f[p])
      BY <1>3, <1>5
    <3> QED
      BY <2>2, <3>1, <3>2
  <2>6. t > p
    BY <2>4, <2>5
  <2> QED
    BY <2>3, <2>6
<1> QED
  BY <1>3, <1>4, <1>5

LEMMA LastIsTrueStep ==
  ASSUME Typed, Typed', Control, LastIsTrue, FollowNext
  PROVE  LastIsTrue'
<1> SUFFICES ASSUME ~menu.query, ~aborted', NEW i \in Steady', NEW p \in 1..Len(Coming'),
                    Says(Coming', i, p)
             PROVE  \/ Coming'[p].ver = table'[i]
                    \/ \E q \in 1..Len(Coming') : q > p /\ Says(Coming', i, q)
  BY RouterUnchanged DEF LastIsTrue
<1>0. ~aborted /\ draining /\ aborted' # TRUE
  BY StillGoing
<1>1. i \in Id /\ table'[i] = table[i] /\ (i \in Steady \/ Announce(i))
  BY SteadySteps
<1>2. Len(Coming) \in Nat
  BY BackTyped, Joins DEF Coming
<1>3. Len(Coming') \in Nat
  BY BackTypedNext, Joins DEF Coming
<1>4. ASSUME i \in Steady, NEW b \in 1..Len(Coming), Says(Coming, i, b)
      PROVE  \/ Coming[b].ver = table[i]
             \/ \E q \in 1..Len(Coming) : q > b /\ Says(Coming, i, q)
  BY <1>0, <1>4 DEF LastIsTrue
<1>5. ASSUME NEW j \in Id, Announce(j)
      PROVE  \/ Coming'[p].ver = table'[i]
             \/ \E q \in 1..Len(Coming') : q > p /\ Says(Coming', i, q)
  <2>1. PICK e \in Listen :
           /\ e.is = "listen" /\ e.id = j /\ e.ver = table[j]
           /\ menu.query => e.at = version + 1
           /\ Len(Coming) \in Nat /\ Len(Coming') \in Nat /\ Len(Coming) <= Len(Coming')
           /\ \A r \in 1..Len(Coming) : r \in 1..Len(Coming') /\ Coming'[r] = Coming[r]
           /\ \A r \in 1..Len(Coming') :
                \/ r \in 1..Len(Coming)
                \/ r = Len(Coming) + 1 /\ Coming'[r] = e /\ draining
           /\ aborted' # TRUE /\ draining => Len(Coming) + 1 \in 1..Len(Coming')
    BY <1>5, ComingJoined
  <2>2. Len(Coming) + 1 \in 1..Len(Coming') /\ Coming'[Len(Coming) + 1] = e
    BY <1>0, <1>2, <2>1
  <2>3. CASE j = i
    <3>1. Says(Coming', i, Len(Coming) + 1)
      BY <2>1, <2>2, <2>3 DEF Says
    <3>2. CASE p = Len(Coming) + 1
      BY <1>1, <2>1, <2>2, <2>3, <3>2
    <3>3. CASE p \in 1..Len(Coming)
      <4>1. Len(Coming) + 1 > p
        BY <1>2, <3>3
      <4> QED
        BY <2>2, <3>1, <4>1
    <3> QED
      BY <2>1, <3>2, <3>3
  <2>4. CASE j # i
    <3>1. p \in 1..Len(Coming) /\ Says(Coming, i, p)
      BY <2>1, <2>4 DEF Says
    <3>2. i \in Steady
      BY <1>1, <1>5, <2>4, <2>1 DEF Announce, Steady
    <3>3. \/ Coming[p].ver = table[i]
          \/ \E q \in 1..Len(Coming) : q > p /\ Says(Coming, i, q)
      BY <1>4, <3>1, <3>2
    <3>4. \A q \in 1..Len(Coming) : Says(Coming, i, q) => q \in 1..Len(Coming') /\ Says(Coming', i, q)
      BY <2>1 DEF Says
    <3> QED
      BY <1>1, <2>1, <3>1, <3>3, <3>4
  <2> QED
    BY <2>3, <2>4
<1>6. CASE \A j \in Id : ~Announce(j)
  <2>1. i \in Steady
    BY <1>1, <1>6
  <2>2. \E k \in Nat : Passed(Coming, Coming', k)
    BY <1>0, <1>6, ComingKept
  <2>3. PICK b \in 1..Len(Coming) :
           /\ Says(Coming, i, b) /\ Coming'[p] = Coming[b]
           /\ \A q \in 1..Len(Coming) : q > b /\ Says(Coming, i, q) =>
                \E r \in 1..Len(Coming') : r > p /\ Says(Coming', i, r)
    BY <1>2, <1>3, <2>2, LaterPassed
  <2> QED
    BY <1>1, <1>4, <2>1, <2>3
<1> QED
  BY <1>5, <1>6

-----------------------------------------------------------------------------
(* An answer that no later change overtook is what the router holds.       *)
LEMMA AnswerIsTrueStep ==
  ASSUME Typed, Typed', Control, Fresh, Uncounted', AnswerIsTrue, FollowNext
  PROVE  AnswerIsTrue'
<1> SUFFICES ASSUME ~aborted', NEW i \in Steady', latest'[i] # 0
             PROVE  /\ run'["member"] = "served" /\ reply'.versions[i] = latest'[i] =>
                         reply'.rows[i] = Rows'[i]
                    /\ \A p \in 1..Len(queue') :
                         queue'[p].is = "member" /\ queue'[p].versions[i] = latest'[i] =>
                           queue'[p].rows[i] = Rows'[i]
                    /\ pc' = "member" /\ i \in left'.ids /\ left'.versions[i] = latest'[i] =>
                         left'.rows[i] = Rows'[i]
  BY DEF AnswerIsTrue
<1>0. /\ ~aborted /\ draining /\ aborted' # TRUE
      /\ latest \in [Id -> 0..version] /\ version \in Nat
      /\ reply \in [versions : [Id -> Nat], rows : [Id -> Version], ids : SUBSET Id]
  BY StillGoing DEF Typed, TypedTaps, TypedWire
<1>1. i \in Id /\ Rows'[i] = Rows[i] /\ (i \in Steady \/ Announce(i))
  BY SteadySteps
<1>2. CASE Announce(i)
  <2>1. menu.query
    <3>1. CASE ~menu.query
      <4>1. latest' = Zero
        BY <3>1, RouterUnchanged DEF Uncounted
      <4> QED
        BY <1>1, <4>1 DEF Zero
    <3> QED
      BY <3>1
  <2>2. latest'[i] = version + 1 /\ UNCHANGED <<run, reply, pc, left>>
    BY <1>0, <1>1, <1>2, <2>1 DEF Announce
  <2>3. version + 1 \notin Asked[i]
    <3>1. \A n \in Asked[i] : n <= version
      BY <1>1, <2>1 DEF Fresh, Newer
    <3> QED
      BY <1>0, <3>1
  <2>4. version + 1 \in Nat \ {0}
    BY <1>0
  <2>5. ~(run["member"] = "served" /\ reply.versions[i] = version + 1)
    BY <1>1, <2>3, <2>4 DEF Asked, Under
  <2>6. \A p \in 1..Len(queue) : ~(queue[p].is = "member" /\ queue[p].versions[i] = version + 1)
    BY <1>1, <2>3, <2>4 DEF Asked
  <2>7. ~(pc = "member" /\ i \in left.ids /\ left.versions[i] = version + 1)
    BY <1>1, <2>3, <2>4 DEF Asked
  <2>8. ASSUME NEW p \in 1..Len(queue'), queue'[p].is = "member", queue'[p].versions[i] = latest'[i]
        PROVE  FALSE
    <3>1. ~MemberDone
      BY <2>2, Commands DEF MemberDone, Typed, TypedWire
    <3>2. PICK r \in 1..Len(queue) : queue'[p] = queue[r]
      BY <2>8, <3>1, AnswerQueued
    <3> QED
      BY <2>2, <2>6, <2>8, <3>2
  <2> QED
    BY <2>2, <2>5, <2>7, <2>8
<1>3. CASE ~Announce(i)
  <2>1. i \in Steady /\ latest'[i] = latest[i] /\ latest[i] # 0
    BY <1>1, <1>3, LatestSteps
  <2>2. /\ run["member"] = "served" /\ reply.versions[i] = latest[i] =>
             reply.rows[i] = Rows[i]
        /\ \A p \in 1..Len(queue) :
             queue[p].is = "member" /\ queue[p].versions[i] = latest[i] =>
               queue[p].rows[i] = Rows[i]
        /\ pc = "member" /\ i \in left.ids /\ left.versions[i] = latest[i] =>
             left.rows[i] = Rows[i]
    BY <1>0, <2>1 DEF AnswerIsTrue
  <2>3. ASSUME run'["member"] = "served", reply'.versions[i] = latest'[i]
        PROVE  reply'.rows[i] = Rows'[i]
    <3>1. CASE ServeMember
      <4>1. reply' = [reply EXCEPT !.rows = [j \in Id |-> IF reply.versions[j] # 0 THEN Rows[j] ELSE 0]]
        BY <3>1 DEF ServeMember
      <4>2. reply'.versions = reply.versions
        BY <1>0, <4>1
      <4>3. reply'.rows = [j \in Id |-> IF reply.versions[j] # 0 THEN Rows[j] ELSE 0]
        BY <1>0, <4>1
      <4> QED
        BY <1>1, <2>1, <2>3, <4>2, <4>3
    <3>2. CASE run["member"] = "served" /\ reply'.rows = reply.rows /\ reply'.versions = reply.versions
      BY <1>1, <2>1, <2>2, <2>3, <3>2
    <3> QED
      BY <2>3, <3>1, <3>2, AnswerServed
  <2>4. ASSUME NEW p \in 1..Len(queue'), queue'[p].is = "member", queue'[p].versions[i] = latest'[i]
        PROVE  queue'[p].rows[i] = Rows'[i]
    <3>1. CASE \E r \in 1..Len(queue) : queue'[p] = queue[r]
      BY <1>1, <2>1, <2>2, <2>4, <3>1
    <3>2. CASE MemberDone /\ queue'[p].rows = reply.rows /\ queue'[p].versions = reply.versions
      BY <1>1, <2>1, <2>2, <2>4, <3>2 DEF MemberDone
    <3> QED
      BY <2>4, <3>1, <3>2, AnswerQueued
  <2>5. ASSUME pc' = "member", i \in left'.ids, left'.versions[i] = latest'[i]
        PROVE  left'.rows[i] = Rows'[i]
    <3>1. CASE TakeMember
      <4>1. /\ 1 \in 1..Len(queue) /\ queue[1] = Head(queue) /\ queue[1].is = "member"
        BY <3>1, Taken DEF TakeMember, Typed
      <4>2. left'.versions = queue[1].versions /\ left'.rows = queue[1].rows
        BY <3>1, <4>1 DEF TakeMember
      <4> QED
        BY <1>1, <2>1, <2>2, <2>5, <4>1, <4>2
    <3>2. ASSUME NEW j \in Id, MemberStep(j)
          PROVE  left'.rows[i] = Rows'[i]
      <4>1. left \in [ids : SUBSET Id, versions : [Id -> Nat], rows : [Id -> Version]]
            /\ pc = "member" /\ left' = [left EXCEPT !.ids = @ \ {j}]
        BY <3>2 DEF MemberStep, Batch, Typed, TypedBatch
      <4>2. left'.versions = left.versions /\ left'.rows = left.rows /\ left'.ids = left.ids \ {j}
        BY <4>1
      <4> QED
        BY <1>1, <2>1, <2>2, <2>5, <4>1, <4>2
    <3>3. CASE pc = "member" /\ left' = left
      BY <1>1, <2>1, <2>2, <2>5, <3>3
    <3> QED
      BY <2>5, <3>1, <3>2, <3>3, AnswerLeft
  <2> QED
    BY <2>3, <2>4, <2>5
<1> QED
  BY <1>2, <1>3

-----------------------------------------------------------------------------
(* What is settled was settled before, but for what this step settles.     *)
LEMMA SettledSteps ==
  ASSUME Typed, Typed', Control, FollowNext, ~aborted', NEW i \in Settled'
  PROVE  /\ i \in Id /\ i \in Steady /\ Rows'[i] = Rows[i] /\ table'[i] = table[i]
         /\ \/ i \in Settled
            \/ Applies /\ Says(Coming, i, 1)
            \/ MemberStep(i) /\ latest[i] = left.versions[i]
<1>0. /\ ~aborted /\ draining /\ aborted' # TRUE /\ menu' = menu
      /\ latest \in [Id -> 0..version] /\ version \in Nat
  BY StillGoing, RouterUnchanged DEF Typed, TypedTaps
<1>1. /\ i \in Steady'
      /\ menu.query => latest'[i] = 0
      /\ ~menu.query => \A p \in 1..Len(Coming') : ~Says(Coming', i, p)
  BY <1>0 DEF Settled
<1>2. i \in Id /\ Rows'[i] = Rows[i] /\ table'[i] = table[i] /\ (i \in Steady \/ Announce(i))
  BY <1>1, SteadySteps
<1>3. ~Announce(i)
  <2>1. ASSUME Announce(i), menu.query
        PROVE  FALSE
    <3>1. latest'[i] = version + 1
      BY <1>0, <1>2, <2>1 DEF Announce
    <3> QED
      BY <1>0, <1>1, <2>1, <3>1
  <2>2. ASSUME Announce(i), ~menu.query
        PROVE  FALSE
    <3>1. PICK e \in Listen :
           /\ e.is = "listen" /\ e.id = i /\ e.ver = table[i]
           /\ menu.query => e.at = version + 1
           /\ Len(Coming) \in Nat /\ Len(Coming') \in Nat /\ Len(Coming) <= Len(Coming')
           /\ \A p \in 1..Len(Coming) : p \in 1..Len(Coming') /\ Coming'[p] = Coming[p]
           /\ \A p \in 1..Len(Coming') :
                \/ p \in 1..Len(Coming)
                \/ p = Len(Coming) + 1 /\ Coming'[p] = e /\ draining
           /\ aborted' # TRUE /\ draining => Len(Coming) + 1 \in 1..Len(Coming')
      BY <1>2, <2>2, ComingJoined
    <3>2. Len(Coming) + 1 \in 1..Len(Coming') /\ Len(Coming) + 1 \notin 1..Len(Coming)
      BY <1>0, <3>1
    <3>3. Says(Coming', i, Len(Coming) + 1)
      BY <3>1, <3>2 DEF Says
    <3> QED
      BY <1>1, <2>2, <3>2, <3>3
  <2> QED
    BY <2>1, <2>2
<1>4. i \in Steady
  BY <1>2, <1>3
<1>5. CASE menu.query
  <2>1. CASE latest[i] = 0
    BY <1>2, <1>4, <1>5, <2>1 DEF Settled
  <2>2. CASE latest[i] # 0
    <3>1. latest'[i] # latest[i]
      BY <1>1, <1>5, <2>2
    <3> QED
      BY <1>2, <1>3, <1>4, <3>1, LatestResets
  <2> QED
    BY <1>2, <1>4, <2>1, <2>2
<1>6. CASE ~menu.query
  <2>1. CASE \A p \in 1..Len(Coming) : ~Says(Coming, i, p)
    BY <1>2, <1>4, <1>6, <2>1 DEF Settled
  <2>2. ASSUME NEW p \in 1..Len(Coming), Says(Coming, i, p)
        PROVE  Applies /\ Says(Coming, i, 1)
    <3>1. CASE \A j \in Id : ~Announce(j)
      <4>1. \/ \E r \in 1..Len(Coming') : Coming'[r] = Coming[p] /\ Says(Coming', i, r)
            \/ Applies /\ p = 1
        BY <2>2, <3>1, ComingPassed
      <4> QED
        BY <1>1, <1>6, <2>2, <4>1
    <3>2. ASSUME NEW j \in Id, Announce(j)
          PROVE  FALSE
      <4>1. \A r \in 1..Len(Coming) : r \in 1..Len(Coming') /\ Coming'[r] = Coming[r]
        BY <3>2, ComingJoined
      <4>2. p \in 1..Len(Coming') /\ Says(Coming', i, p)
        BY <2>2, <4>1 DEF Says
      <4> QED
        BY <1>1, <1>6, <4>2
    <3> QED
      BY <3>1, <3>2
  <2> QED
    BY <1>2, <1>4, <2>1, <2>2
<1> QED
  BY <1>5, <1>6

(* Who writes the copy.                                                    *)
LEMMA ViewWrites ==
  ASSUME Typed, Control, FollowNext, NEW i \in Id, view'[i] # view[i]
  PROVE  \/ TakeRow /\ Head(queue).id = i /\ view'[i] = Head(queue).ver
         \/ Applies /\ Says(Coming, i, 1)
         \/ MemberStep(i) /\ latest[i] = left.versions[i] /\ view'[i] = left.rows[i]
         \/ SweepStep(i) /\ ~(menu.query /\ latest[i] # 0) /\ view'[i] = 0
<1>0. view \in [Id -> Version]
  BY DEF Typed, TypedLoop
<1>1. CASE Applies
  <2>1. PICK then : ApplyListen(Coming[1], then)
    BY <1>1, AppliesFirst
  <2>2. Coming[1].is = "listen"
    BY <1>1, AppliesFirst
  <2>3. \/ view' = view
        \/ view' = [view EXCEPT ![Coming[1].id] = 0]
        \/ view' = [view EXCEPT ![Coming[1].id] = Coming[1].ver]
    BY <2>1 DEF ApplyListen
  <2>4. Coming[1].id = i
    BY <1>0, <2>3
  <2> QED
    BY <1>1, <2>2, <2>4 DEF Says
<1>2. CASE TakeRow
  BY <1>0, <1>2 DEF TakeRow
<1>3. ASSUME NEW j \in Id, MemberStep(j)
      PROVE  MemberStep(i) /\ latest[i] = left.versions[i] /\ view'[i] = left.rows[i]
  <2>1. /\ latest[j] = left.versions[j]
        /\ view' = [view EXCEPT ![j] = left.rows[j]]
    BY <1>3 DEF MemberStep
  <2>2. j = i
    BY <1>0, <2>1
  <2> QED
    BY <1>0, <1>3, <2>1, <2>2
<1>4. ASSUME NEW j \in Id, SweepStep(j)
      PROVE  SweepStep(i) /\ ~(menu.query /\ latest[i] # 0) /\ view'[i] = 0
  <2>1. /\ ~(menu.query /\ latest[j] # 0)
        /\ view' = [view EXCEPT ![j] = 0]
    BY <1>4 DEF SweepStep
  <2>2. j = i
    BY <1>0, <2>1
  <2> QED
    BY <1>0, <1>4, <2>1, <2>2
<1>5. CASE ~Applies /\ ~TakeRow /\ (\A j \in Id : ~MemberStep(j)) /\ \A j \in Id : ~SweepStep(j)
  BY <1>5, StepNames DEF Write, Remove, Slip, Announce, PrintRow, ServePrint, PrintDone, ServeMember,
    MemberDone, ServeSweep, SweepDone, SweepTimer, Stop, Abandon, CommandFails, CommandEnds,
    TakeListen, Applies, TakeDone, TakeMember, TakeSweepStart, TakeSweep, TakeEnd, Batch, Posting,
    Halting, ReplayEnd, BatchEnd, Finish, PostSync, PostSweep, PostNothing, PostMember, loop
<1> QED
  BY <1>1, <1>2, <1>3, <1>4, <1>5

-----------------------------------------------------------------------------
(* The snapshot brings what is settled to the copy.                        *)
LEMMA RowsMoved ==
  ASSUME Typed, FollowNext, NEW i \in Id, NEW p \in 1..Len(queue), Shows(queue, i, p)
  PROVE  \/ TakeRow /\ p = 1
         \/ \E r \in 1..Len(queue') : Shows(queue', i, r)
<1>1. queue[p].is = "row" /\ queue[p].id = i
  BY DEF Shows
<1>2. CASE TakeRow
  <2>1. /\ Len(queue) \in Nat \ {0} /\ Len(queue') = Len(queue) - 1
        /\ \A r \in 1..Len(queue') : queue'[r] = queue[r + 1]
    BY <1>2, Taken DEF TakeRow, Typed
  <2>2. CASE p # 1
    <3>1. p - 1 \in 1..Len(queue') /\ (p - 1) + 1 = p
      BY <2>1, <2>2
    <3>2. Shows(queue', i, p - 1)
      BY <1>1, <2>1, <3>1 DEF Shows
    <3> QED
      BY <3>1, <3>2
  <2> QED
    BY <1>2, <2>2
<1>3. ASSUME NEW j \in Id, PrintRow(j)
      PROVE  \E r \in 1..Len(queue') : Shows(queue', i, r)
  <2>1. \E e \in Event : e.is = "row" /\ PushBounded(e)
    BY <1>3, PushedKinds
  <2>2. p \in 1..Len(queue') /\ queue'[p] = queue[p]
    BY <2>1, Joined DEF Typed
  <2> QED
    BY <1>1, <2>2 DEF Shows
<1>4. CASE ~TakeRow /\ \A j \in Id : ~PrintRow(j)
  <2>1. PICK m \in Nat : Moved(queue, queue', "row", m)
    <3>1. \E m \in Nat : Moved(queue, queue', "row", m)
      BY <1>4, EventsMoved
    <3> QED
      BY <3>1
  <2>2. p - m \in 1..Len(queue') /\ queue'[p - m] = queue[p]
    BY <1>1, <2>1 DEF Moved
  <2> QED
    BY <1>1, <2>2 DEF Shows
<1> QED
  BY <1>2, <1>3, <1>4

LEMMA RowPushed ==
  ASSUME Typed, NEW i \in Id, PrintRow(i), draining, ~aborted'
  PROVE  \E r \in 1..Len(queue') : Shows(queue', i, r)
<1> DEFINE e == [is |-> "row", id |-> i, ver |-> shot[i]]
<1>1. PushBounded(e) /\ e \in Event
  <2>1. shot[i] \in Version
    BY DEF Typed, TypedWire
  <2>2. e \in Row
    BY <2>1 DEF Row
  <2> QED
    BY <2>2, EventIn DEF PrintRow
<1>2. queue' = Append(queue, e)
  BY <1>1 DEF PushBounded, Halt
<1>3. Len(queue) + 1 \in 1..Len(queue') /\ queue'[Len(queue) + 1] = e
  <2>1. queue \in Seq(Event)
    BY DEF Typed, TypedTaps
  <2> QED
    BY <1>1, <1>2, <2>1
<1> QED
  BY <1>3 DEF Shows

LEMMA ShownStep ==
  ASSUME Typed, Typed', Control, Shown, FollowNext
  PROVE  Shown'
<1> SUFFICES ASSUME ~aborted', ~complete', NEW i \in Settled'
             PROVE  /\ run'["print"] = "served" /\ shot'[i] # 0 => shot'[i] = Rows'[i]
                    /\ \A p \in 1..Len(queue') : Shows(queue', i, p) => queue'[p].ver = Rows'[i]
                    /\ \/ view'[i] = Rows'[i]
                       \/ run'["print"] = "sent"
                       \/ run'["print"] = "served" /\ shot'[i] = Rows'[i] /\ view'[i] = 0
                       \/ \E p \in 1..Len(queue') : Shows(queue', i, p)
  BY DEF Shown
<1>0. /\ ~aborted /\ draining
      /\ run \in [Command -> {"off", "sent", "served", "over"}]
      /\ view \in [Id -> Version] /\ shot \in [Id -> Version]
  BY StillGoing DEF Typed, TypedWire, TypedLoop
<1>1. ~complete
  BY StepNames DEF Write, Remove, Slip, Announce, PrintRow, SweepStep, MemberStep, ServePrint, PrintDone,
    ServeMember, MemberDone, ServeSweep, SweepDone, SweepTimer, Stop, Abandon, CommandFails, CommandEnds,
    TakeListen, ReplayStep, TakeRow, TakeDone, TakeMember, TakeSweepStart, TakeSweep, TakeEnd, Batch, Posting,
    Halting, ReplayEnd, BatchEnd, Finish, PostSync, PostSweep, PostNothing, PostMember, loop
<1>2. ~Applies /\ ~MemberStep(i) /\ ~SweepStep(i)
  <2>1. pc # "replay" /\ pc # "member" /\ pc # "sweep"
    BY <1>1 DEF Control, Printing
  <2> QED
    BY <1>1, <2>1 DEF Applies, ReplayStep, MemberStep, SweepStep, Batch
<1>3. i \in Id /\ i \in Settled /\ Rows'[i] = Rows[i]
  BY <1>2, SettledSteps
<1>4. /\ run["print"] = "served" /\ shot[i] # 0 => shot[i] = Rows[i]
      /\ \A p \in 1..Len(queue) : Shows(queue, i, p) => queue[p].ver = Rows[i]
      /\ \/ view[i] = Rows[i]
         \/ run["print"] = "sent"
         \/ run["print"] = "served" /\ shot[i] = Rows[i] /\ view[i] = 0
         \/ \E p \in 1..Len(queue) : Shows(queue, i, p)
  BY <1>0, <1>1, <1>3 DEF Shown
<1>5. run'["print"] = run["print"] \/ ServePrint \/ PrintDone
  BY PrintSteps
<1>6. ServePrint => run["print"] = "sent" /\ run'["print"] = "served" /\ shot'[i] = Rows[i]
                    /\ view'[i] = 0 /\ view[i] = 0
  <2>1. ASSUME ServePrint
        PROVE  run["print"] = "sent" /\ run'["print"] = "served" /\ shot'[i] = Rows[i]
               /\ view'[i] = 0 /\ view[i] = 0
    <3>1. run["print"] = "sent" /\ run'["print"] = "served" /\ shot' = Rows /\ view' = view
      BY <1>0, <2>1, Commands DEF ServePrint, loop
    <3>2. view = Zero
      BY <3>1 DEF Control, Printing
    <3> QED
      BY <1>3, <3>1, <3>2 DEF Zero
  <2> QED
    BY <2>1
<1>7. PrintDone => run["print"] = "served" /\ shot[i] = 0 /\ run'["print"] = "over"
  BY <1>0, <1>3, Commands DEF PrintDone, Zero
<1>8. run'["print"] = "served" /\ shot'[i] # 0 => shot'[i] = Rows'[i]
  BY <1>3, <1>4, <1>5, <1>6, <1>7, ShotSteps
<1>9. ASSUME NEW p \in 1..Len(queue'), Shows(queue', i, p)
      PROVE  queue'[p].ver = Rows'[i]
  <2>1. queue'[p].is = "row" /\ queue'[p].id = i
    BY <1>9 DEF Shows
  <2>2. CASE \E r \in 1..Len(queue) : queue'[p] = queue[r]
    <3>1. PICK r \in 1..Len(queue) : queue'[p] = queue[r]
      BY <2>2
    <3>2. Shows(queue, i, r)
      BY <2>1, <3>1 DEF Shows
    <3> QED
      BY <1>3, <1>4, <3>1, <3>2
  <2>3. ASSUME NEW j \in Id, PrintRow(j)
        PROVE  queue'[p].ver = Rows'[i]
    <3>1. CASE p \in 1..Len(queue) /\ queue'[p] = queue[p]
      BY <2>2, <3>1
    <3>2. CASE queue'[p] = [is |-> "row", id |-> j, ver |-> shot[j]]
      <4>1. j = i /\ queue'[p].ver = shot[j]
        BY <2>1, <3>2
      <4>2. run["print"] = "served" /\ shot[j] # 0
        BY <2>3 DEF PrintRow
      <4> QED
        BY <1>3, <1>4, <4>1, <4>2
    <3> QED
      BY <2>3, <3>1, <3>2, RowPrinted
  <2> QED
    BY <2>1, <2>2, <2>3, EventsKept
<1>10. view'[i] = view[i] \/ view'[i] = Rows[i]
  <2>1. ASSUME TakeRow, Head(queue).id = i, view'[i] = Head(queue).ver
        PROVE  view'[i] = Rows[i]
    <3>1. 1 \in 1..Len(queue) /\ queue[1] = Head(queue) /\ queue[1].is = "row"
      BY <2>1, Taken DEF TakeRow, Typed
    <3> QED
      BY <1>4, <2>1, <3>1 DEF Shows
  <2> QED
    BY <1>2, <1>3, <2>1, ViewWrites
<1>11. \/ view'[i] = Rows'[i]
       \/ run'["print"] = "sent"
       \/ run'["print"] = "served" /\ shot'[i] = Rows'[i] /\ view'[i] = 0
       \/ \E p \in 1..Len(queue') : Shows(queue', i, p)
  <2>1. CASE view'[i] = Rows[i]
    BY <1>3, <2>1
  <2>2. CASE view'[i] = view[i] /\ run["print"] = "sent"
    BY <1>3, <1>5, <1>6, <1>7, <2>2
  <2>3. CASE view'[i] = view[i] /\ run["print"] = "served" /\ shot[i] = Rows[i] /\ view[i] = 0
    <3>1. CASE PrintDone
      BY <1>3, <1>7, <2>3, <3>1
    <3>2. CASE run'["print"] = "served" /\ shot'[i] = shot[i]
      BY <1>3, <2>3, <3>2
    <3>3. CASE shot'[i] # shot[i] /\ ~ServePrint
      <4>1. PrintRow(i)
        <5>1. \A j \in Id : PrintRow(j) => j = i
          BY <1>0, <1>3, <3>3 DEF PrintRow
        <5>2. (\A j \in Id : ~PrintRow(j)) => shot' = shot
          BY <3>3, StepNames DEF Write, Remove, Slip, Announce, SweepStep, MemberStep, PrintDone,
            ServeMember, MemberDone, ServeSweep, SweepDone, SweepTimer, Stop, Abandon, CommandFails,
            CommandEnds, TakeListen, ReplayStep, TakeRow, TakeDone, TakeMember, TakeSweepStart, TakeSweep,
            TakeEnd, Taking, Batch, Posting, Halting, ReplayEnd, BatchEnd, Finish, PostSync, PostSweep,
            PostNothing, PostMember
        <5> QED
          BY <3>3, <5>1, <5>2
      <4> QED
        BY <1>0, <1>3, <4>1, RowPushed
    <3> QED
      BY <1>5, <1>6, <2>3, <3>1, <3>2, <3>3
  <2>4. ASSUME view'[i] = view[i], NEW p \in 1..Len(queue), Shows(queue, i, p)
        PROVE  view'[i] = Rows'[i] \/ \E r \in 1..Len(queue') : Shows(queue', i, r)
    <3>1. CASE TakeRow /\ p = 1
      <4>1. queue[1] = Head(queue) /\ Head(queue).id = i
        BY <2>4, <3>1, Taken DEF TakeRow, Typed, Shows
      <4>2. view'[i] = queue[1].ver
        BY <1>0, <1>3, <3>1, <4>1 DEF TakeRow
      <4> QED
        BY <1>3, <1>4, <2>4, <3>1, <4>2
    <3> QED
      BY <1>3, <2>4, <3>1, RowsMoved
  <2> QED
    BY <1>3, <1>4, <1>10, <2>1, <2>2, <2>3, <2>4
<1> QED
  BY <1>8, <1>9, <1>11

-----------------------------------------------------------------------------
(* Who was announced since a sweep began stays known for as long as its    *)
(* list is under way.                                                      *)
AfterStarts(q, i, p) ==
  Says(q, i, p) /\ \A r \in 1..Len(q) : q[r].is = "start" => r < p

LEMMA AfterPushed ==
  ASSUME TypedTaps, NEW e \in Event, Push(e) \/ PushBounded(e), e.is # "start",
         NEW i, NEW p \in 1..Len(queue), AfterStarts(queue, i, p)
  PROVE  p \in 1..Len(queue') /\ AfterStarts(queue', i, p)
<1>1. p \in 1..Len(queue') /\ queue'[p] = queue[p]
  BY Joined
<1>2. ASSUME NEW r \in 1..Len(queue'), queue'[r].is = "start"
      PROVE  r < p
  <2>1. r \in 1..Len(queue) /\ queue'[r] = queue[r]
    BY <1>2, Joined
  <2> QED
    BY <1>2, <2>1 DEF AfterStarts
<1> QED
  BY <1>1, <1>2 DEF AfterStarts, Says

LEMMA AfterTaken ==
  ASSUME TypedTaps, NEW what, Taking(what),
         NEW i, NEW p \in 1..Len(queue), AfterStarts(queue, i, p), p # 1
  PROVE  \E r \in 1..Len(queue') : AfterStarts(queue', i, r)
<1>1. /\ Len(queue) \in Nat \ {0} /\ Len(queue') = Len(queue) - 1
      /\ \A r \in 1..Len(queue') : queue'[r] = queue[r + 1]
  BY Taken
<1>2. p - 1 \in 1..Len(queue') /\ queue'[p - 1] = queue[p]
  <2>1. p - 1 \in 1..Len(queue') /\ (p - 1) + 1 = p
    BY <1>1
  <2> QED
    BY <1>1, <2>1
<1>3. ASSUME NEW r \in 1..Len(queue'), queue'[r].is = "start"
      PROVE  r < p - 1
  <2>1. r + 1 \in 1..Len(queue) /\ queue[r + 1].is = "start"
    BY <1>1, <1>3
  <2>2. r + 1 < p
    BY <2>1 DEF AfterStarts
  <2> QED
    BY <1>1, <2>2
<1> QED
  BY <1>2, <1>3 DEF AfterStarts, Says

LEMMA HeardKept ==
  ASSUME Typed, Control, FollowNext, ~aborted', touching \/ Has(queue, "start"), ~TakeSweep,
         NEW i \in Heard
  PROVE  i \in Heard'
<1> DEFINE After == \E p \in 1..Len(queue) : AfterStarts(queue, i, p)
           Later == \E p \in 1..Len(queue') : AfterStarts(queue', i, p)
<1>0. i \in Id /\ ((touching /\ i \in touched) \/ After)
  BY DEF Heard, AfterStarts
<1>1. (touching' /\ i \in touched') \/ Later => i \in Heard'
  BY <1>0 DEF Heard, AfterStarts
<1>2. sweep = "running" /\ complete
  BY DEF Control, Sweeping, Printing
<1> HIDE DEF Later
<1>3. CASE TakeSweepStart
  <2>1. Taking("start")
    BY <1>3 DEF TakeSweepStart
  <2>2. Len(queue) \in Nat \ {0} /\ queue[1].is = "start"
    BY <2>1, Taken DEF Typed
  <2>3. ~touching
    <3>1. Has(queue, "start")
      BY <2>2 DEF Has
    <3> QED
      BY <3>1 DEF Control, Sweeping
  <2>4. PICK p \in 1..Len(queue) : AfterStarts(queue, i, p)
    BY <1>0, <2>3
  <2>5. p # 1
    BY <2>2, <2>4 DEF AfterStarts
  <2>6. Later
    BY <2>1, <2>4, <2>5, AfterTaken DEF Typed, Later
  <2> QED
    BY <1>1, <2>6
<1>4. CASE TakeListen
  <2>1. Taking("listen") /\ ApplyListen(Head(queue), Next_) /\ touching' = touching
    BY <1>2, <1>4 DEF TakeListen
  <2>2. Len(queue) \in Nat \ {0} /\ queue[1] = Head(queue)
    BY <2>1, Taken DEF Typed
  <2>3. touching => touched \subseteq touched' /\ Head(queue).id \in touched'
    BY <2>1 DEF ApplyListen
  <2>4. CASE touching /\ i \in touched
    BY <1>1, <2>1, <2>3, <2>4
  <2>5. ASSUME NEW p \in 1..Len(queue), AfterStarts(queue, i, p)
        PROVE  i \in Heard'
    <3>1. CASE p = 1
      <4>1. ~Has(queue, "start")
        BY <2>2, <2>5, <3>1 DEF AfterStarts, Has
      <4>2. touching /\ i = Head(queue).id
        BY <2>2, <2>5, <3>1, <4>1 DEF AfterStarts, Says
      <4> QED
        BY <1>1, <2>1, <2>3, <4>2
    <3>2. CASE p # 1
      <4>1. Later
        BY <2>1, <2>5, <3>2, AfterTaken DEF Typed, Later
      <4> QED
        BY <1>1, <4>1
    <3> QED
      BY <3>1, <3>2
  <2> QED
    BY <1>0, <2>4, <2>5
<1>5. CASE TakeRow \/ TakeDone \/ TakeMember \/ TakeEnd
  <2>1. UNCHANGED <<touching, touched>>
    BY <1>5 DEF TakeRow, TakeDone, TakeMember, TakeEnd, loop
  <2>2. PICK what : Taking(what) /\ what # "listen"
    BY <1>5 DEF TakeRow, TakeDone, TakeMember, TakeEnd
  <2>3. Len(queue) \in Nat \ {0} /\ queue[1].is = what
    BY <2>2, Taken DEF Typed
  <2>4. ASSUME NEW p \in 1..Len(queue), AfterStarts(queue, i, p)
        PROVE  Later
    <3>1. p # 1
      BY <2>2, <2>3, <2>4 DEF AfterStarts, Says
    <3> QED
      BY <2>2, <2>4, <3>1, AfterTaken DEF Typed, Later
  <2> QED
    BY <1>0, <1>1, <2>1, <2>4
<1>6. ASSUME NEW e \in Event, Push(e) \/ PushBounded(e), e.is # "start", UNCHANGED <<touching, touched>>
      PROVE  i \in Heard'
  <2>1. After => Later
    BY <1>6, AfterPushed DEF Typed, Later
  <2> QED
    BY <1>0, <1>1, <1>6, <2>1
<1>7. ASSUME UNCHANGED <<queue, touching>>, touching => touched \subseteq touched'
      PROVE  i \in Heard'
  <2>1. After => Later
    BY <1>7 DEF Later
  <2> QED
    BY <1>0, <1>1, <1>7, <2>1
<1>8. CASE \/ \E j \in Id : Announce(j) \/ PrintRow(j)
           \/ PrintDone \/ MemberDone \/ SweepDone
  <2>1. UNCHANGED <<touching, touched>>
    BY <1>8 DEF Announce, PrintRow, PrintDone, MemberDone, SweepDone, loop
  <2>2. \E e \in Event : (Push(e) \/ PushBounded(e)) /\ e.is # "start"
    BY <1>8, PushedKinds
  <2> QED
    BY <1>6, <2>1, <2>2
<1>9. CASE \E c \in Command : CommandFails(c) \/ CommandEnds(c)
  <2>1. UNCHANGED <<touching, touched>>
    BY <1>9 DEF CommandFails, CommandEnds, loop
  <2>2. UNCHANGED queue \/ \E e \in Event : (Push(e) \/ PushBounded(e)) /\ e.is # "start"
    <3>1. ASSUME NEW c \in Command, CommandEnds(c)
          PROVE  UNCHANGED queue \/ \E e \in Event : (Push(e) \/ PushBounded(e)) /\ e.is # "start"
      BY <3>1, PushedKinds
    <3>2. ASSUME NEW c \in Command, CommandFails(c)
          PROVE  UNCHANGED queue
      BY <3>2 DEF CommandFails
    <3> QED
      BY <1>9, <3>1, <3>2
  <2> QED
    BY <1>6, <1>7, <2>1, <2>2
<1>10. CASE ReplayStep
  <2>1. UNCHANGED <<queue, touching>> /\ (touching => touched \subseteq touched')
    BY <1>10 DEF ReplayStep, Batch, ApplyListen
  <2> QED
    BY <1>7, <2>1
<1>11. CASE \/ \E j \in Id : Write(j) \/ Remove(j) \/ Slip(j) \/ MemberStep(j) \/ SweepStep(j)
            \/ ServePrint \/ ServeMember \/ ServeSweep \/ Stop \/ Abandon \/ Halting \/ ReplayEnd
            \/ BatchEnd \/ Finish \/ PostSync \/ PostNothing
            \/ \E batch \in SUBSET Id : PostMember(batch)
  <2>1. UNCHANGED <<queue, touching, touched>>
    BY <1>11 DEF Write, Remove, Slip, MemberStep, SweepStep, ServePrint, ServeMember, ServeSweep, Stop,
      Abandon, Halting, ReplayEnd, BatchEnd, Batch, Finish, PostSync, PostNothing, PostMember, Posting,
      taps, loop
  <2> QED
    BY <1>7, <2>1
<1>12. ~SweepTimer /\ ~PostSweep
  BY <1>2 DEF SweepTimer, PostSweep
<1> QED
  BY <1>3, <1>4, <1>5, <1>8, <1>9, <1>10, <1>11, <1>12, StepNames

LEMMA AnnouncedHeard ==
  ASSUME Typed, NEW i \in Id, Announce(i), draining, ~aborted'
  PROVE  i \in Heard' /\ i \in Named'
<1>1. PICK e \in Event : e.is = "listen" /\ e.id = i /\ PushBounded(e)
  <2>1. \E e \in Listen : e \in Event /\ e.is = "listen" /\ e.id = i /\ PushBounded(e)
    BY Announced
  <2> QED
    BY <2>1
<1>2. queue' = Append(queue, e)
  BY <1>1 DEF PushBounded, Halt
<1>3. queue \in Seq(Event)
  BY DEF Typed, TypedTaps
<1>4. /\ Len(queue) \in Nat /\ Len(queue') = Len(queue) + 1
      /\ queue'[Len(queue) + 1] = e
  BY <1>1, <1>2, <1>3
<1>5. Len(queue) + 1 \in 1..Len(queue') /\ Says(queue', i, Len(queue) + 1)
  BY <1>1, <1>4 DEF Says
<1>6. ASSUME NEW q \in 1..Len(queue'), queue'[q].is = "start"
      PROVE  q < Len(queue) + 1
  <2>1. q # Len(queue) + 1
    BY <1>1, <1>4, <1>6
  <2> QED
    BY <1>4, <2>1
<1> QED
  BY <1>5, <1>6 DEF Heard, Named

LEMMA SweptKept ==
  ASSUME Typed, Control, FollowNext, ~aborted', touching \/ Has(queue, "start"), ~TakeSweep,
         NEW ids, NEW i \in Id, Rows'[i] # 0,
         Rows[i] # 0 => i \in ids \cup news \cup Heard
  PROVE  i \in ids \cup news' \cup Heard'
<1>1. CASE Announce(i)
  BY <1>1, StillGoing, AnnouncedHeard
<1>2. CASE i \in news'
  BY <1>2
<1>3. CASE Rows'[i] = Rows[i] /\ (i \in news' <=> i \in news)
  BY <1>3, HeardKept
<1> QED
  BY <1>1, <1>2, <1>3, RowsSteps

LEMMA SweepServed ==
  ASSUME Typed, Control, FollowNext, ~aborted', run'["sweep"] = "served"
  PROVE  ServeSweep \/ (run["sweep"] = "served" /\ reply'.ids = reply.ids)
<1>0. /\ run \in [Command -> {"off", "sent", "served", "over"}] /\ ~aborted
      /\ reply \in [versions : [Id -> Nat], rows : [Id -> Version], ids : SUBSET Id]
  BY StillGoing DEF Typed, TypedWire
<1>1. CASE MemberDone
  <2>1. Under("member") /\ run'["sweep"] = run["sweep"]
    BY <1>0, <1>1 DEF MemberDone, Under
  <2>2. Under("sweep")
    BY <2>1 DEF Under
  <2> QED
    BY <2>1, <2>2 DEF Control, Reading, Sweeping
<1>2. CASE SweepDone
  BY <1>0, <1>2, Commands DEF SweepDone
<1>3. CASE ServeMember
  <2>1. run'["sweep"] = run["sweep"] /\ reply'.ids = reply.ids
    BY <1>0, <1>3 DEF ServeMember
  <2> QED
    BY <2>1
<1>4. ASSUME NEW batch \in SUBSET Id, PostMember(batch)
      PROVE  run["sweep"] = "served" /\ reply'.ids = reply.ids
  <2>1. run'["sweep"] = run["sweep"] /\ reply'.ids = reply.ids
    BY <1>0, <1>4 DEF PostMember
  <2> QED
    BY <2>1
<1>5. ASSUME NEW c \in Command, CommandFails(c) \/ CommandEnds(c)
      PROVE  run["sweep"] = "served" /\ reply'.ids = reply.ids
  <2>1. reply' = reply /\ run' = [run EXCEPT ![c] = "over"]
    BY <1>5 DEF CommandFails, CommandEnds
  <2>2. run["sweep"] = "served"
    BY <1>0, <2>1, Commands
  <2> QED
    BY <2>1, <2>2
<1>6. ASSUME StartSweep
      PROVE  FALSE
  BY <1>0, <1>6, Commands DEF StartSweep
<1>7. ASSUME UNCHANGED reply, \/ run' = run
                              \/ \E c, x : c # "sweep" /\ run' = [run EXCEPT ![c] = x]
                              \/ run' = [run EXCEPT !["sweep"] = "off"]
      PROVE  run["sweep"] = "served" /\ reply'.ids = reply.ids
  BY <1>0, <1>7, Commands
<1>8. CASE \/ \E i \in Id : Write(i) \/ Remove(i) \/ Slip(i) \/ Announce(i) \/ PrintRow(i)
                          \/ MemberStep(i) \/ SweepStep(i)
           \/ ServePrint \/ PrintDone \/ Stop \/ Abandon
           \/ TakeListen \/ TakeRow \/ TakeDone \/ TakeMember \/ TakeSweepStart
           \/ TakeSweep \/ TakeEnd \/ Halting \/ ReplayStep \/ ReplayEnd \/ BatchEnd
           \/ Finish \/ PostSync \/ PostNothing
  <2>1. ASSUME ServePrint \/ PrintDone
        PROVE  run["sweep"] = "served" /\ reply'.ids = reply.ids
    <3>1. reply' = reply /\ \E x : run' = [run EXCEPT !["print"] = x]
      BY <2>1 DEF ServePrint, PrintDone
    <3> QED
      BY <1>7, <3>1, Commands
  <2>2. ASSUME TakeMember
        PROVE  run["sweep"] = "served" /\ reply'.ids = reply.ids
    <3>1. reply' = reply /\ \E x : run' = [run EXCEPT !["member"] = x]
      BY <2>2 DEF TakeMember, Taking
    <3> QED
      BY <1>7, <3>1, Commands
  <2>3. ASSUME TakeSweep
        PROVE  run["sweep"] = "served" /\ reply'.ids = reply.ids
    BY <1>7, <2>3 DEF TakeSweep, Taking
  <2>4. ASSUME \/ \E i \in Id : Write(i) \/ Remove(i) \/ Slip(i) \/ Announce(i) \/ PrintRow(i)
                               \/ MemberStep(i) \/ SweepStep(i)
               \/ Stop \/ Abandon \/ TakeListen \/ TakeRow \/ TakeDone \/ TakeSweepStart
               \/ TakeEnd \/ Halting \/ ReplayStep \/ ReplayEnd \/ BatchEnd
               \/ Finish \/ PostSync \/ PostNothing
        PROVE  reply' = reply /\ run' = run
    BY <2>4 DEF Write, Remove, Slip, Announce, PrintRow, MemberStep, SweepStep, Stop, Abandon,
      TakeListen, TakeRow, TakeDone, TakeSweepStart, TakeEnd, Taking, Halting, ReplayStep,
      ReplayEnd, BatchEnd, Batch, Finish, PostSync, PostNothing, Posting
  <2> QED
    BY <1>7, <1>8, <2>1, <2>2, <2>3, <2>4
<1>9. CASE SweepTimer \/ PostSweep
  <2>1. ~StartSweep
    BY <1>6
  <2>2. SweepTimer /\ UNCHANGED <<run, reply>>
    BY <1>9, <2>1 DEF SweepTimer, PostSweep
  <2> QED
    BY <1>7, <2>2
<1> QED
  BY <1>1, <1>2, <1>3, <1>4, <1>5, <1>8, <1>9, StepNames

LEMMA SweepQueued ==
  ASSUME Typed, FollowNext, NEW p \in 1..Len(queue'), queue'[p].is = "sweep"
  PROVE  \/ \E r \in 1..Len(queue) : queue'[p] = queue[r]
         \/ SweepDone /\ queue'[p].ids = reply.ids
<1>1. CASE SweepDone
  <2> DEFINE e == [is |-> "sweep", ids |-> reply.ids]
  <2>1. Push(e) /\ e \in Event
    <3>1. reply.ids \in SUBSET Id
      BY DEF Typed, TypedWire
    <3>2. Push(e)
      BY <1>1 DEF SweepDone
    <3> QED
      BY <3>1, <3>2, EventIn
  <2>2. (p \in 1..Len(queue) /\ queue'[p] = queue[p]) \/ queue'[p] = e
    BY <2>1, Joined DEF Typed
  <2> QED
    BY <1>1, <2>2
<1> QED
  BY <1>1, EventsKept

LEMMA SweepLeft ==
  ASSUME Typed, FollowNext, pc' = "sweep"
  PROVE  TakeSweep \/ (pc = "sweep" /\ left'.ids \subseteq left.ids /\ ~TakeListen)
<1>1. ASSUME NEW i \in Id, SweepStep(i)
      PROVE  pc = "sweep" /\ left'.ids \subseteq left.ids /\ ~TakeListen
  <2>1. pc = "sweep" /\ left' = [left EXCEPT !.ids = @ \ {i}]
    BY <1>1 DEF SweepStep, Batch
  <2>2. left \in [ids : SUBSET Id]
    BY <2>1 DEF Typed, TypedBatch
  <2> QED
    BY <2>1, <2>2 DEF TakeListen, Taking
<1>2. ASSUME \/ \E i \in Id : Write(i) \/ Remove(i) \/ Slip(i) \/ Announce(i) \/ PrintRow(i)
             \/ ServePrint \/ PrintDone \/ ServeMember \/ MemberDone \/ ServeSweep
             \/ SweepDone \/ SweepTimer \/ Stop
             \/ \E c \in Command : CommandFails(c) \/ CommandEnds(c)
      PROVE  pc = "sweep" /\ left' = left /\ ~TakeListen
  BY <1>2 DEF Write, Remove, Slip, Announce, PrintRow, ServePrint, PrintDone, ServeMember,
    MemberDone, ServeSweep, SweepDone, SweepTimer, Stop, CommandFails, CommandEnds, TakeListen, Taking
<1>3. ASSUME \/ TakeListen \/ TakeRow \/ TakeDone \/ TakeMember \/ TakeSweepStart \/ TakeEnd
             \/ Halting \/ ReplayStep \/ ReplayEnd \/ BatchEnd \/ Finish \/ Abandon
             \/ PostSync \/ PostSweep \/ PostNothing
             \/ \E i \in Id : MemberStep(i)
             \/ \E batch \in SUBSET Id : PostMember(batch)
      PROVE  FALSE
  BY <1>3 DEF TakeListen, TakeRow, TakeDone, TakeMember, TakeSweepStart, TakeEnd, ApplyListen, Tell,
    Leave, Next_, Halting, ReplayStep, ReplayEnd, BatchEnd, Finish, Abandon, PostSync, PostSweep,
    PostNothing, Posting, MemberStep, PostMember
<1> QED
  BY <1>1, <1>2, <1>3, StepNames

LEMMA SweptStep ==
  ASSUME Typed, Typed', Control, Swept, FollowNext
  PROVE  Swept'
<1> SUFFICES ASSUME ~aborted', NEW i \in Id, Rows'[i] # 0
             PROVE  /\ run'["sweep"] = "served" => i \in reply'.ids \cup news' \cup Heard'
                    /\ \A k \in 1..Len(queue') : queue'[k].is = "sweep" =>
                         i \in queue'[k].ids \cup news' \cup Heard'
                    /\ pc' = "sweep" /\ i \in left'.ids => i \in news' \cup Named'
  BY DEF Swept, Typed, TypedBatch
<1>0. ~aborted /\ draining
  BY StillGoing
<1>1. /\ run["sweep"] = "served" /\ Rows[i] # 0 => i \in reply.ids \cup news \cup Heard
      /\ \A k \in 1..Len(queue) : queue[k].is = "sweep" /\ Rows[i] # 0 =>
           i \in queue[k].ids \cup news \cup Heard
      /\ pc = "sweep" /\ i \in left.ids /\ Rows[i] # 0 => i \in news \cup Named
  BY <1>0 DEF Swept
<1>2. ASSUME run'["sweep"] = "served"
      PROVE  i \in reply'.ids \cup news' \cup Heard'
  <2>1. CASE ServeSweep
    <3>1. Rows' = Rows /\ reply' = [reply EXCEPT !.ids = Ids(Rows)]
      BY <2>1, RouterUnchanged DEF ServeSweep, router, Rows, Selected, Here
    <3>2. reply'.ids = Ids(Rows)
      BY <3>1 DEF Typed, TypedWire
    <3> QED
      BY <3>1, <3>2 DEF Ids
  <2>2. CASE run["sweep"] = "served" /\ reply'.ids = reply.ids
    <3>1. touching \/ Has(queue, "start")
      BY <1>0, <2>2 DEF Control, Sweeping, Under
    <3>2. ~TakeSweep
      <4>1. ASSUME TakeSweep
            PROVE  Has(queue, "sweep")
        <5>1. Len(queue) \in Nat \ {0} /\ queue[1].is = "sweep"
          BY <4>1, Taken DEF TakeSweep, Typed
        <5> QED
          BY <5>1 DEF Has
      <4> QED
        BY <2>2, <4>1 DEF Control, Sweeping, Under
    <3>3. i \in reply.ids \cup news' \cup Heard'
      BY <1>1, <2>2, <3>1, <3>2, SweptKept
    <3> QED
      BY <2>2, <3>3
  <2> QED
    BY <1>2, <2>1, <2>2, SweepServed
<1>3. ASSUME NEW k \in 1..Len(queue'), queue'[k].is = "sweep"
      PROVE  i \in queue'[k].ids \cup news' \cup Heard'
  <2>1. ~TakeSweep
    <3>1. ASSUME TakeSweep
          PROVE  FALSE
      <4>1. ~Has(queue', "sweep")
        BY <3>1, KindsTaken DEF TakeSweep, Typed, Control, Sweeping
      <4> QED
        BY <1>3, <4>1 DEF Has
    <3> QED
      BY <3>1
  <2>2. CASE \E r \in 1..Len(queue) : queue'[k] = queue[r]
    <3>1. PICK r \in 1..Len(queue) : queue'[k] = queue[r]
      BY <2>2
    <3>2. Has(queue, "sweep")
      BY <1>3, <3>1 DEF Has
    <3>3. touching \/ Has(queue, "start")
      BY <3>2 DEF Control, Sweeping
    <3>4. Rows[i] # 0 => i \in queue'[k].ids \cup news \cup Heard
      BY <1>1, <1>3, <3>1
    <3> QED
      BY <2>1, <3>3, <3>4, SweptKept
  <2>3. CASE SweepDone /\ queue'[k].ids = reply.ids
    <3>1. run["sweep"] = "served"
      BY <2>3 DEF SweepDone
    <3>2. touching \/ Has(queue, "start")
      BY <1>0, <3>1 DEF Control, Sweeping, Under
    <3>3. Rows[i] # 0 => i \in queue'[k].ids \cup news \cup Heard
      BY <1>1, <2>3, <3>1
    <3> QED
      BY <2>1, <3>2, <3>3, SweptKept
  <2> QED
    BY <1>3, <2>2, <2>3, SweepQueued
<1>4. ASSUME pc' = "sweep", i \in left'.ids
      PROVE  i \in news' \cup Named'
  <2>1. CASE TakeSweep
    <3>1. /\ Len(queue) \in Nat \ {0} /\ 1 \in 1..Len(queue) /\ queue[1] = Head(queue)
          /\ queue[1].is = "sweep"
      BY <2>1, Taken DEF TakeSweep, Typed
    <3>2. Rows' = Rows /\ news' = news
      BY <2>1, RouterUnchanged DEF TakeSweep, Taking, router, Rows, Selected, Here
    <3>3. i \notin queue[1].ids /\ i \notin touched
      BY <1>4, <2>1, <3>1 DEF TakeSweep
    <3>4. i \in news \/ i \in Heard
      BY <1>1, <3>1, <3>2, <3>3
    <3>5. ASSUME i \in Heard
          PROVE  i \in Named'
      <4>1. PICK p \in 1..Len(queue) : AfterStarts(queue, i, p)
        BY <3>3, <3>5 DEF Heard, AfterStarts
      <4>2. p # 1
        BY <3>1, <4>1 DEF AfterStarts, Says
      <4>3. \E r \in 1..Len(queue') : AfterStarts(queue', i, r)
        BY <2>1, <4>1, <4>2, AfterTaken DEF TakeSweep, Typed
      <4> QED
        BY <4>3 DEF Named, AfterStarts
    <3> QED
      BY <3>2, <3>4, <3>5
  <2>2. CASE pc = "sweep" /\ left'.ids \subseteq left.ids /\ ~TakeListen
    <3>1. Rows[i] # 0 => i \in news \cup Named
      BY <1>1, <1>4, <2>2
    <3>2. CASE Announce(i)
      BY <1>0, <3>2, AnnouncedHeard
    <3>3. CASE i \in news'
      BY <3>3
    <3>4. CASE Rows'[i] = Rows[i] /\ (i \in news' <=> i \in news) /\ ~Announce(i)
      <4>1. ASSUME NEW p \in 1..Len(queue), Says(queue, i, p)
            PROVE  i \in Named'
        <5>1. CASE \A j \in Id : ~Announce(j)
          <6>1. \E m \in Nat : Moved(queue, queue', "listen", m)
            BY <2>2, <5>1, EventsMoved
          <6>2. PICK m \in Nat : Moved(queue, queue', "listen", m)
            BY <6>1
          <6>3. p - m \in 1..Len(queue') /\ queue'[p - m] = queue[p]
            BY <4>1, <6>2 DEF Moved, Says
          <6> QED
            BY <4>1, <6>3 DEF Named, Says
        <5>2. ASSUME NEW j \in Id, Announce(j)
              PROVE  i \in Named'
          <6>1. \E e \in Event : e.is = "listen" /\ PushBounded(e)
            BY <5>2, PushedKinds
          <6>2. p \in 1..Len(queue') /\ queue'[p] = queue[p]
            BY <6>1, Joined DEF Typed
          <6> QED
            BY <4>1, <6>2 DEF Named, Says
        <5> QED
          BY <5>1, <5>2
      <4> QED
        BY <3>1, <3>4, <4>1 DEF Named
    <3> QED
      BY <3>2, <3>3, <3>4, RowsSteps
  <2> QED
    BY <1>4, <2>1, <2>2, SweepLeft
<1> QED
  BY <1>2, <1>3, <1>4

-----------------------------------------------------------------------------
(* And what is settled stays as in the router.                             *)
LEMMA CopiedByApply ==
  ASSUME Typed, Typed', Control, LastWord, LastIsTrue, Copied, FollowNext, ~aborted',
         NEW i \in Settled', Applies, Says(Coming, i, 1)
  PROVE  view'[i] = Rows'[i]
<1>0. /\ ~aborted /\ menu' = menu /\ view \in [Id -> Version] /\ latest \in [Id -> 0..version]
      /\ table \in [Id -> 0..Gone]
  BY StillGoing, RouterUnchanged DEF Typed, TypedTaps, TypedLoop, TypedRouter
<1>1. i \in Id /\ i \in Steady /\ Rows'[i] = Rows[i] /\ table'[i] = table[i]
  BY SettledSteps
<1>2. PICK then : ApplyListen(Coming[1], then)
  BY AppliesFirst
<1>3. /\ Len(Coming) >= 1 /\ Coming[1] \in Listen /\ complete
      /\ UNCHANGED <<menu, version, news, table>>
  BY AppliesFirst
<1>4. Len(Coming) \in Nat /\ 1 \in 1..Len(Coming) /\ Coming[1].id = i /\ Coming[1].is = "listen"
  <2>1. Len(Coming) \in Nat
    BY BackTyped, Joins DEF Coming
  <2> QED
    BY <1>3, <2>1 DEF Says
<1>5. CASE ~Stale(Coming[1]) /\ Dead(Coming[1])
  <2>1. view'[i] = 0
    <3>1. view' = [view EXCEPT ![i] = 0]
      BY <1>2, <1>4, <1>5 DEF ApplyListen
    <3> QED
      BY <1>0, <1>1, <3>1
  <2>2. table[i] = Gone
    BY <1>4, <1>5 DEF LastWord, Dead, Final
  <2>3. Rows[i] = 0
    BY <1>1, <2>2 DEF Rows, Selected, Here
  <2> QED
    BY <1>1, <2>1, <2>3
<1>6. CASE menu.query /\ ~(~Stale(Coming[1]) /\ Dead(Coming[1]))
  <2>1. view' = view /\ latest' = latest
    BY <1>2, <1>6 DEF ApplyListen
  <2>2. latest[i] = 0
    BY <1>0, <1>6, <2>1 DEF Settled
  <2>3. i \in Settled
    BY <1>1, <1>6, <2>2 DEF Settled
  <2> QED
    BY <1>0, <1>1, <1>3, <2>1, <2>3 DEF Copied
<1>7. CASE ~menu.query /\ ~(~Stale(Coming[1]) /\ Dead(Coming[1]))
  <2>1. ~Dead(Coming[1])
    BY <1>7 DEF Stale
  <2>2. view'[i] = Coming[1].ver
    <3>1. view' = [view EXCEPT ![i] = Coming[1].ver]
      BY <1>2, <1>4, <1>7, <2>1 DEF ApplyListen, Stale
    <3> QED
      BY <1>0, <1>1, <3>1
  <2>3. ASSUME NEW q \in 1..Len(Coming), q > 1, Says(Coming, i, q)
        PROVE  FALSE
    <3>1. \A j \in Id : ~Announce(j)
      BY DEF Applies, ReplayStep, TakeListen, Taking, Announce, Batch, router
    <3>2. \E r \in 1..Len(Coming') : Says(Coming', i, r)
      BY <2>3, <3>1, ComingPassed
    <3> QED
      BY <1>0, <1>7, <3>2 DEF Settled
  <2>4. Coming[1].ver = table[i]
    BY <1>0, <1>1, <1>4, <1>7, <2>3 DEF LastIsTrue
  <2>5. Coming[1].ver # 0 /\ Coming[1].ver # Gone
    BY <1>3, <2>1 DEF Listen, Dead
  <2>6. Rows[i] = table[i]
    BY <1>1, <1>7, <2>4, <2>5 DEF Rows, Selected, Here
  <2> QED
    BY <1>1, <2>2, <2>4, <2>6
<1> QED
  BY <1>5, <1>6, <1>7

LEMMA CopiedStep ==
  ASSUME Typed, Typed', Control, LastWord, Fresh, LastIsTrue, AnswerIsTrue, Shown, Swept, Copied,
         FollowNext
  PROVE  Copied'
<1> SUFFICES ASSUME ~aborted', complete', NEW i \in Settled'
             PROVE  view'[i] = Rows'[i]
  BY DEF Copied
<1>0. ~aborted /\ view \in [Id -> Version] /\ latest \in [Id -> 0..version]
  BY StillGoing DEF Typed, TypedTaps, TypedLoop
<1>1. /\ i \in Id /\ i \in Steady /\ Rows'[i] = Rows[i]
      /\ \/ i \in Settled
         \/ Applies /\ Says(Coming, i, 1)
         \/ MemberStep(i) /\ latest[i] = left.versions[i]
  BY SettledSteps
<1>2. CASE ~complete
  <2>1. TakeDone
    BY <1>2, StepNames DEF Write, Remove, Slip, Announce, PrintRow, SweepStep, MemberStep, ServePrint, PrintDone,
      ServeMember, MemberDone, ServeSweep, SweepDone, SweepTimer, Stop, Abandon, CommandFails, CommandEnds,
      TakeListen, ReplayStep, TakeRow, TakeMember, TakeSweepStart, TakeSweep, TakeEnd, Batch, Posting,
      Halting, ReplayEnd, BatchEnd, Finish, PostSync, PostSweep, PostNothing, PostMember, loop
  <2>2. /\ Len(queue) \in Nat \ {0} /\ queue[1].is = "done" /\ view' = view /\ pc = "take"
    BY <2>1, Taken DEF TakeDone, Taking, Typed
  <2>3. Has(queue, "done")
    BY <2>2 DEF Has
  <2>4. run["print"] = "over" /\ NeverAfter(queue, "row", "done")
    BY <2>3 DEF Control, Printing
  <2>5. \A p \in 1..Len(queue) : ~Shows(queue, i, p)
    BY <2>2, <2>4 DEF NeverAfter, Shows
  <2>6. i \in Settled
    BY <1>1, <1>2, <2>2 DEF Applies, ReplayStep, Batch, MemberStep
  <2>7. view[i] = Rows[i]
    BY <1>0, <1>2, <2>4, <2>5, <2>6 DEF Shown
  <2> QED
    BY <1>1, <2>2, <2>7
<1>3. CASE Applies /\ Says(Coming, i, 1)
  BY <1>3, CopiedByApply
<1>4. CASE MemberStep(i) /\ latest[i] = left.versions[i]
  <2>1. left.versions[i] # 0
    BY <1>1, <1>4, AskedByStep
  <2>2. pc = "member" /\ i \in left.ids /\ view' = [view EXCEPT ![i] = left.rows[i]]
    BY <1>4 DEF MemberStep, Batch
  <2>3. left.rows[i] = Rows[i]
    BY <1>0, <1>1, <1>4, <2>1, <2>2 DEF AnswerIsTrue
  <2> QED
    BY <1>0, <1>1, <2>2, <2>3
<1>5. CASE /\ complete /\ i \in Settled
           /\ ~(Applies /\ Says(Coming, i, 1))
           /\ ~(MemberStep(i) /\ latest[i] = left.versions[i])
  <2>1. view[i] = Rows[i]
    BY <1>0, <1>5 DEF Copied
  <2>2. CASE view'[i] = view[i]
    BY <1>1, <2>1, <2>2
  <2>3. ~TakeRow
    <3>1. ASSUME TakeRow
          PROVE  FALSE
      <4>1. Len(queue) \in Nat \ {0} /\ queue[1].is = "row"
        BY <3>1, Taken DEF TakeRow, Typed
      <4>2. Has(queue, "row")
        BY <4>1 DEF Has
      <4> QED
        BY <1>5, <4>2 DEF Control, Printing
    <3> QED
      BY <3>1
  <2>4. CASE SweepStep(i) /\ ~(menu.query /\ latest[i] # 0) /\ view'[i] = 0
    <3>1. pc = "sweep" /\ i \in left.ids
      BY <2>4 DEF SweepStep, Batch
    <3>2. i \notin news
      BY <1>1 DEF Steady
    <3>3. i \notin Named
      <4>1. ASSUME NEW p \in 1..Len(queue), Says(queue, i, p)
            PROVE  FALSE
        <5>1. /\ Len(Back) + p \in 1..Len(Coming) /\ Coming[Len(Back) + p] = queue[p]
          BY <4>1, BackTyped, Joins DEF Coming
        <5>2. Says(Coming, i, Len(Back) + p)
          BY <4>1, <5>1 DEF Says
        <5>3. menu.query /\ latest[i] = 0
          BY <1>5, <2>4, <5>1, <5>2 DEF Settled
        <5>4. Coming[Len(Back) + p].at \in 1..latest[i]
          BY <1>1, <5>1, <5>2, <5>3 DEF Fresh, Newer
        <5> QED
          BY <5>3, <5>4
      <4> QED
        BY <4>1 DEF Named
    <3>4. Rows[i] = 0
      BY <1>0, <3>1, <3>2, <3>3 DEF Swept
    <3> QED
      BY <1>1, <2>4, <3>4
  <2> QED
    BY <1>1, <1>5, <2>2, <2>3, <2>4, ViewWrites
<1> QED
  BY <1>1, <1>2, <1>3, <1>4, <1>5

-----------------------------------------------------------------------------
(* All that convergence rests on.                                          *)
Traced ==
  /\ Called /\ Uncounted /\ Waited /\ Owed /\ Prompt
  /\ LastIsTrue /\ AnswerIsTrue /\ Shown /\ Swept /\ Copied

LEMMA TracedStarts == FollowInit => Traced
<1> SUFFICES ASSUME FollowInit
    PROVE  Traced
  OBVIOUS
<1>1. /\ run["print"] = "sent" /\ run["member"] = "off" /\ run["sweep"] = "off"
      /\ queue = <<>> /\ pc = "take" /\ Back = <<>> /\ ~aborted /\ ~complete
  BY Commands DEF FollowInit, Back
<1>2. Coming = <<>>
  BY <1>1 DEF Coming
<1>3. \A i \in Id : latest[i] = 0 /\ dirty[i] = 0 /\ boot[i] = 0
  BY DEF FollowInit, Zero
<1>4. Called /\ LastIsTrue /\ AnswerIsTrue /\ Shown /\ Swept /\ Copied
  <2>1. Called /\ LastIsTrue /\ Copied
    BY <1>1, <1>2 DEF Called, LastIsTrue, Copied
  <2>2. AnswerIsTrue
    BY <1>1, <1>3 DEF AnswerIsTrue, Steady
  <2>3. Shown
    BY <1>1 DEF Shown
  <2>4. Swept
    BY <1>1 DEF Swept
  <2> QED
    BY <2>1, <2>2, <2>3, <2>4
<1>5. Uncounted
  BY DEF FollowInit, Uncounted
<1>6. Waited /\ Owed
  BY <1>1, <1>3 DEF Waited, Owed
<1>7. Prompt
  BY <1>1, <1>3 DEF Prompt, Ids
<1> QED
  BY <1>4, <1>5, <1>6, <1>7 DEF Traced

LEMMA TracedSame ==
  ASSUME Traced, UNCHANGED followVars
  PROVE  Traced'
<1>1. /\ UNCHANGED <<menu, table, sel, news, silent, run, shot, reply>>
      /\ UNCHANGED <<queue, stopReq, fatal, aborted, latest, pc, left, pending>>
      /\ UNCHANGED <<complete, synced, view, dirty, boot, asking, sweep, touching, touched>>
  BY DEF followVars, router, taps, loop
<1>2. Rows' = Rows /\ Coming' = Coming /\ Asked' = Asked /\ Steady' = Steady
  BY <1>1 DEF Rows, Selected, Here, Coming, Back, Asked, Under, Steady
<1>3. Settled' = Settled
  BY <1>1, <1>2 DEF Settled
<1>4. Heard' = Heard /\ Named' = Named
  BY <1>1 DEF Heard, Named
<1>5. Called' /\ Uncounted' /\ Waited'
  BY <1>1 DEF Traced, Called, Halted, Uncounted, Waited
<1>6. Owed' /\ LastIsTrue'
  BY <1>1, <1>2 DEF Traced, Owed, LastIsTrue
<1>7. Prompt'
  BY <1>1 DEF Traced, Prompt
<1>8. AnswerIsTrue'
  BY <1>1, <1>2 DEF Traced, AnswerIsTrue
<1>9. Shown' /\ Copied'
  BY <1>1, <1>2, <1>3 DEF Traced, Shown, Copied
<1>10. Swept'
  BY <1>1, <1>2, <1>4 DEF Traced, Swept
<1> QED
  BY <1>5, <1>6, <1>7, <1>8, <1>9, <1>10 DEF Traced

LEMMA TracedStep ==
  ASSUME Numbered, Traced, [FollowNext]_followVars
  PROVE  Traced'
<1>1. CASE UNCHANGED followVars
  BY <1>1, TracedSame
<1>2. CASE FollowNext
  <2>1. Typed /\ Typed' /\ Control /\ LastWord /\ Fresh
    BY NumberedStep DEF Numbered
  <2>2. Called' /\ Waited' /\ Owed' /\ Uncounted'
    BY <1>2, <2>1, CalledStep, WaitedStep, OwedStep, UncountedStep DEF Traced
  <2>3. Prompt' /\ LastIsTrue' /\ AnswerIsTrue'
    BY <1>2, <2>1, <2>2, PromptStep, LastIsTrueStep, AnswerIsTrueStep DEF Traced
  <2>4. Shown' /\ Swept' /\ Copied'
    BY <1>2, <2>1, ShownStep, SweptStep, CopiedStep DEF Traced
  <2> QED
    BY <2>2, <2>3, <2>4 DEF Traced
<1> QED
  BY <1>1, <1>2

LEMMA RestConverges ==
  ASSUME Numbered, Traced, AtRest
  PROVE  synced /\ \A i \in Id \ silent : view[i] = Rows[i]
<1>1. /\ pc = "take" /\ queue = <<>> /\ news = {} /\ ~asking
      /\ run["print"] = "over" /\ sweep # "running"
  BY DEF AtRest
<1>2. ~aborted
  BY DEF AtRest, Traced, Called
<1>3. complete
  <2>1. ~Has(queue, "done")
    BY <1>1 DEF Has
  <2> QED
    BY <1>1, <1>2, <2>1 DEF Traced, Prompt
<1>4. Coming = <<>>
  <2>1. Back = <<>>
    BY <1>1, <1>3, BackHolds DEF Numbered
  <2> QED
    BY <1>1, <2>1 DEF Coming
<1>5. \A i \in Id : menu.query => latest[i] = 0
  <2> SUFFICES ASSUME menu.query, NEW i \in Id, latest[i] # 0
               PROVE  FALSE
    OBVIOUS
  <2>1. dirty[i] = 0
    BY <1>1, <1>2 DEF Traced, Prompt, Ids
  <2>2. Asked[i] = {}
    <3>1. ~Under("member")
      BY <1>1 DEF Numbered, Control, Reading
    <3> QED
      BY <1>1, <3>1 DEF Asked
  <2> QED
    BY <1>2, <1>4, <2>1, <2>2 DEF Traced, Owed
<1>6. synced
  <2>1. CASE menu.query
    <3>1. boot = Zero
      <4>1. \A i \in Id : boot[i] = 0
        <5>1. boot \in [Id -> Nat]
          BY DEF Numbered, Typed, TypedLoop
        <5> QED
          BY <1>5, <2>1, <5>1 DEF Traced, Waited
      <4>2. boot \in [Id -> Nat]
        BY DEF Numbered, Typed, TypedLoop
      <4> QED
        BY <4>1, <4>2 DEF Zero
    <3> QED
      BY <1>1, <1>2, <1>3, <2>1, <3>1 DEF Traced, Prompt
  <2>2. CASE ~menu.query
    BY <1>1, <1>2, <1>3, <2>2 DEF Traced, Prompt
  <2> QED
    BY <2>1, <2>2
<1>7. ASSUME NEW i \in Id \ silent
      PROVE  view[i] = Rows[i]
  <2>1. i \in Settled
    BY <1>1, <1>4, <1>5 DEF Settled, Steady
  <2> QED
    BY <1>2, <1>3, <2>1 DEF Traced, Copied
<1> QED
  BY <1>6, <1>7

(* With nothing under way, the follow is synced and the reader holds what the
   router holds, save for ids that changed without a word (Converged): no
   announced change, snapshot row or answer is lost between the taps, the
   buffer and the loop's batches.                                          *)
THEOREM FollowConverges == FollowSpec => []Converged
<1>1. FollowInit => Traced
  BY TracedStarts
<1>2. Numbered /\ Traced /\ [FollowNext]_followVars => Traced'
  BY TracedStep
<1>3. Numbered /\ Traced => Converged
  BY RestConverges DEF Converged
<1> QED
  BY <1>1, <1>2, <1>3, FollowNumbered, PTL DEF FollowSpec
=============================================================================
