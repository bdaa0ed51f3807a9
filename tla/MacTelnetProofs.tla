-------------------------- MODULE MacTelnetProofs --------------------------
(***************************************************************************)
(* Proofs about MacTelnet, for any inputs, faults, window and schedule:    *)
(* the device acts on a frame at most once, the reader sees a frame at     *)
(* most once and in order, "ready" means an accepted login; its types and  *)
(* counters; and, as long as no wait was cut short, that no command is     *)
(* skipped while they are run one at a time and that each run returns the  *)
(* output of its own command.                                              *)
(***************************************************************************)
EXTENDS MacTelnet, TLAPS

Shows == {"text", "prompt", "failed", "probe", "license"}
Handshake == {"salt", "oddSalt", "endAuth", "error"}
Line == [is : Shows \cup Handshake, of : Nat]

(* What the counters and the histories are.                                *)
Typed ==
  /\ setup \in Setups /\ state \in States
  /\ login \in {"accepted", "refused", "error", "unsupported"}
  /\ outCounter \in Nat /\ dIn \in Nat /\ dAcked \in Nat
  /\ lastIn \in Nat \cup {-1} /\ lastAck \in Nat
  /\ pending \in [target : Nat \cup {-1}, what : Int, attempts : Nat]
  /\ took \in Seq(Nat) /\ typed \in Seq(Nat) /\ shown \in Seq(Nat)
  /\ said \in Seq(Line)

(* A frame carries its own number, also when it is sent again; a frame of the
   device was said; and an acknowledgement is of what was received.        *)
Honest ==
  /\ \A m \in toDev :
       /\ m.type = "data" => m.counter \in Nat /\ m.what = m.counter
       /\ m.type = "ack" => m.counter \in Nat /\ m.counter <= lastIn + 1
  /\ \A m \in toUs :
       m.type = "data" => /\ m.counter \in Nat /\ m.counter < Len(said)
                          /\ window = 1 => m.counter <= dAcked
  /\ IF pending.target = -1 THEN pending = Nothing
     ELSE pending.target > 0 => pending.what = pending.target - 1
  /\ dAcked <= lastIn + 1 /\ lastAck <= lastIn + 1 /\ lastIn < Len(said)

(* Once the device has drawn on the terminal it says nothing else.         *)
Drawn ==
  /\ \A i, j \in 1..Len(said) :
       i < j /\ said[i].is \in Shows => said[j].is \in Shows
  /\ \A i \in 1..Len(said) : said[i].is \in Shows => dIn >= 2

TookOnce ==
  /\ Increasing(took)
  /\ \A i \in 1..Len(took) : took[i] < dIn

(* The frame shown last is the last one received.                          *)
ShownLast ==
  /\ ShownOnce
  /\ \A i \in 1..Len(shown) : shown[i] <= lastIn
  /\ shown # <<>> =>
       /\ state \in {"ready", "closed"}
       /\ shown[Len(shown)] = lastIn /\ said[lastIn + 1].is \in Shows

(* Without an accepted login there is nothing to be ready for.             *)
Verdict ==
  login # "accepted" =>
    /\ state # "ready" /\ typed = <<>>
    /\ \A i \in 1..Len(said) : said[i].is \in Handshake \cup {"failed"}

MacInv == Typed /\ Honest /\ Drawn /\ TookOnce /\ ShownLast /\ Verdict

-----------------------------------------------------------------------------
LEMMA SayingFacts ==
  ASSUME NEW c \in Nat, NEW what \in Seq(Shows \cup Handshake)
  PROVE  /\ Saying(c, what) \in Seq(Line) /\ Len(Saying(c, what)) = Len(what)
         /\ \A n \in 1..Len(what) : Saying(c, what)[n].is = what[n]
<1>1. \A n \in 1..Len(what) : [is |-> what[n], of |-> c] \in Line
  BY DEF Line
<1>2. Len(what) \in Nat
  OBVIOUS
<1>3. Saying(c, what) \in [1..Len(what) -> Line]
  BY <1>1 DEF Saying
<1>4. Saying(c, what) \in Seq(Line) /\ Len(Saying(c, what)) = Len(what)
  BY <1>2, <1>3
<1> QED
  BY <1>4 DEF Saying

(* A line of words that says nothing but drawings once it has drawn.       *)
Words(what) ==
  \A i, j \in 1..Len(what) : i < j /\ what[i] \in Shows => what[j] \in Shows

LEMMA ConcatFacts ==
  ASSUME NEW s \in Seq(Line), NEW t \in Seq(Line)
  PROVE  /\ s \o t \in Seq(Line) /\ Len(s \o t) = Len(s) + Len(t)
         /\ \A i \in 1..Len(s) : (s \o t)[i] = s[i]
         /\ \A i \in 1..Len(s \o t) : i \notin 1..Len(s) =>
              i - Len(s) \in 1..Len(t) /\ (s \o t)[i] = t[i - Len(s)]
<1>1. Len(s) \in Nat /\ Len(t) \in Nat
  OBVIOUS
<1>2. s \o t \in Seq(Line) /\ Len(s \o t) = Len(s) + Len(t)
  OBVIOUS
<1>3. \A i \in 1..Len(s) : (s \o t)[i] = s[i]
  BY <1>1
<1>4. ASSUME NEW i \in 1..Len(s \o t), i \notin 1..Len(s)
      PROVE  i - Len(s) \in 1..Len(t) /\ (s \o t)[i] = t[i - Len(s)]
  <2>1. i \in Len(s) + 1..Len(s) + Len(t)
    BY <1>1, <1>2, <1>4
  <2> QED
    BY <1>1, <2>1
<1> QED
  BY <1>2, <1>3, <1>4

LEMMA BannerFacts ==
  /\ <<"endAuth">> \o Banner \in Seq(Shows \cup Handshake)
  /\ Words(<<"endAuth">> \o Banner)
<1>1. Banner \in Seq(Shows)
  <2> DEFINE asks == IF setup.probe THEN <<"probe">> ELSE <<>>
             greets == IF setup.license THEN <<"license">> ELSE <<"prompt", "prompt">>
  <2>1. asks \in Seq(Shows) /\ greets \in Seq(Shows)
    <3>1. <<>> \in Seq(Shows) /\ <<"probe">> \in Seq(Shows)
      BY DEF Shows
    <3>2. <<"license">> \in Seq(Shows) /\ <<"prompt", "prompt">> \in Seq(Shows)
      BY DEF Shows
    <3> QED
      BY <3>1, <3>2
  <2>2. \A s, t \in Seq(Shows) : s \o t \in Seq(Shows)
    OBVIOUS
  <2>3. Banner = asks \o greets
    BY DEF Banner
  <2> QED
    BY <2>1, <2>2, <2>3
<1>2. ASSUME NEW b \in Seq(Shows)
      PROVE  /\ <<"endAuth">> \o b \in Seq(Shows \cup Handshake)
             /\ Words(<<"endAuth">> \o b)
  <2>1. <<"endAuth">> \in Seq(Shows \cup Handshake) /\ b \in Seq(Shows \cup Handshake)
    BY DEF Handshake
  <2>2. <<"endAuth">> \o b \in Seq(Shows \cup Handshake)
    BY <2>1
  <2>3. Len(<<"endAuth">> \o b) = 1 + Len(b)
    BY <2>1
  <2>4. (<<"endAuth">> \o b)[1] = "endAuth"
    BY <2>1, <2>3
  <2>5. \A n \in 2..1 + Len(b) : (<<"endAuth">> \o b)[n] = b[n - 1]
    BY <2>1
  <2>6. \A n \in 2..1 + Len(b) : (<<"endAuth">> \o b)[n] \in Shows
    BY <2>5
  <2>7. "endAuth" \notin Shows
    BY DEF Shows
  <2> QED
    BY <2>2, <2>3, <2>4, <2>6, <2>7 DEF Words
<1> QED
  BY <1>1, <1>2

LEMMA RepliesFacts ==
  ASSUME NEW c \in Nat,
         login \in {"accepted", "refused", "error", "unsupported"}
  PROVE  \E what \in Seq(Shows \cup Handshake) :
           /\ Replies(c) = Saying(c, what)
           /\ Words(what)
           /\ c = 0 => \A n \in 1..Len(what) : what[n] \notin Shows
           /\ c > 1 => \A n \in 1..Len(what) : what[n] \in Shows
           /\ login # "accepted" /\ typed = <<>> =>
                \A n \in 1..Len(what) : what[n] \in Handshake \cup {"failed"}
<1> DEFINE Good(what) ==
      /\ what \in Seq(Shows \cup Handshake)
      /\ Replies(c) = Saying(c, what)
      /\ Words(what)
      /\ c = 0 => \A n \in 1..Len(what) : what[n] \notin Shows
      /\ c > 1 => \A n \in 1..Len(what) : what[n] \in Shows
      /\ login # "accepted" /\ typed = <<>> =>
           \A n \in 1..Len(what) : what[n] \in Handshake \cup {"failed"}
<1>1. CASE c = 0 /\ login = "unsupported"
  <2>1. Replies(c) = Saying(c, <<"oddSalt">>)
    BY <1>1 DEF Replies
  <2>2. Good(<<"oddSalt">>)
    BY <1>1, <2>1 DEF Words, Shows, Handshake
  <2> QED
    BY <2>2
<1>2. CASE c = 0 /\ login # "unsupported"
  <2>1. Replies(c) = Saying(c, <<"salt">>)
    BY <1>2 DEF Replies
  <2>2. Good(<<"salt">>)
    BY <1>2, <2>1 DEF Words, Shows, Handshake
  <2> QED
    BY <2>2
<1>3. CASE c = 1 /\ login = "accepted"
  <2>1. Replies(c) = Saying(c, <<"endAuth">> \o Banner)
    BY <1>3 DEF Replies
  <2>2. Good(<<"endAuth">> \o Banner)
    BY <1>3, <2>1, BannerFacts
  <2> QED
    BY <2>2
<1>4. CASE c = 1 /\ login = "refused"
  <2>1. Replies(c) = Saying(c, <<"endAuth", "failed">>)
    BY <1>4 DEF Replies
  <2>2. Good(<<"endAuth", "failed">>)
    BY <1>4, <2>1 DEF Words, Shows, Handshake
  <2> QED
    BY <2>2
<1>5. CASE c = 1 /\ login \notin {"accepted", "refused"}
  <2>1. Replies(c) = Saying(c, <<"error">>)
    BY <1>5 DEF Replies
  <2>2. Good(<<"error">>)
    BY <1>5, <2>1 DEF Words, Shows, Handshake
  <2> QED
    BY <2>2
<1>6. CASE c > 1 /\ \E i \in 1..Len(typed) : typed[i] = c
  <2>1. Replies(c) = Saying(c, <<"text", "prompt">>)
    BY <1>6 DEF Replies
  <2>2. typed # <<>>
    BY <1>6
  <2>3. Good(<<"text", "prompt">>)
    BY <1>6, <2>1, <2>2 DEF Words, Shows, Handshake
  <2> QED
    BY <2>3
<1>7. CASE c > 1 /\ ~(\E i \in 1..Len(typed) : typed[i] = c)
  <2>1. Replies(c) = Saying(c, <<>>)
    BY <1>7 DEF Replies
  <2>2. Good(<<>>)
    BY <1>7, <2>1 DEF Words
  <2> QED
    BY <2>2
<1> QED
  BY <1>1, <1>2, <1>3, <1>4, <1>5, <1>6, <1>7

-----------------------------------------------------------------------------
(* A step in which nobody hears or types anything.                         *)
LEMMA NothingHeard ==
  ASSUME MacInv, UNCHANGED <<setup, login, dIn, took, said, lastIn, shown, typed>>,
         state' # state => state' # "ready" /\ (shown # <<>> => state' = "closed")
  PROVE  Drawn' /\ TookOnce' /\ ShownLast' /\ Verdict'
<1>1. Drawn'
  BY DEF MacInv, Drawn
<1>2. TookOnce'
  BY DEF MacInv, TookOnce, Increasing
<1>3. ShownLast'
  BY DEF MacInv, ShownLast, ShownOnce, Increasing, window
<1>4. Verdict'
  BY DEF MacInv, Verdict
<1> QED
  BY <1>1, <1>2, <1>3, <1>4

LEMMA StartKeeps ==
  ASSUME MacInv, StartSession
  PROVE  MacInv'
<1>1. Typed'
  BY DEF MacInv, Typed, States, StartSession, device
<1>2. Honest'
  BY DEF MacInv, Typed, Honest, window, StartSession, Start, device
<1>3. Drawn' /\ TookOnce' /\ ShownLast' /\ Verdict'
  BY NothingHeard DEF StartSession, device, MacInv, ShownLast
<1> QED
  BY <1>1, <1>2, <1>3 DEF MacInv

LEMMA EndKeeps ==
  ASSUME MacInv, NEW m \in toUs, OnEnd(m), state # "closed"
  PROVE  MacInv'
<1>1. Typed'
  BY DEF MacInv, Typed, States, OnEnd, Close, Nothing, Receive, device
<1>2. Honest'
  BY DEF MacInv, Typed, Honest, window, OnEnd, Close, Nothing, Receive, device
<1>3. Drawn' /\ TookOnce' /\ ShownLast' /\ Verdict'
  BY NothingHeard DEF OnEnd, Close, device, Receive
<1> QED
  BY <1>1, <1>2, <1>3 DEF MacInv

LEMMA LoseKeeps ==
  ASSUME MacInv, Lose
  PROVE  MacInv'
<1>1. Typed'
  BY DEF MacInv, Typed, States, Lose, session, console, device
<1>2. Honest'
  BY DEF MacInv, Typed, Honest, window, Lose, session, console, device
<1>3. Drawn' /\ TookOnce' /\ ShownLast' /\ Verdict'
  BY NothingHeard DEF Lose, session, console, device
<1> QED
  BY <1>1, <1>2, <1>3 DEF MacInv

LEMMA TickKeeps ==
  ASSUME MacInv, Tick
  PROVE  MacInv'
<1>1. Typed'
  <2>1. pending' \in [target : Nat \cup {-1}, what : Int, attempts : Nat]
    <3>1. pending \in [target : Nat \cup {-1}, what : Int, attempts : Nat]
      BY DEF MacInv, Typed
    <3>2. pending' = [pending EXCEPT !.attempts = @ + 1]
      BY DEF Tick
    <3> QED
      BY <3>1, <3>2
  <2> QED
    BY <2>1 DEF MacInv, Typed, Tick, console, device
<1>2. Honest'
  BY DEF MacInv, Typed, Honest, window, Tick, PendingFrame, Start, Data, console, device
<1>3. Drawn' /\ TookOnce' /\ ShownLast' /\ Verdict'
  BY NothingHeard DEF Tick, console, device
<1> QED
  BY <1>1, <1>2, <1>3 DEF MacInv

LEMMA KeepaliveKeeps ==
  ASSUME MacInv, Keepalive
  PROVE  MacInv'
<1>1. Typed'
  BY DEF MacInv, Typed, States, Keepalive, session, console, device
<1>2. Honest'
  BY DEF MacInv, Typed, Honest, window, Keepalive, WithAck, Ack, session, console, device
<1>3. Drawn' /\ TookOnce' /\ ShownLast' /\ Verdict'
  BY NothingHeard DEF Keepalive, session, console, device
<1> QED
  BY <1>1, <1>2, <1>3 DEF MacInv

LEMMA SettleKeeps ==
  ASSUME MacInv, Settle
  PROVE  MacInv'
<1>1. Typed'
  BY DEF MacInv, Typed, States, Settle, session, device
<1>2. Honest'
  BY DEF MacInv, Typed, Honest, window, Settle, session, device
<1>3. Drawn' /\ TookOnce' /\ ShownLast' /\ Verdict'
  BY NothingHeard DEF Settle, session, device
<1> QED
  BY <1>1, <1>2, <1>3 DEF MacInv

LEMMA AttachKeeps ==
  ASSUME MacInv, Attach
  PROVE  MacInv'
<1>1. Typed'
  BY DEF MacInv, Typed, States, Attach, session, device
<1>2. Honest'
  BY DEF MacInv, Typed, Honest, window, Attach, session, device
<1>3. Drawn' /\ TookOnce' /\ ShownLast' /\ Verdict'
  BY NothingHeard DEF Attach, session, device
<1> QED
  BY <1>1, <1>2, <1>3 DEF MacInv

LEMMA OpenTimesOutKeeps ==
  ASSUME MacInv, OpenTimesOut
  PROVE  MacInv'
<1>1. Typed'
  BY DEF MacInv, Typed, States, OpenTimesOut, Close, Nothing, device
<1>2. Honest'
  BY DEF MacInv, Typed, Honest, window, OpenTimesOut, Close, Nothing, device
<1>3. Drawn' /\ TookOnce' /\ ShownLast' /\ Verdict'
  BY NothingHeard DEF OpenTimesOut, Close, device
<1> QED
  BY <1>1, <1>2, <1>3 DEF MacInv

LEMMA CallerClosesKeeps ==
  ASSUME MacInv, CallerCloses
  PROVE  MacInv'
<1>1. Typed'
  BY DEF MacInv, Typed, States, CallerCloses, Close, Nothing, device
<1>2. Honest'
  BY DEF MacInv, Typed, Honest, window, CallerCloses, Close, Nothing, device
<1>3. Drawn' /\ TookOnce' /\ ShownLast' /\ Verdict'
  BY NothingHeard DEF CallerCloses, Close, device
<1> QED
  BY <1>1, <1>2, <1>3 DEF MacInv

LEMMA RunTimesOutKeeps ==
  ASSUME MacInv, RunTimesOut
  PROVE  MacInv'
<1>1. Typed'
  BY DEF MacInv, Typed, States, RunTimesOut, session, device
<1>2. Honest'
  BY DEF MacInv, Typed, Honest, window, RunTimesOut, session, device
<1>3. Drawn' /\ TookOnce' /\ ShownLast' /\ Verdict'
  BY NothingHeard DEF RunTimesOut, session, device
<1> QED
  BY <1>1, <1>2, <1>3 DEF MacInv

LEMMA DevStartKeeps ==
  ASSUME MacInv, NEW m \in toDev, DevStart(m)
  PROVE  MacInv'
<1>1. Typed'
  BY DEF MacInv, Typed, States, DevStart, session, console
<1>2. Honest'
  BY DEF MacInv, Typed, Honest, window, DevStart, Receive, WithAck, Ack, session, console
<1>3. Drawn' /\ TookOnce' /\ ShownLast' /\ Verdict'
  BY NothingHeard DEF DevStart, session, console
<1> QED
  BY <1>1, <1>2, <1>3 DEF MacInv

LEMMA DevAckKeeps ==
  ASSUME MacInv, NEW m \in toDev, DevAck(m)
  PROVE  MacInv'
<1>1. Typed'
  BY DEF MacInv, Typed, States, Honest, DevAck, Larger, session, console
<1>2. Honest'
  BY DEF MacInv, Typed, Honest, window, DevAck, Larger, Unseen, session, console
<1>3. Drawn' /\ TookOnce' /\ ShownLast' /\ Verdict'
  BY NothingHeard DEF DevAck, session, console
<1> QED
  BY <1>1, <1>2, <1>3 DEF MacInv

LEMMA DevSendKeeps ==
  ASSUME MacInv, NEW k \in 0..Len(said) - 1, DevSend(k)
  PROVE  MacInv'
<1>1. Typed'
  BY DEF MacInv, Typed, States, DevSend, session, console, device
<1>2. Honest'
  BY DEF MacInv, Typed, Honest, window, DevSend, Data, session, console, device
<1>3. Drawn' /\ TookOnce' /\ ShownLast' /\ Verdict'
  BY NothingHeard DEF DevSend, session, console, device
<1> QED
  BY <1>1, <1>2, <1>3 DEF MacInv

LEMMA DevEndsKeeps ==
  ASSUME MacInv, DevEnds
  PROVE  MacInv'
<1>1. Typed'
  BY DEF MacInv, Typed, States, DevEnds, session, console
<1>2. Honest'
  BY DEF MacInv, Typed, Honest, window, DevEnds, End, session, console
<1>3. Drawn' /\ TookOnce' /\ ShownLast' /\ Verdict'
  BY NothingHeard DEF DevEnds, session, console
<1> QED
  BY <1>1, <1>2, <1>3 DEF MacInv

LEMMA FramesFacts ==
  ASSUME outCounter \in Nat, NEW n \in Nat, NEW m \in Frames(n)
  PROVE  m.type = "data" /\ m.counter \in Nat /\ m.what = m.counter
BY DEF Frames, Data

LEMMA SendFacts ==
  ASSUME MacInv, NEW n \in Nat, SendData(n)
  PROVE  /\ outCounter' \in Nat
         /\ pending' \in [target : Nat \cup {-1}, what : Int, attempts : Nat]
         /\ IF pending'.target = -1 THEN pending' = Nothing
            ELSE pending'.target > 0 => pending'.what = pending'.target - 1
BY DEF MacInv, Typed, Honest, SendData

LEMMA OnAckKeeps ==
  ASSUME MacInv, NEW m \in toUs, OnAck(m)
  PROVE  MacInv'
<1>1. CASE state = "session-start-sent"
  <2>1. SendData(1) /\ toDev' = toDev \cup Frames(1) /\ state' = "auth-begin-sent"
    BY <1>1 DEF OnAck
  <2>2. Typed'
    BY <2>1, SendFacts DEF MacInv, Typed, States, OnAck, console, device
  <2>3. Honest'
    BY <2>1, SendFacts, FramesFacts
    DEF MacInv, Typed, Honest, window, OnAck, Unseen, console, device
  <2>4. Drawn' /\ TookOnce' /\ ShownLast' /\ Verdict'
    BY <1>1, <2>1, NothingHeard DEF OnAck, console, device, MacInv, ShownLast
  <2> QED
    BY <2>2, <2>3, <2>4 DEF MacInv
<1>2. CASE state # "session-start-sent"
  <2>1. Typed'
    BY <1>2 DEF MacInv, Typed, OnAck, Nothing, console, device
  <2>2. Honest'
    BY <1>2 DEF MacInv, Typed, Honest, window, OnAck, Nothing, Unseen, console, device
  <2>3. Drawn' /\ TookOnce' /\ ShownLast' /\ Verdict'
    BY <1>2, NothingHeard DEF OnAck, console, device
  <2> QED
    BY <2>1, <2>2, <2>3 DEF MacInv
<1> QED
  BY <1>1, <1>2

LEMMA TypeKeeps ==
  ASSUME MacInv, Type
  PROVE  MacInv'
<1>1. SendData(1) /\ toDev' = toDev \cup Frames(1) /\ state = "ready" /\ state' = state
  BY DEF Type, MayType
<1>2. Typed'
  BY <1>1, SendFacts DEF MacInv, Typed, Type, device
<1>3. Honest'
  BY <1>1, SendFacts, FramesFacts DEF MacInv, Typed, Honest, window, Type, device
<1>4. Drawn' /\ TookOnce'
  BY DEF MacInv, Drawn, TookOnce, Increasing, Type, device
<1>5. ShownLast'
  BY <1>1 DEF MacInv, ShownLast, ShownOnce, Increasing, window, Type, device
<1>6. Verdict'
  BY <1>1 DEF MacInv, Verdict, Type, device
<1> QED
  BY <1>2, <1>3, <1>4, <1>5, <1>6 DEF MacInv

(* The acknowledgement a frame gets is of all received so far.             *)
LEMMA AckedFacts ==
  ASSUME MacInv, NEW k \in Nat, NEW m \in WithAck(toDev, k + 1, dAcked)
  PROVE  /\ m.type = "data" => m.counter \in Nat /\ m.what = m.counter
         /\ m.type = "ack" => m.counter \in Nat /\ (m.counter <= lastIn + 1 \/ m.counter = k + 1)
BY DEF MacInv, Typed, Honest, WithAck, Ack

LEMMA OnDataTyped ==
  ASSUME MacInv, NEW m \in toUs, OnData(m)
  PROVE  Typed'
<1>1. m.counter \in Nat
  BY DEF MacInv, Honest, OnData
<1>2. lastIn' \in Nat \cup {-1} /\ lastAck' \in Nat
  BY <1>1 DEF MacInv, Typed, OnData
<1>3. outCounter' \in Nat /\ pending' \in [target : Nat \cup {-1}, what : Int, attempts : Nat]
  <2>1. \/ SendData(1)
        \/ SendData(Asked(m.counter))
        \/ outCounter' = outCounter /\ pending' \in {pending, Nothing}
    BY Zenon DEF OnData, Show, Close
  <2>2. Asked(m.counter) \in Nat
    BY DEF Asked, Answers
  <2> QED
    BY <2>1, <2>2, SendFacts DEF MacInv, Typed, Nothing
<1>4. state' \in States
  BY DEF MacInv, Typed, OnData, States, AfterEndAuth, Close
<1>5. shown' = shown \/ shown' = Append(shown, m.counter)
  BY DEF OnData, Show
<1>6. shown' \in Seq(Nat)
  <2>1. shown \in Seq(Nat)
    BY DEF MacInv, Typed
  <2>2. Append(shown, m.counter) \in Seq(Nat)
    BY <1>1, <2>1
  <2> QED
    BY <1>5, <2>1, <2>2
<1> QED
  BY <1>2, <1>3, <1>4, <1>6 DEF MacInv, Typed, OnData, device

(* What bounds a counter by the one after the last input still bounds it when
   the last input advances (onData never lowers lastIn).                    *)
LEMMA AckMonotone ==
  \A a, b, n \in Int : /\ a <= b /\ n <= a + 1 => n <= b + 1
                       /\ a <= b => a + 1 <= b + 1
OBVIOUS

LEMMA OnDataHonest ==
  ASSUME MacInv, NEW m \in toUs, OnData(m)
  PROVE  Honest'
<1> DEFINE k == m.counter
           acked == WithAck(toDev, k + 1, dAcked)
<1>1. k \in Nat /\ k < Len(said)
  BY DEF MacInv, Honest, OnData
<1>2. lastIn' \in Int /\ lastIn' >= lastIn /\ k <= lastIn' /\ lastIn' < Len(said)
  <2>1. lastIn \in Int /\ lastIn < Len(said) /\ k \in Int
    BY <1>1 DEF MacInv, Typed, Honest
  <2>2. lastIn' = IF k > lastIn THEN k ELSE lastIn
    BY DEF OnData, Advances
  <2> QED
    BY <1>1, <2>1, <2>2
<1>3. Asked(k) \in Nat
  BY DEF Asked, Answers
<1>4. \/ SendData(1) /\ toDev' = acked \cup Frames(1)
      \/ SendData(Asked(k)) /\ toDev' = acked \cup Frames(Asked(k))
      \/ pending' = Nothing /\ toDev' = acked
      \/ UNCHANGED pending /\ toDev' = acked
  BY DEF OnData, Show, Close
<1>5. \A d \in toDev' :
        /\ d.type = "data" => d.counter \in Nat /\ d.what = d.counter
        /\ d.type = "ack" => d.counter \in Nat /\ d.counter <= lastIn' + 1
  <2> SUFFICES ASSUME NEW d \in toDev'
      PROVE  /\ d.type = "data" => d.counter \in Nat /\ d.what = d.counter
             /\ d.type = "ack" => d.counter \in Nat /\ d.counter <= lastIn' + 1
    OBVIOUS
  <2>1. d \in acked \/ d \in Frames(1) \/ d \in Frames(Asked(k))
    BY <1>4
  <2>2. CASE d \in acked
    <3>1. /\ d.type = "data" => d.counter \in Nat /\ d.what = d.counter
          /\ d.type = "ack" =>
               d.counter \in Nat /\ (d.counter <= lastIn + 1 \/ d.counter = k + 1)
      BY <1>1, <2>2, AckedFacts
    <3>2. lastIn \in Int /\ k \in Int
      BY <1>1 DEF MacInv, Typed
    <3> QED
      BY <1>2, <3>1, <3>2
  <2>3. CASE d \in Frames(1) \/ d \in Frames(Asked(k))
    BY <1>3, <2>3, FramesFacts DEF MacInv, Typed
  <2> QED
    BY <2>1, <2>2, <2>3
<1>6. IF pending'.target = -1 THEN pending' = Nothing
      ELSE pending'.target > 0 => pending'.what = pending'.target - 1
  BY <1>3, <1>4, SendFacts DEF MacInv, Honest, Nothing
<1>7. toUs' \subseteq toUs /\ said' = said /\ dAcked' = dAcked /\ setup' = setup
      /\ lastAck' = k + 1
  BY DEF OnData, Receive, device
<1>8. dAcked' <= lastIn' + 1 /\ lastAck' <= lastIn' + 1 /\ lastIn' < Len(said')
  <2>1. dAcked \in Int /\ dAcked <= lastIn + 1 /\ lastIn \in Int /\ k \in Int
    BY <1>1 DEF MacInv, Typed, Honest
  <2>2. lastIn' \in Int /\ lastIn <= lastIn' /\ k <= lastIn'
    <3>1. lastIn' \in Int /\ lastIn' >= lastIn /\ k <= lastIn'
      BY <1>2
    <3> HIDE DEF k
    <3> QED
      BY <2>1, <3>1
  <2>3. dAcked <= lastIn' + 1 /\ k + 1 <= lastIn' + 1
    <3>1. dAcked <= lastIn' + 1
      BY <2>1, <2>2, AckMonotone
    <3>2. k + 1 <= lastIn' + 1
      BY <2>1, <2>2, AckMonotone
    <3> QED
      BY <3>1, <3>2
  <2> QED
    BY <1>2, <1>7, <2>3
<1>9. \A d \in toUs' :
        d.type = "data" => /\ d.counter \in Nat /\ d.counter < Len(said')
                           /\ window' = 1 => d.counter <= dAcked'
  BY <1>7 DEF MacInv, Honest, window
<1> QED
  BY <1>5, <1>6, <1>8, <1>9 DEF Honest

(* What is shown next is of the terminal, and directly follows what was shown
   when the device awaits its acknowledgements.                             *)
LEMMA OnDataShown ==
  ASSUME MacInv, NEW m \in toUs, OnData(m), state # "closed"
  PROVE  ShownLast'
<1> DEFINE k == m.counter
<1>1. k \in Nat /\ k < Len(said) /\ (window = 1 => k <= lastIn + 1)
  BY DEF MacInv, Typed, Honest, OnData
<1>2. said' = said /\ setup' = setup
  BY DEF OnData, device
<1>3. Len(shown) \in Nat /\ \A i \in 1..Len(shown) : shown[i] \in Nat /\ shown[i] <= lastIn
  BY DEF MacInv, Typed, ShownLast
<1>4. CASE /\ Advances(k) /\ said[k + 1].is \in Shows /\ state' = "ready"
           /\ shown' = Append(shown, k)
  <2>1. lastIn' = k /\ k > lastIn
    BY <1>4 DEF OnData, Advances
  <2>2. /\ Len(shown') = Len(shown) + 1 /\ shown'[Len(shown) + 1] = k
        /\ \A i \in 1..Len(shown) : shown'[i] = shown[i]
    BY <1>1, <1>4 DEF MacInv, Typed
  <2>3. \A i \in 1..Len(shown) : shown[i] < k
    BY <1>1, <1>3, <2>1 DEF MacInv, Typed
  <2>4. \A i \in 1..Len(shown') : shown'[i] <= lastIn'
    BY <1>1, <1>3, <2>1, <2>2, <2>3
  <2>5. Increasing(shown')
    <3> SUFFICES ASSUME NEW i \in 1..Len(shown') - 1
        PROVE  shown'[i] < shown'[i + 1]
      BY DEF Increasing
    <3>1. CASE i = Len(shown)
      BY <1>3, <2>2, <2>3, <3>1
    <3>2. CASE i # Len(shown)
      <4>1. i \in 1..Len(shown) - 1 /\ i \in 1..Len(shown) /\ i + 1 \in 1..Len(shown)
        BY <1>3, <2>2, <3>2
      <4>2. shown[i] < shown[i + 1]
        BY <4>1 DEF MacInv, ShownLast, ShownOnce, Increasing
      <4> QED
        BY <2>2, <4>1, <4>2
    <3> QED
      BY <3>1, <3>2
  <2>6. ASSUME window = 1, NEW i \in 1..Len(shown') - 1
        PROVE  shown'[i + 1] = shown'[i] + 1
    <3>1. CASE i = Len(shown)
      <4>1. shown # <<>> /\ shown[i] = lastIn
        BY <3>1 DEF MacInv, Typed, ShownLast
      <4>2. k = lastIn + 1
        BY <1>1, <2>1, <2>6 DEF MacInv, Typed
      <4>3. i \in 1..Len(shown) /\ i + 1 = Len(shown) + 1
        BY <1>3, <3>1
      <4> QED
        BY <2>2, <3>1, <4>1, <4>2, <4>3
    <3>2. CASE i # Len(shown)
      <4>1. i \in 1..Len(shown) - 1 /\ i \in 1..Len(shown) /\ i + 1 \in 1..Len(shown)
        BY <1>3, <2>2, <3>2
      <4>2. shown[i + 1] = shown[i] + 1
        BY <2>6, <4>1 DEF MacInv, ShownLast, ShownOnce
      <4> QED
        BY <2>2, <4>1, <4>2
    <3> QED
      BY <3>1, <3>2
  <2>7. shown'[Len(shown')] = lastIn' /\ said'[lastIn' + 1].is \in Shows
    BY <1>2, <1>4, <2>1, <2>2
  <2>8. ShownOnce'
    BY <1>2, <2>5, <2>6 DEF ShownOnce, window, Increasing
  <2> QED
    BY <1>4, <2>4, <2>7, <2>8 DEF ShownLast
<1>5. CASE shown' = shown /\ shown = <<>>
  BY <1>2, <1>5 DEF MacInv, ShownLast, ShownOnce, Increasing, window
<1>6. CASE shown' = shown /\ shown # <<>> /\ lastIn' = lastIn /\ state' = state
  BY <1>2, <1>6 DEF MacInv, ShownLast, ShownOnce, Increasing, window
<1>7. CASE Advances(k) /\ shown # <<>> /\ state # "closed"
  <2>1. state = "ready" /\ said[lastIn + 1].is \in Shows /\ lastIn \in Nat
    BY <1>7 DEF MacInv, ShownLast, Typed
  <2>2. lastIn + 1 \in 1..Len(said) /\ k + 1 \in 1..Len(said) /\ lastIn + 1 < k + 1
    <3>1. k > lastIn /\ Len(said) \in Nat /\ k \in Nat /\ k < Len(said)
      BY <1>1, <1>7 DEF MacInv, Typed, Advances
    <3>2. lastIn < Len(said)
      BY DEF MacInv, Honest
    <3> QED
      BY <2>1, <3>1, <3>2
  <2>3. said[k + 1].is \in Shows
    BY <2>1, <2>2 DEF MacInv, Drawn
  <2>4. said[k + 1].is \notin {"salt", "oddSalt", "endAuth", "error"} /\ Terminal(k)
    BY <2>3 DEF Shows, Terminal
  <2>5. state' = "ready" /\ shown' = Append(shown, k)
    BY <1>7, <2>1, <2>4 DEF OnData, Show
  <2> QED
    BY <1>4, <1>7, <2>3, <2>5
<1>8. CASE shown' # shown
  BY <1>4, <1>8 DEF OnData, Show, Terminal, Shows
<1>9. CASE ~Advances(k)
  BY <1>5, <1>6, <1>9 DEF OnData
<1> QED
  BY <1>5, <1>7, <1>8, <1>9 DEF OnData

LEMMA OnDataVerdict ==
  ASSUME MacInv, NEW m \in toUs, OnData(m)
  PROVE  Verdict'
<1> SUFFICES ASSUME login # "accepted"
    PROVE  /\ state' # "ready" /\ typed' = <<>>
           /\ \A i \in 1..Len(said') : said'[i].is \in Handshake \cup {"failed"}
  BY DEF Verdict, OnData, device
<1>1. state # "ready" /\ typed = <<>>
      /\ \A i \in 1..Len(said) : said[i].is \in Handshake \cup {"failed"}
  BY DEF MacInv, Verdict
<1>2. m.counter + 1 \in 1..Len(said)
  <2>1. m.counter \in Nat /\ m.counter < Len(said)
    BY DEF MacInv, Honest, OnData
  <2>2. Len(said) \in Nat
    BY DEF MacInv, Typed
  <2> QED
    BY <2>1, <2>2
<1>3. said[m.counter + 1].is \in {"salt", "oddSalt", "endAuth", "error", "failed"}
  BY <1>1, <1>2 DEF Handshake
<1>4. state' # "ready"
  BY <1>1, <1>3 DEF OnData, Terminal, AfterEndAuth, Close
<1> QED
  BY <1>1, <1>4 DEF OnData, device

LEMMA OnDataKeeps ==
  ASSUME MacInv, NEW m \in toUs, OnData(m), state # "closed"
  PROVE  MacInv'
<1>1. Drawn' /\ TookOnce'
  BY DEF MacInv, Drawn, TookOnce, Increasing, OnData, device
<1> QED
  BY <1>1, OnDataTyped, OnDataHonest, OnDataShown, OnDataVerdict DEF MacInv

(* The device acts on a frame that advances, and says what it has to say.  *)
LEMMA DevDataKeeps ==
  ASSUME MacInv, NEW m \in toDev, DevData(m)
  PROVE  MacInv'
<1> DEFINE c == m.counter
<1>1. c \in Nat /\ m.what = c
  BY DEF MacInv, Honest, DevData
<1>2. /\ toDev' \subseteq toDev
      /\ \A d \in toUs' : d \in toUs \/ d.type = "ack"
      /\ UNCHANGED <<setup, session, console, login, dAcked>>
  BY DEF DevData, Receive, WithAck, Ack
<1>3. CASE c < dIn
  <2>1. UNCHANGED <<dIn, took, said>>
    BY <1>1, <1>3 DEF DevData, MacInv, Typed
  <2>2. Typed'
    BY <1>2, <2>1 DEF MacInv, Typed, session, console
  <2>3. Honest'
    BY <1>2, <2>1 DEF MacInv, Honest, window, session, console
  <2>4. Drawn' /\ TookOnce' /\ ShownLast' /\ Verdict'
    BY <1>2, <2>1, NothingHeard DEF session, console
  <2> QED
    BY <2>2, <2>3, <2>4 DEF MacInv
<1>4. CASE c >= dIn
  <2>1. dIn' = c + 1 /\ took' = Append(took, c) /\ said' = said \o Replies(c)
    BY <1>1, <1>4 DEF DevData
  <2>2. PICK what \in Seq(Shows \cup Handshake) :
          /\ Replies(c) = Saying(c, what)
          /\ Words(what)
          /\ c = 0 => \A n \in 1..Len(what) : what[n] \notin Shows
          /\ c > 1 => \A n \in 1..Len(what) : what[n] \in Shows
          /\ login # "accepted" /\ typed = <<>> =>
               \A n \in 1..Len(what) : what[n] \in Handshake \cup {"failed"}
    BY <1>1, RepliesFacts DEF MacInv, Typed
  <2>3. /\ Saying(c, what) \in Seq(Line) /\ Len(Saying(c, what)) = Len(what)
        /\ \A n \in 1..Len(what) : Saying(c, what)[n].is = what[n]
    BY <1>1, SayingFacts
  <2>4. said \in Seq(Line) /\ Len(said) \in Nat /\ Len(what) \in Nat
        /\ Replies(c) \in Seq(Line) /\ Len(Replies(c)) = Len(what)
    BY <2>2, <2>3 DEF MacInv, Typed
  <2>5. said' \in Seq(Line) /\ Len(said') = Len(said) + Len(what)
    <3>1. said \o Replies(c) \in Seq(Line)
          /\ Len(said \o Replies(c)) = Len(said) + Len(Replies(c))
      BY <2>4, ConcatFacts
    <3> QED
      BY <2>1, <2>4, <3>1
  <2>6. \A i \in 1..Len(said) : said'[i] = said[i]
    BY <2>1, <2>4, ConcatFacts
  <2>7. \A i \in 1..Len(said') : i \notin 1..Len(said) =>
          i - Len(said) \in 1..Len(what) /\ said'[i].is = what[i - Len(said)]
    <3>1. \A i \in 1..Len(said') : i \notin 1..Len(said) =>
            i - Len(said) \in 1..Len(Replies(c)) /\ said'[i] = Replies(c)[i - Len(said)]
      BY <2>1, <2>4, ConcatFacts
    <3> QED
      BY <2>2, <2>3, <3>1
  <2>8. Typed'
    <3>1. took' \in Seq(Nat)
      BY <1>1, <2>1 DEF MacInv, Typed
    <3>2. dIn' \in Nat
      BY <1>1, <2>1
    <3> QED
      BY <1>2, <2>5, <3>1, <3>2 DEF MacInv, Typed, session, console
  <2>9. Honest'
    BY <1>2, <2>4, <2>5 DEF MacInv, Typed, Honest, window, session, console
  <2>10. Drawn'
    <3>1. ASSUME NEW i \in 1..Len(said), said[i].is \in Shows
          PROVE  c > 1
      BY <1>1, <1>4, <3>1 DEF MacInv, Typed, Drawn
    <3>2. ASSUME NEW i \in 1..Len(said'), NEW j \in 1..Len(said'), i < j,
                 said'[i].is \in Shows
          PROVE  said'[j].is \in Shows
      <4>1. CASE i \in 1..Len(said) /\ j \in 1..Len(said)
        BY <2>6, <3>2, <4>1 DEF MacInv, Drawn
      <4>2. CASE i \in 1..Len(said) /\ j \notin 1..Len(said)
        BY <2>2, <2>6, <2>7, <3>1, <3>2, <4>2
      <4>3. CASE i \notin 1..Len(said)
        <5>1. j \notin 1..Len(said) /\ i - Len(said) < j - Len(said)
          BY <2>4, <2>5, <3>2, <4>3
        <5> QED
          BY <2>2, <2>7, <3>2, <4>3, <5>1 DEF Words
      <4> QED
        BY <4>1, <4>2, <4>3
    <3>3. ASSUME NEW i \in 1..Len(said'), said'[i].is \in Shows
          PROVE  dIn' >= 2
      <4>1. CASE i \in 1..Len(said)
        BY <1>1, <2>1, <2>6, <3>1, <3>3, <4>1
      <4>2. CASE i \notin 1..Len(said)
        BY <1>1, <2>1, <2>2, <2>7, <3>3, <4>2
      <4> QED
        BY <4>1, <4>2
    <3> QED
      BY <3>2, <3>3 DEF Drawn
  <2>11. TookOnce'
    <3>1. /\ Len(took) \in Nat /\ Len(took') = Len(took) + 1 /\ took'[Len(took) + 1] = c
          /\ \A i \in 1..Len(took) : took'[i] = took[i] /\ took[i] \in Nat /\ took[i] < dIn
      <4>1. took \in Seq(Nat) /\ \A i \in 1..Len(took) : took[i] < dIn
        BY DEF MacInv, Typed, TookOnce
      <4> QED
        BY <1>1, <2>1, <4>1
    <3>2. \A i \in 1..Len(took) : took[i] < c
      BY <1>1, <1>4, <3>1 DEF MacInv, Typed
    <3>3. \A i \in 1..Len(took') : took'[i] < dIn'
      BY <1>1, <2>1, <3>1, <3>2
    <3>4. ASSUME NEW i \in 1..Len(took') - 1
          PROVE  took'[i] < took'[i + 1]
      <4>1. CASE i = Len(took)
        BY <3>1, <3>2, <4>1
      <4>2. CASE i # Len(took)
        <5>1. i \in 1..Len(took) - 1 /\ i \in 1..Len(took) /\ i + 1 \in 1..Len(took)
          BY <3>1, <4>2
        <5>2. took[i] < took[i + 1]
          BY <5>1 DEF MacInv, TookOnce, Increasing
        <5> QED
          BY <3>1, <5>1, <5>2
      <4> QED
        BY <4>1, <4>2
    <3> QED
      BY <3>3, <3>4 DEF TookOnce, Increasing
  <2>12. ShownLast'
    <3>1. shown # <<>> => lastIn + 1 \in 1..Len(said)
      BY DEF MacInv, Typed, Honest, ShownLast
    <3>2. shown # <<>> => said'[lastIn + 1].is \in Shows
      BY <2>6, <3>1 DEF MacInv, ShownLast
    <3> QED
      BY <1>2, <3>2 DEF MacInv, ShownLast, ShownOnce, Increasing, window, session, console
  <2>13. Verdict'
    <3>1. ASSUME login # "accepted", NEW i \in 1..Len(said')
          PROVE  said'[i].is \in Handshake \cup {"failed"}
      <4>1. typed = <<>>
        BY <3>1 DEF MacInv, Verdict
      <4>2. CASE i \in 1..Len(said)
        BY <2>6, <3>1, <4>2 DEF MacInv, Verdict
      <4>3. CASE i \notin 1..Len(said)
        BY <2>2, <2>7, <3>1, <4>1, <4>3
      <4> QED
        BY <4>2, <4>3
    <3> QED
      BY <1>2, <3>1 DEF MacInv, Verdict, session, console
  <2> QED
    BY <2>8, <2>9, <2>10, <2>11, <2>12, <2>13 DEF MacInv
<1> QED
  BY <1>1, <1>3, <1>4 DEF MacInv, Typed

-----------------------------------------------------------------------------
LEMMA MacStarts == MacInit => MacInv
<1> SUFFICES ASSUME MacInit PROVE MacInv
  OBVIOUS
<1>1. Typed
  BY DEF MacInit, Typed, States, Nothing
<1>2. Honest /\ Drawn
  BY DEF MacInit, Honest, Drawn, Nothing
<1>3. TookOnce /\ ShownLast /\ Verdict
  BY DEF MacInit, TookOnce, ShownLast, ShownOnce, Increasing, Verdict
<1> QED
  BY <1>1, <1>2, <1>3 DEF MacInv

LEMMA MacStutters ==
  ASSUME MacInv, UNCHANGED macVars
  PROVE  MacInv'
<1>1. Typed' /\ Honest'
  BY DEF MacInv, Typed, Honest, window, macVars, session, console, device
<1>2. Drawn' /\ TookOnce' /\ ShownLast' /\ Verdict'
  BY NothingHeard DEF macVars, session, console, device
<1> QED
  BY <1>1, <1>2 DEF MacInv

(* Every reachable state satisfies MacInv, whatever the network does.      *)
THEOREM MacInvariant == MacSpec => []MacInv
<1>1. MacInit => MacInv
  BY MacStarts
<1>2. ASSUME MacInv, [MacNext]_macVars
      PROVE  MacInv'
  <2>1. CASE UNCHANGED macVars
    BY <1>2, <2>1, MacStutters
  <2>2. CASE MacNext
    <3>1. state # "closed"
      BY <2>2 DEF MacNext
    <3>2. CASE StartSession
      BY <1>2, <3>2, StartKeeps
    <3>3. CASE Deliver
      <4>1. CASE \E m \in toUs : OnAck(m) \/ OnData(m) \/ OnEnd(m)
        BY <1>2, <3>1, <4>1, OnAckKeeps, OnDataKeeps, EndKeeps
      <4>2. CASE \E m \in toDev : DevStart(m) \/ DevData(m) \/ DevAck(m)
        BY <1>2, <4>2, DevStartKeeps, DevDataKeeps, DevAckKeeps
      <4> QED
        BY <3>3, <4>1, <4>2 DEF Deliver
    <3>4. CASE Lose \/ Tick \/ Keepalive
      BY <1>2, <3>4, LoseKeeps, TickKeeps, KeepaliveKeeps
    <3>5. CASE Settle \/ Attach \/ Type \/ OpenTimesOut \/ RunTimesOut \/ CallerCloses
      BY <1>2, <3>5, SettleKeeps, AttachKeeps, TypeKeeps, OpenTimesOutKeeps, CallerClosesKeeps, RunTimesOutKeeps
    <3>6. CASE DevSends
      BY <1>2, <3>6, DevSendKeeps DEF DevSends
    <3>7. CASE DevEnds
      BY <1>2, <3>7, DevEndsKeeps
    <3> QED
      BY <2>2, <3>2, <3>3, <3>4, <3>5, <3>6, <3>7 DEF MacNext
  <2> QED
    BY <1>2, <2>1, <2>2
<1> QED
  BY <1>1, <1>2, PTL DEF MacSpec

(* A frame that is sent again, doubled or overtaken is acted on at most once,
   and never after one that was sent later (tick, sendData).               *)
THEOREM MacExecutesOnce == MacSpec => []ExecutedOnce
<1>1. MacInv => ExecutedOnce
  BY DEF MacInv, TookOnce, ExecutedOnce
<1> QED
  BY <1>1, MacInvariant, PTL

(* acceptCounter shows a frame of output once and in order, and without a gap
   when the device awaits its acknowledgements.                            *)
THEOREM MacShowsOnce == MacSpec => []ShownOnce
<1>1. MacInv => ShownOnce
  BY DEF MacInv, ShownLast
<1> QED
  BY <1>1, MacInvariant, PTL

(* handleTerminalData: "ready" means that the device accepted the login.   *)
THEOREM MacLoginVerdict == MacSpec => []LoginVerdict
<1>1. MacInv => LoginVerdict
  BY DEF MacInv, Verdict, LoginVerdict
<1> QED
  BY <1>1, MacInvariant, PTL

-----------------------------------------------------------------------------
(* The frames the device answers, and the one whose turn it is: the last
   command, or the credentials before any.                                 *)
Own == {0, 1} \cup {typed[i] : i \in 1..Len(typed)}

Turn == IF typed = <<>> THEN 1 ELSE typed[Len(typed)]

TookIn(s, f) == \E i \in 1..Len(s) : s[i] = f

Took(f) == TookIn(took, f)

(* The variables Typed says nothing of.                                    *)
Sorts ==
  /\ maxOutAck \in Nat \cup {-1} /\ pending.attempts <= Tries
  /\ buffer \in Seq(Nat) /\ waiting \in BOOLEAN /\ relaying \in BOOLEAN
  /\ results \in Seq(Seq(Nat))
  /\ error \in {"none", "auth", "refused", "closed", "timeout"}
  /\ cutShort \in BOOLEAN /\ faults \in 0..setup.faults

(* The counters bound each other: sent, taken by the device, acknowledged. *)
Counted ==
  /\ \A m \in toDev : m.type = "data" => m.counter < outCounter
  /\ \A m \in toUs : m.type = "ack" => m.counter \in Nat /\ m.counter <= dIn
  /\ maxOutAck <= dIn /\ dIn <= outCounter
  /\ pending.target <= outCounter
  /\ pending # Nothing => pending.target > maxOutAck

(* How far the session is says what has been sent, shown and typed.        *)
Probed == \E i \in 1..Len(shown) : said[shown[i] + 1].is = "probe"

Staged ==
  /\ state = "init" =>
       /\ toDev = {} /\ toUs = {} /\ dev = "idle"
       /\ maxOutAck = -1 /\ pending = Nothing
  /\ state = "init" \/ state = "session-start-sent" => outCounter = 0
  /\ state = "auth-begin-sent" => outCounter = 1
  /\ state = "auth-sent" \/ state = "auth-complete" => outCounter = 2
  /\ state = "ready" => outCounter >= 2
  /\ outCounter <= 2 + Len(typed) + (IF Probed THEN Answers ELSE 0)
  /\ Len(typed) <= setup.inputs

Waits ==
  /\ state # "ready" /\ state # "closed" =>
       /\ typed = <<>> /\ results = <<>> /\ buffer = <<>> /\ ~relaying
       /\ waiting <=> state # "init"
  /\ state = "closed" => pending = Nothing /\ ~waiting
  /\ relaying => setup.relay /\ ~waiting

(* What the device says answers a frame of ours that it acted upon.        *)
Spoken ==
  /\ \A i \in 1..Len(said) :
       /\ said[i].of \in Own /\ Took(said[i].of)
       /\ said[i].is \in Shows => said[i].of # 0
       /\ said[i].is = "salt" => said[i].of = 0
  /\ \A i, j \in 1..Len(said) : said[i].is = "probe" /\ said[j].is = "probe" => i = j
  /\ dIn = 0 \/ Took(dIn - 1)
  /\ \A i \in 1..Len(typed) : typed[i] > 1 /\ typed[i] < outCounter

(* One command at a time: whatever was sent before it was acted upon, and what
   is shown or still to come answers it.                                   *)
InTurn ==
  /\ Turn < outCounter => \A f \in Own : f # Turn => Took(f)
  /\ Turn < outCounter => Took(Turn) \/ outCounter = Turn + 1
  /\ state = "ready" /\ ~waiting => Len(said) = lastIn + 1 /\ Took(Turn)
  /\ \A i \in 1..Len(said) : lastIn + 1 < i /\ said[i].is \in Shows => said[i].of = Turn
  /\ \A i \in 1..Len(buffer) : said[buffer[i] + 1].of = Turn

(* The buffer ends with what was shown last; a relay keeps none.           *)
Buffered ==
  /\ buffer # <<>> => shown # <<>> /\ buffer[Len(buffer)] = shown[Len(shown)]
  /\ relaying => buffer = <<>>

(* A result for every command, and one for what open saw.                  *)
Answered ==
  /\ \A i \in 1..Len(buffer) : buffer[i] < Len(said)
  /\ \A r \in 1..Len(results) : \A i \in 1..Len(results[r]) : results[r][i] < Len(said)
  /\ OwnAnswer
  /\ Len(results) <= Len(typed) + 1
  /\ ~relaying /\ state # "closed" =>
       Len(results) = IF state = "ready" /\ ~waiting THEN Len(typed) + 1 ELSE Len(typed)

(* Once a wait was cut short the output of its command may still come.     *)
TurnInv ==
  /\ Sorts /\ Counted /\ Staged /\ Waits /\ Spoken /\ Buffered /\ Answered
  /\ ~relaying /\ ~cutShort => InTurn

-----------------------------------------------------------------------------
(* The steps, in kinds.                                                    *)
Hears == \E m \in toUs : OnData(m)

Takes == \E m \in toDev : DevData(m)

Idles ==
  \/ StartSession \/ Lose \/ Tick \/ Keepalive \/ DevSends \/ DevEnds
  \/ OpenTimesOut \/ CallerCloses
  \/ (\E m \in toUs : OnAck(m) \/ OnEnd(m))
  \/ (\E m \in toDev : DevStart(m) \/ DevAck(m))
  \/ UNCHANGED macVars

Steps ==
  /\ state # "closed"
  /\ Idles \/ Hears \/ Takes \/ Settle \/ RunTimesOut \/ Attach \/ Type

LEMMA StepKinds ==
  ASSUME [MacNext]_macVars
  PROVE  UNCHANGED macVars \/ Steps
BY DEF MacNext, Deliver, Steps, Idles, Hears, Takes

(* Of the steps that are left, none changes what was said, typed or shown. *)
LEMMA IdleFacts ==
  ASSUME Idles
  PROVE  /\ UNCHANGED <<setup, lastIn, buffer, relaying, results, cutShort, typed, shown,
                        login, dIn, took, said>>
         /\ \/ UNCHANGED <<state, waiting, outCounter, pending, error, maxOutAck>>
            \/ StartSession
            \/ \E m \in toUs : OnAck(m)
            \/ Tick
            \/ /\ state' = "closed" /\ waiting' = FALSE /\ pending' = Nothing
               /\ UNCHANGED <<outCounter, maxOutAck>>
               /\ error' \in {"none", "auth", "closed", "timeout"}
BY DEF Idles, StartSession, Lose, Tick, Keepalive, OpenTimesOut, CallerCloses, Close, DevSends, DevSend, DevEnds,
  OnAck, OnEnd, DevStart, DevAck, macVars, session, console, device

LEMMA SetupFacts ==
  ASSUME Typed
  PROVE  /\ setup.inputs \in Nat /\ setup.faults \in Nat /\ setup.relay \in BOOLEAN
         /\ Tries \in Nat
BY MacTelnetConstants DEF Typed

LEMMA TypesFacts ==
  ASSUME MacInv
  PROVE  /\ Typed
         /\ lastIn \in Int /\ outCounter \in Nat /\ dIn \in Nat /\ dAcked \in Nat
         /\ said \in Seq(Line) /\ Len(said) \in Nat
         /\ typed \in Seq(Nat) /\ Len(typed) \in Nat
         /\ shown \in Seq(Nat) /\ Len(shown) \in Nat
<1>1. Typed
  BY DEF MacInv
<1>2. lastIn \in Int /\ outCounter \in Nat /\ dIn \in Nat /\ dAcked \in Nat
  BY <1>1 DEF Typed
<1>3. said \in Seq(Line) /\ typed \in Seq(Nat) /\ shown \in Seq(Nat)
  BY <1>1 DEF Typed
<1>4. Len(said) \in Nat /\ Len(typed) \in Nat /\ Len(shown) \in Nat
  BY <1>3
<1> QED
  BY <1>1, <1>2, <1>3, <1>4

LEMMA SortsStep ==
  ASSUME MacInv, MacInv', Sorts, Counted, Steps
  PROVE  Sorts'
<1>0. Typed /\ Typed' /\ setup' = setup
  BY DEF MacInv, Steps, Idles, Hears, Takes, Settle, RunTimesOut, Attach, Type, StartSession, Lose, Tick, Keepalive,
    OpenTimesOut, CallerCloses, DevSends, DevSend, DevEnds, OnAck, OnEnd, DevStart, DevAck, OnData, DevData, macVars
<1>1. maxOutAck' \in Nat \cup {-1}
  <2>1. CASE maxOutAck' = maxOutAck
    BY <2>1 DEF Sorts
  <2>2. CASE \E m \in toUs : OnAck(m)
    BY <2>2 DEF Sorts, Counted, OnAck, Larger
  <2>3. CASE maxOutAck' # maxOutAck /\ ~(\E m \in toUs : OnAck(m))
    BY <2>3 DEF Steps, Idles, Hears, Takes, Settle, RunTimesOut, Attach, Type, StartSession, Lose, Tick, Keepalive,
      OpenTimesOut, CallerCloses, DevSends, DevSend, DevEnds, OnEnd, DevStart, DevAck, OnData, DevData, macVars, session
  <2> QED
    BY <2>1, <2>2, <2>3
<1>2. pending'.attempts <= Tries
  <2>1. pending' = pending \/ pending'.attempts = 0 \/ (Tick /\ pending'.attempts = pending.attempts + 1)
    <3>1. CASE Idles
      <4>1. ASSUME Tick
            PROVE  pending'.attempts = pending.attempts + 1
        BY <1>0, <4>1 DEF Tick, Typed
      <4>2. ASSUME NEW m \in toUs, OnAck(m)
            PROVE  pending' = pending \/ pending'.attempts = 0
        BY <4>2 DEF OnAck, SendData, Nothing
      <4>3. ASSUME StartSession \/ pending' = Nothing
            PROVE  pending'.attempts = 0
        BY <4>3 DEF StartSession, Nothing
      <4>4. ASSUME UNCHANGED <<state, waiting, outCounter, pending, error, maxOutAck>>
            PROVE  pending' = pending
        BY <4>4
      <4> QED
        BY <3>1, <4>1, <4>2, <4>3, <4>4, IdleFacts
    <3>2. CASE Hears \/ Type
      BY <3>2 DEF Hears, Type, OnData, SendData, Show, Close, Nothing
    <3>3. CASE Takes \/ Settle \/ RunTimesOut \/ Attach
      BY <3>3 DEF Takes, Settle, RunTimesOut, Attach, DevData, session
    <3> QED
      BY <3>1, <3>2, <3>3 DEF Steps
  <2>2. pending.attempts \in Nat /\ Tries \in Nat
    BY <1>0, SetupFacts DEF Typed
  <2> QED
    BY <2>1, <2>2 DEF Sorts, Tick
<1>3. buffer' \in Seq(Nat)
  <2>1. ASSUME NEW m \in toUs, OnData(m)
        PROVE  buffer' \in Seq(Nat)
    <3>1. m.counter \in Nat /\ buffer \in Seq(Nat)
      BY <2>1 DEF MacInv, Honest, OnData, Sorts
    <3>2. Append(buffer, m.counter) \in Seq(Nat)
      BY <3>1
    <3>3. buffer' = buffer \/ buffer' = Append(buffer, m.counter)
      BY <2>1 DEF OnData, Show
    <3> QED
      BY <3>1, <3>2, <3>3
  <2>2. CASE ~Hears
    <3>1. buffer' = buffer \/ buffer' = <<>>
      BY <2>2, IdleFacts DEF Steps, Takes, Settle, RunTimesOut, Attach, Type, DevData, console
    <3>2. <<>> \in Seq(Nat)
      OBVIOUS
    <3> QED
      BY <3>1, <3>2 DEF Sorts
  <2> QED
    BY <2>1, <2>2 DEF Hears
<1>4. waiting' \in BOOLEAN /\ relaying' \in BOOLEAN
  BY DEF Sorts, Steps, Idles, Hears, Takes, Settle, RunTimesOut, Attach, Type, StartSession, Lose, Tick, Keepalive,
    OpenTimesOut, CallerCloses, DevSends, DevSend, DevEnds, OnAck, OnEnd, DevStart, DevAck, OnData, DevData, macVars,
    console, Close
<1>5. results' \in Seq(Seq(Nat))
  <2>1. \/ results' = results \/ results' = Append(results, buffer)
        \/ results' = Append(results, <<>>)
    BY IdleFacts DEF Steps, Hears, Takes, Settle, RunTimesOut, Attach, Type, DevData, OnData, console
  <2>2. results \in Seq(Seq(Nat)) /\ buffer \in Seq(Nat)
    BY DEF Sorts
  <2>3. /\ Append(results, buffer) \in Seq(Seq(Nat))
        /\ Append(results, <<>>) \in Seq(Seq(Nat))
    <3>1. <<>> \in Seq(Nat)
      OBVIOUS
    <3> QED
      BY <2>2, <3>1
  <2> QED
    BY <2>1, <2>2, <2>3
<1>6. error' \in {"none", "auth", "refused", "closed", "timeout"}
  <2>1. error' = error \/ error' = "none" \/ error' = "auth" \/ error' = "refused"
        \/ error' = "closed" \/ error' = "timeout"
    BY DEF Steps, Idles, Hears, Takes, Settle, RunTimesOut, Attach, Type, StartSession, Lose, Tick, Keepalive,
      OpenTimesOut, CallerCloses, DevSends, DevSend, DevEnds, OnAck, OnEnd, DevStart, DevAck, OnData, DevData, macVars,
      console, Close
  <2> QED
    BY <2>1 DEF Sorts
<1>7. faults' \in 0..setup.faults
  <2>1. faults' = faults \/ (faults < setup.faults /\ faults' = faults + 1)
    BY DEF Steps, Idles, Hears, Takes, Settle, RunTimesOut, Attach, Type, StartSession, Lose, Tick, Keepalive,
      OpenTimesOut, CallerCloses, DevSends, DevSend, DevEnds, OnAck, OnEnd, DevStart, DevAck, OnData, DevData, macVars,
      Receive
  <2>2. setup.faults \in Nat
    BY <1>0, SetupFacts
  <2> QED
    BY <2>1, <2>2 DEF Sorts
<1>8. cutShort' \in BOOLEAN
  <2>1. \/ cutShort' = cutShort \/ cutShort' = TRUE
        \/ cutShort' = (cutShort \/ GoesOn)
    BY IdleFacts DEF Steps, Hears, Takes, Settle, RunTimesOut, Attach, Type, DevData, OnData, console
  <2> QED
    BY <2>1, Zenon DEF Sorts
<1> QED
  BY <1>0, <1>1, <1>2, <1>3, <1>4, <1>5, <1>6, <1>7, <1>8 DEF Sorts

-----------------------------------------------------------------------------
(* What is sent is numbered next, and nothing is acknowledged before it is
   taken.                                                                  *)
LEMMA FrameNumbers ==
  ASSUME outCounter \in Nat, NEW n \in Nat, SendData(n)
  PROVE  /\ outCounter' = outCounter + n
         /\ \A m \in Frames(n) : m.type = "data" /\ m.counter < outCounter'
         /\ n = 0 => pending' = pending
         /\ n # 0 => pending'.target = outCounter + n
BY DEF SendData, Frames, Data

LEMMA CountedSends ==
  ASSUME Typed, Honest, Sorts, Counted, NEW n \in Nat, SendData(n),
         UNCHANGED <<dIn, maxOutAck>>, toUs' \subseteq toUs,
         \A m \in toDev' : m \in toDev \/ m \in Frames(n) \/ m.type # "data"
  PROVE  Counted'
<1>1. outCounter \in Nat /\ dIn \in Nat /\ maxOutAck \in Int
  BY DEF Typed, Sorts
<1>2. /\ outCounter' = outCounter + n
      /\ \A m \in Frames(n) : m.type = "data" /\ m.counter < outCounter'
      /\ n = 0 => pending' = pending
      /\ n # 0 => pending'.target = outCounter + n
  BY <1>1, FrameNumbers
<1>3. \A m \in toDev : m.type = "data" => m.counter < outCounter'
  BY <1>1, <1>2 DEF Counted, Honest
<1>4. \A m \in toDev' : m.type = "data" => m.counter < outCounter'
  BY <1>2, <1>3
<1>5. maxOutAck <= outCounter /\ dIn <= outCounter'
  BY <1>1, <1>2 DEF Counted
<1>6. pending'.target <= outCounter' /\ (pending' # Nothing => pending'.target > maxOutAck)
  <2>1. CASE n = 0
    BY <1>1, <1>2, <2>1 DEF Counted
  <2>2. CASE n # 0
    BY <1>1, <1>2, <1>5, <2>2
  <2> QED
    BY <2>1, <2>2
<1> QED
  BY <1>4, <1>5, <1>6 DEF Counted

LEMMA CountedKept ==
  ASSUME Typed, Counted, UNCHANGED <<dIn, maxOutAck, outCounter>>,
         pending' = pending \/ pending' = Nothing,
         \A m \in toUs' : m \in toUs \/ m.type # "ack" \/ m = Ack(0),
         \A m \in toDev' : m \in toDev \/ m.type # "data"
  PROVE  Counted'
BY DEF Counted, Typed, Ack, Nothing

LEMMA AcksNoData ==
  ASSUME NEW net, NEW c, NEW s, NEW m \in WithAck(net, c, s)
  PROVE  m \in net \/ (m = Ack(c) /\ m.type # "data")
BY DEF WithAck, Ack

LEMMA CountedHears ==
  ASSUME MacInv, Sorts, Counted, NEW m \in toUs, OnData(m)
  PROVE  Counted'
<1> DEFINE k == m.counter
           acked == WithAck(toDev, k + 1, dAcked)
<1>1. UNCHANGED <<dIn, maxOutAck>> /\ toUs' \subseteq toUs /\ Typed /\ Honest
  BY DEF OnData, Receive, device, MacInv
<1>2. Asked(k) \in Nat
  BY DEF Asked, Answers
<1>3. \/ SendData(1) /\ toDev' = acked \cup Frames(1)
      \/ SendData(Asked(k)) /\ toDev' = acked \cup Frames(Asked(k))
      \/ /\ pending' = Nothing \/ pending' = pending
         /\ outCounter' = outCounter /\ toDev' = acked
  BY DEF OnData, Show, Close
<1>4. \A d \in acked : d \in toDev \/ d.type # "data"
  BY AcksNoData
<1>5. CASE SendData(1) /\ toDev' = acked \cup Frames(1)
  BY <1>1, <1>4, <1>5, CountedSends
<1>6. CASE SendData(Asked(k)) /\ toDev' = acked \cup Frames(Asked(k))
  BY <1>1, <1>2, <1>4, <1>6, CountedSends
<1>7. CASE /\ pending' = Nothing \/ pending' = pending
           /\ outCounter' = outCounter /\ toDev' = acked
  BY <1>1, <1>4, <1>7, CountedKept
<1> QED
  BY <1>3, <1>5, <1>6, <1>7

LEMMA CountedTakes ==
  ASSUME MacInv, Sorts, Counted, NEW m \in toDev, DevData(m)
  PROVE  Counted'
<1>1. /\ m.counter \in Nat /\ m.counter < outCounter /\ dIn \in Nat /\ outCounter \in Nat
      /\ dIn <= outCounter
  BY DEF MacInv, Typed, Honest, Counted, DevData
<1>2. dIn' = (IF m.counter >= dIn THEN m.counter + 1 ELSE dIn)
  BY DEF DevData
<1>3. dIn' \in Nat /\ dIn <= dIn' /\ m.counter + 1 <= dIn' /\ dIn' <= outCounter
  BY <1>1, <1>2
<1>4. UNCHANGED <<outCounter, pending, maxOutAck>> /\ toDev' \subseteq toDev
      /\ toUs' = WithAck(toUs, m.counter + 1, maxOutAck)
  BY DEF DevData, Receive, session
<1>5. \A d \in toUs' : d.type = "ack" => d.counter \in Nat /\ d.counter <= dIn'
  <2> SUFFICES ASSUME NEW d \in toUs', d.type = "ack"
      PROVE  d.counter \in Nat /\ d.counter <= dIn'
    OBVIOUS
  <2>1. CASE d \in toUs
    BY <1>1, <1>3, <2>1 DEF Counted
  <2>2. CASE d = Ack(m.counter + 1)
    BY <1>1, <1>3, <2>2 DEF Ack
  <2> QED
    BY <1>4, <2>1, <2>2, AcksNoData
<1>6. maxOutAck <= dIn'
  <2>1. \A a, b, c \in Int : a <= b /\ b <= c => a <= c
    OBVIOUS
  <2>2. maxOutAck \in Int /\ maxOutAck <= dIn
    BY DEF Counted, Sorts
  <2> QED
    BY <1>1, <1>3, <2>1, <2>2
<1> QED
  BY <1>3, <1>4, <1>5, <1>6 DEF Counted

LEMMA CountedIdles ==
  ASSUME MacInv, Sorts, Counted, Staged, Idles
  PROVE  Counted'
<1>0. outCounter \in Nat /\ dIn \in Nat /\ maxOutAck \in Nat \cup {-1} /\ Typed
  BY DEF MacInv, Typed, Sorts
<1>1. CASE StartSession
  <2>1. outCounter = 0 /\ maxOutAck = -1
    BY <1>1 DEF StartSession, Staged
  <2>2. /\ toDev' = toDev \cup {Start} /\ UNCHANGED <<toUs, outCounter, dIn, maxOutAck>>
        /\ pending'.target = 0 /\ Start.type = "start"
    BY <1>1 DEF StartSession, Start, device
  <2> QED
    BY <1>0, <2>1, <2>2 DEF Counted
<1>2. ASSUME NEW m \in toUs, OnAck(m)
      PROVE  Counted'
  <2>1. /\ m.counter \in Nat /\ m.counter <= dIn
        /\ maxOutAck' = (IF maxOutAck >= m.counter THEN maxOutAck ELSE m.counter)
        /\ toUs' \subseteq toUs /\ dIn' = dIn
    BY <1>2 DEF OnAck, Counted, Larger, Unseen, device
  <2>2. maxOutAck' \in Int /\ maxOutAck' <= dIn /\ maxOutAck' <= outCounter
    BY <1>0, <2>1 DEF Counted
  <2>3. CASE SendData(1) /\ toDev' = toDev \cup Frames(1)
    <3>1. /\ outCounter' = outCounter + 1 /\ pending'.target = outCounter + 1
          /\ \A d \in Frames(1) : d.type = "data" /\ d.counter < outCounter'
      BY <1>0, <2>3, FrameNumbers
    <3>2. \A d \in toDev : d.type = "data" => d.counter < outCounter'
      BY <1>0, <3>1 DEF Counted, MacInv, Honest
    <3> QED
      BY <1>0, <2>1, <2>2, <2>3, <3>1, <3>2 DEF Counted
  <2>4. CASE /\ pending' = IF maxOutAck' >= pending.target THEN Nothing ELSE pending
             /\ UNCHANGED <<outCounter, toDev>>
    <3>1. pending.target \in Int
      BY <1>0 DEF Typed
    <3> QED
      BY <1>0, <2>1, <2>2, <2>4, <3>1 DEF Counted, Nothing
  <2> QED
    BY <1>2, <2>3, <2>4 DEF OnAck
<1>3. CASE Tick
  <2>1. /\ pending # Nothing /\ pending' = [pending EXCEPT !.attempts = @ + 1]
        /\ toDev' = toDev \cup {PendingFrame} /\ UNCHANGED <<toUs, outCounter, dIn, maxOutAck>>
    BY <1>3 DEF Tick, device
  <2>2. pending'.target = pending.target /\ pending.target \in Int
    BY <1>0, <2>1 DEF Typed
  <2>3. PendingFrame.type = "data" => PendingFrame.counter < outCounter
    <3>1. PendingFrame = (IF pending.target = 0 THEN Start ELSE Data(pending.target - 1, pending.what))
      BY DEF PendingFrame
    <3> QED
      BY <1>0, <2>2, <3>1 DEF Start, Data, Counted
  <2> QED
    BY <2>1, <2>2, <2>3 DEF Counted
<1>4. CASE ~StartSession /\ ~Tick /\ ~(\E m \in toUs : OnAck(m))
  <2>1. UNCHANGED <<dIn, maxOutAck, outCounter>> /\ (pending' = pending \/ pending' = Nothing)
    BY <1>4, IdleFacts
  <2>2. \A m \in toDev' : m \in toDev \/ m.type # "data"
    <3>1. CASE Keepalive
      BY <3>1, AcksNoData DEF Keepalive
    <3>2. CASE ~Keepalive
      <4>1. toDev' \subseteq toDev
        BY <1>4, <3>2 DEF Idles, Lose, OpenTimesOut, CallerCloses, DevSends, DevSend, DevEnds, OnEnd, DevStart, DevAck,
          macVars, Receive, Unseen
      <4> QED
        BY <4>1
    <3> QED
      BY <3>1, <3>2
  <2>3. \A m \in toUs' : m \in toUs \/ m.type # "ack" \/ m = Ack(0)
    <3>1. ASSUME NEW d \in toDev, DevStart(d)
          PROVE  \A m \in toUs' : m \in toUs \/ m = Ack(0)
      BY <3>1, AcksNoData DEF DevStart
    <3>2. CASE DevSends \/ DevEnds
      <4>1. ASSUME NEW k \in 0..Len(said) - 1, DevSend(k)
            PROVE  toUs' = toUs \cup {Data(k, k)}
        BY <4>1 DEF DevSend
      <4>2. DevEnds => toUs' = toUs \cup {End}
        BY DEF DevEnds
      <4>3. End.type # "ack" /\ \A k : Data(k, k).type # "ack"
        BY DEF End, Data
      <4> QED
        BY <3>2, <4>1, <4>2, <4>3 DEF DevSends
    <3>3. CASE ~(DevSends \/ DevEnds \/ \E d \in toDev : DevStart(d))
      <4>1. toUs' \subseteq toUs
        BY <1>4, <3>3 DEF Idles, Lose, Keepalive, OpenTimesOut, CallerCloses, OnEnd, DevAck, macVars, Receive
      <4> QED
        BY <4>1
    <3> QED
      BY <3>1, <3>2, <3>3
  <2> QED
    BY <1>0, <2>1, <2>2, <2>3, CountedKept
<1> QED
  BY <1>1, <1>2, <1>3, <1>4

LEMMA CountedStep ==
  ASSUME MacInv, Sorts, Counted, Staged, Steps
  PROVE  Counted'
<1>1. CASE Idles
  BY <1>1, CountedIdles
<1>2. CASE Hears \/ Takes
  BY <1>2, CountedHears, CountedTakes DEF Hears, Takes
<1>3. CASE Type
  <2>1. /\ SendData(1) /\ UNCHANGED <<dIn, maxOutAck, toUs>> /\ toDev' = toDev \cup Frames(1)
    BY <1>3 DEF Type, device
  <2> QED
    BY <2>1, CountedSends DEF MacInv
<1>4. CASE Settle \/ RunTimesOut \/ Attach
  BY <1>4, CountedKept DEF Settle, RunTimesOut, Attach, session, device, MacInv
<1> QED
  BY <1>1, <1>2, <1>3, <1>4 DEF Steps

-----------------------------------------------------------------------------
(* What the device says to a frame of ours, said of the lines.             *)
Lines(c, what) ==
  /\ Replies(c) = Saying(c, what)
  /\ what \in Seq(Shows \cup Handshake)
  /\ \A n \in 1..Len(what) : what[n] = "salt" => c = 0
  /\ \A n, k \in 1..Len(what) : what[n] = "probe" /\ what[k] = "probe" => n = k
  /\ \A n \in 1..Len(what) : what[n] = "probe" => c = 1
  /\ what = <<>> \/ c \in Own

LEMMA Joined ==
  ASSUME NEW S, NEW s \in Seq(S), NEW t \in Seq(S)
  PROVE  /\ s \o t \in Seq(S) /\ Len(s) \in Nat /\ Len(t) \in Nat
         /\ Len(s \o t) = Len(s) + Len(t)
         /\ \A i \in 1..Len(s) : (s \o t)[i] = s[i]
         /\ \A i \in 1..Len(s \o t) : i \notin 1..Len(s) =>
              i - Len(s) \in 1..Len(t) /\ (s \o t)[i] = t[i - Len(s)]
<1>1. Len(s) \in Nat /\ Len(t) \in Nat
  OBVIOUS
<1>2. s \o t \in Seq(S) /\ Len(s \o t) = Len(s) + Len(t)
  OBVIOUS
<1>3. \A i \in 1..Len(s) : (s \o t)[i] = s[i]
  BY <1>1
<1>4. ASSUME NEW i \in 1..Len(s \o t), i \notin 1..Len(s)
      PROVE  i - Len(s) \in 1..Len(t) /\ (s \o t)[i] = t[i - Len(s)]
  <2>1. i \in Len(s) + 1..Len(s) + Len(t)
    BY <1>1, <1>2, <1>4
  <2> QED
    BY <1>1, <2>1
<1> QED
  BY <1>1, <1>2, <1>3, <1>4

LEMMA BannerLines ==
  /\ Banner \in Seq(Shows \cup Handshake) /\ Len(Banner) \in Nat
  /\ \A n \in 1..Len(Banner) : Banner[n] # "salt" /\ (Banner[n] = "probe" => n = 1)
<1> DEFINE asks == IF setup.probe THEN <<"probe">> ELSE <<>>
           greets == IF setup.license THEN <<"license">> ELSE <<"prompt", "prompt">>
           Word == Shows \cup Handshake
<1>1. asks \in Seq(Word) /\ (Len(asks) = 0 \/ (Len(asks) = 1 /\ asks[1] = "probe"))
  <2>1. <<>> \in Seq(Word) /\ <<"probe">> \in Seq(Word)
    BY DEF Shows, Handshake
  <2>2. Len(<<>>) = 0 /\ Len(<<"probe">>) = 1 /\ <<"probe">>[1] = "probe"
    OBVIOUS
  <2>3. asks = <<>> \/ asks = <<"probe">>
    OBVIOUS
  <2> HIDE DEF asks, Word
  <2>4. CASE asks = <<>>
    BY <2>1, <2>2, <2>4
  <2>5. CASE asks = <<"probe">>
    BY <2>1, <2>2, <2>5
  <2> QED
    BY <2>3, <2>4, <2>5
<1>2. greets \in Seq(Word) /\ \A n \in 1..Len(greets) : greets[n] = "license" \/ greets[n] = "prompt"
  <2>1. <<"license">> \in Seq(Word) /\ <<"prompt", "prompt">> \in Seq(Word)
    BY DEF Shows, Handshake
  <2>2. /\ Len(<<"license">>) = 1 /\ <<"license">>[1] = "license"
        /\ Len(<<"prompt", "prompt">>) = 2 /\ <<"prompt", "prompt">>[1] = "prompt"
        /\ <<"prompt", "prompt">>[2] = "prompt"
    OBVIOUS
  <2>3. greets = <<"license">> \/ greets = <<"prompt", "prompt">>
    OBVIOUS
  <2> HIDE DEF greets, Word
  <2>4. CASE greets = <<"license">>
    BY <2>1, <2>2, <2>4
  <2>5. CASE greets = <<"prompt", "prompt">>
    <3>1. \A n \in 1..2 : n = 1 \/ n = 2
      OBVIOUS
    <3> QED
      BY <2>1, <2>2, <2>5, <3>1
  <2> QED
    BY <2>3, <2>4, <2>5
<1>3. Banner = asks \o greets
  BY DEF Banner
<1> HIDE DEF asks, greets, Word
<1>4. /\ Banner \in Seq(Word) /\ Len(asks) \in Nat /\ Len(greets) \in Nat
      /\ Len(Banner) = Len(asks) + Len(greets)
      /\ \A i \in 1..Len(asks) : Banner[i] = asks[i]
      /\ \A i \in 1..Len(Banner) : i \notin 1..Len(asks) =>
           i - Len(asks) \in 1..Len(greets) /\ Banner[i] = greets[i - Len(asks)]
  BY <1>1, <1>2, <1>3, Joined
<1>5. ASSUME NEW n \in 1..Len(Banner)
      PROVE  Banner[n] # "salt" /\ (Banner[n] = "probe" => n = 1)
  <2>1. CASE n \in 1..Len(asks)
    <3>1. n = 1 /\ asks[1] = "probe"
      <4>1. \A l \in Nat : (l = 0 \/ l = 1) /\ n \in 1..l => l = 1 /\ n = 1
        OBVIOUS
      <4> QED
        BY <1>1, <1>4, <2>1, <4>1
    <3> QED
      BY <1>4, <2>1, <3>1
  <2>2. CASE n \notin 1..Len(asks)
    BY <1>2, <1>4, <1>5, <2>2
  <2> QED
    BY <2>1, <2>2
<1> QED
  BY <1>4, <1>5 DEF Word

LEMMA RepliesLines ==
  ASSUME NEW c \in Nat,
         login \in {"accepted", "refused", "error", "unsupported"}
  PROVE  \E what : Lines(c, what)
<1>1. CASE c = 0 /\ login = "unsupported"
  <2>1. Lines(c, <<"oddSalt">>)
    BY <1>1 DEF Replies, Lines, Shows, Handshake, Own
  <2> QED
    BY <2>1
<1>2. CASE c = 0 /\ login # "unsupported"
  <2>1. Lines(c, <<"salt">>)
    BY <1>2 DEF Replies, Lines, Shows, Handshake, Own
  <2> QED
    BY <2>1
<1>3. CASE c = 1 /\ login = "accepted"
  <2>1. Replies(c) = Saying(c, <<"endAuth">> \o Banner)
    BY <1>3 DEF Replies
  <2> DEFINE what == <<"endAuth">> \o Banner
             Word == Shows \cup Handshake
  <2>2. <<"endAuth">> \in Seq(Word) /\ Len(<<"endAuth">>) = 1 /\ <<"endAuth">>[1] = "endAuth"
    BY DEF Handshake
  <2>3. Banner \in Seq(Word)
    BY BannerLines
  <2>4. /\ what \in Seq(Word) /\ Len(what) \in Nat
        /\ \A n \in 1..Len(what) : n = 1 => what[n] = "endAuth"
        /\ \A n \in 1..Len(what) : n # 1 => n - 1 \in 1..Len(Banner) /\ what[n] = Banner[n - 1]
    <3>1. /\ what \in Seq(Word) /\ Len(what) = 1 + Len(Banner) /\ Len(Banner) \in Nat
          /\ \A n \in 1..1 : what[n] = <<"endAuth">>[n]
          /\ \A n \in 1..Len(what) : n \notin 1..1 =>
               n - 1 \in 1..Len(Banner) /\ what[n] = Banner[n - 1]
      BY <2>2, <2>3, Joined
    <3> QED
      BY <2>2, <3>1
  <2> HIDE DEF what
  <2>5. ASSUME NEW n \in 1..Len(what)
        PROVE  what[n] # "salt" /\ (what[n] = "probe" => n = 2)
    <3>1. CASE n = 1
      BY <2>4, <3>1
    <3>2. CASE n # 1
      <4>1. n - 1 \in 1..Len(Banner) /\ what[n] = Banner[n - 1]
        BY <2>4, <3>2
      <4>2. what[n] # "salt" /\ (what[n] = "probe" => n - 1 = 1)
        BY <4>1, BannerLines
      <4>3. n \in Int
        BY <2>4
      <4> QED
        BY <4>2, <4>3
    <3> QED
      BY <3>1, <3>2
  <2>6. Replies(c) = Saying(c, what) /\ c \in Own
    BY <1>3, <2>1 DEF what, Own
  <2>7. Lines(c, what)
    BY <1>3, <2>4, <2>5, <2>6 DEF Lines
  <2> QED
    BY <2>7
<1>4. CASE c = 1 /\ login = "refused"
  <2>1. Lines(c, <<"endAuth", "failed">>)
    BY <1>4 DEF Replies, Lines, Shows, Handshake, Own
  <2> QED
    BY <2>1
<1>5. CASE c = 1 /\ login \notin {"accepted", "refused"}
  <2>1. Lines(c, <<"error">>)
    BY <1>5 DEF Replies, Lines, Shows, Handshake, Own
  <2> QED
    BY <2>1
<1>6. CASE c > 1 /\ \E i \in 1..Len(typed) : typed[i] = c
  <2>1. c \in Own
    BY <1>6 DEF Own
  <2>2. Lines(c, <<"text", "prompt">>)
    BY <1>6, <2>1 DEF Replies, Lines, Shows, Handshake
  <2> QED
    BY <2>2
<1>7. CASE c > 1 /\ ~(\E i \in 1..Len(typed) : typed[i] = c)
  <2>1. Lines(c, <<>>)
    BY <1>7 DEF Replies, Lines
  <2> QED
    BY <2>1
<1> QED
  BY <1>1, <1>2, <1>3, <1>4, <1>5, <1>6, <1>7

(* The device acts on a frame: what it said before stays, and the new lines
   answer that frame.                                                      *)
NewLine(i) == i \in 1..Len(said') /\ i \notin 1..Len(said)

Acts(c) ==
  /\ c \in Nat /\ c >= dIn /\ dIn' = c + 1 /\ took' = Append(took, c)
  /\ UNCHANGED <<setup, state, outCounter, lastIn, maxOutAck, pending, console, dAcked, dev, login>>
  /\ Len(said') \in Nat /\ Len(said) <= Len(said')
  /\ \A i \in 1..Len(said) : i \in 1..Len(said') /\ said'[i] = said[i]
  /\ \A i : NewLine(i) =>
       /\ said'[i].of = c /\ c \in Own
       /\ said'[i].is \in Shows => c # 0
       /\ said'[i].is = "salt" => c = 0
       /\ said'[i].is = "probe" => c = 1
  /\ \A i, j : NewLine(i) /\ NewLine(j) /\ said'[i].is = "probe" /\ said'[j].is = "probe" => i = j
  /\ c \notin Own => Len(said') = Len(said)

LEMMA TakesKinds ==
  ASSUME MacInv, NEW m \in toDev, DevData(m)
  PROVE  \/ Acts(m.counter)
         \/ UNCHANGED <<setup, state, outCounter, lastIn, maxOutAck, pending, console,
                        dIn, took, said, dAcked, dev, login>>
<1> DEFINE c == m.counter
<1>1. c \in Nat /\ m.what = c /\ dIn \in Nat
  BY DEF MacInv, Typed, Honest, DevData
<1>2. UNCHANGED <<setup, state, outCounter, lastIn, maxOutAck, pending, console, dAcked, dev, login>>
  BY DEF DevData, session
<1>3. CASE c < dIn
  BY <1>1, <1>2, <1>3 DEF DevData
<1>4. CASE c >= dIn
  <2>1. dIn' = c + 1 /\ took' = Append(took, c) /\ said' = said \o Replies(c)
    BY <1>1, <1>4 DEF DevData
  <2>2. PICK what : Lines(c, what)
    BY <1>1, RepliesLines DEF MacInv, Typed
  <2>3. what \in Seq(Shows \cup Handshake) /\ Replies(c) = Saying(c, what)
    BY <2>2 DEF Lines
  <2>4. /\ Replies(c) \in Seq(Line) /\ Len(Replies(c)) = Len(what) /\ Len(what) \in Nat
        /\ \A n \in 1..Len(what) : Replies(c)[n].is = what[n] /\ Replies(c)[n].of = c
    <3>1. /\ Saying(c, what) \in Seq(Line) /\ Len(Saying(c, what)) = Len(what)
          /\ \A n \in 1..Len(what) : Saying(c, what)[n].is = what[n]
      BY <1>1, <2>3, SayingFacts
    <3>2. \A n \in 1..Len(what) : Saying(c, what)[n].of = c
      BY DEF Saying
    <3> QED
      BY <2>3, <3>1, <3>2
  <2>5. said \in Seq(Line) /\ Len(said) \in Nat
    BY DEF MacInv, Typed
  <2>6. /\ Len(said') = Len(said) + Len(what)
        /\ \A i \in 1..Len(said) : said'[i] = said[i]
        /\ \A i \in 1..Len(said') : i \notin 1..Len(said) =>
             /\ i - Len(said) \in 1..Len(what)
             /\ said'[i].is = what[i - Len(said)] /\ said'[i].of = c
    <3>1. /\ Len(said') = Len(said) + Len(Replies(c))
          /\ \A i \in 1..Len(said) : said'[i] = said[i]
          /\ \A i \in 1..Len(said') : i \notin 1..Len(said) =>
               i - Len(said) \in 1..Len(Replies(c)) /\ said'[i] = Replies(c)[i - Len(said)]
      BY <2>1, <2>4, <2>5, ConcatFacts
    <3> QED
      BY <2>4, <3>1
  <2>7. Len(said') \in Nat /\ Len(said) <= Len(said') /\ \A i \in 1..Len(said) : i \in 1..Len(said')
    BY <2>4, <2>5, <2>6
  <2>8. (c = 0 => \A n \in 1..Len(what) : what[n] \notin Shows)
    <3>1. PICK w \in Seq(Shows \cup Handshake) :
            Replies(c) = Saying(c, w) /\ (c = 0 => \A n \in 1..Len(w) : w[n] \notin Shows)
      BY <1>1, RepliesFacts DEF MacInv, Typed
    <3>2. Len(Replies(c)) = Len(w) /\ \A n \in 1..Len(w) : Replies(c)[n].is = w[n]
      BY <1>1, <3>1, SayingFacts
    <3> QED
      BY <2>4, <3>1, <3>2
  <2>9. \A i : NewLine(i) =>
          /\ said'[i].of = c /\ c \in Own
          /\ said'[i].is \in Shows => c # 0
          /\ said'[i].is = "salt" => c = 0
          /\ said'[i].is = "probe" => c = 1
    <3> SUFFICES ASSUME NEW i, NewLine(i)
        PROVE  /\ said'[i].of = c /\ c \in Own
               /\ said'[i].is \in Shows => c # 0
               /\ said'[i].is = "salt" => c = 0
               /\ said'[i].is = "probe" => c = 1
      OBVIOUS
    <3>1. /\ i - Len(said) \in 1..Len(what)
          /\ said'[i].is = what[i - Len(said)] /\ said'[i].of = c
      BY <2>6 DEF NewLine
    <3>2. what # <<>>
      BY <3>1
    <3> QED
      BY <2>2, <2>8, <3>1, <3>2 DEF Lines
  <2>10. \A i, j : NewLine(i) /\ NewLine(j) /\ said'[i].is = "probe" /\ said'[j].is = "probe" => i = j
    <3> SUFFICES ASSUME NEW i, NEW j, NewLine(i), NewLine(j), said'[i].is = "probe",
                        said'[j].is = "probe"
        PROVE  i = j
      OBVIOUS
    <3>1. /\ i - Len(said) \in 1..Len(what) /\ what[i - Len(said)] = "probe"
          /\ j - Len(said) \in 1..Len(what) /\ what[j - Len(said)] = "probe"
          /\ i \in 1..Len(said') /\ j \in 1..Len(said')
      BY <2>6 DEF NewLine
    <3>2. i - Len(said) = j - Len(said)
      BY <2>2, <3>1 DEF Lines
    <3>3. \A a, b, l \in Int : a - l = b - l => a = b
      OBVIOUS
    <3> QED
      BY <2>5, <2>7, <3>1, <3>2, <3>3
  <2>11. c \notin Own => Len(said') = Len(said)
    BY <2>2, <2>5, <2>6 DEF Lines
  <2> QED
    BY <1>1, <1>2, <1>4, <2>1, <2>6, <2>7, <2>9, <2>10, <2>11 DEF Acts
<1> QED
  BY <1>1, <1>3, <1>4

-----------------------------------------------------------------------------
(* What a message does to the session.                                     *)
Salted(k) ==
  /\ k > lastIn /\ said[k + 1].is = "salt" /\ state = "auth-begin-sent" /\ state' = "auth-sent"
  /\ outCounter' = outCounter + 1 /\ UNCHANGED <<buffer, waiting, shown>>

Draws(k) ==
  /\ k > lastIn /\ said[k + 1].is \in Shows
  /\ state = "ready" \/ state = "auth-complete"
  /\ state' = "ready" /\ waiting' = waiting
  /\ shown' = Append(shown, k)
  /\ outCounter' = outCounter + (IF said[k + 1].is = "probe" THEN Answers ELSE 0)
  /\ buffer' = IF relaying THEN buffer ELSE Append(buffer, k)

Passes ==
  /\ state' = state \/ (state = "auth-sent" /\ state' = "auth-complete")
  /\ UNCHANGED <<outCounter, buffer, waiting, shown, pending>>

Ends ==
  /\ state' = "closed" /\ waiting' = FALSE /\ pending' = Nothing
  /\ UNCHANGED <<outCounter, buffer, shown>>

LEMMA HearsKinds ==
  ASSUME MacInv, NEW m \in toUs, OnData(m)
  PROVE  /\ m.counter \in Nat /\ m.counter < Len(said)
         /\ UNCHANGED <<setup, maxOutAck, relaying, results, cutShort, typed, login, dev, dIn, took, said, dAcked>>
         /\ lastIn' = IF m.counter > lastIn THEN m.counter ELSE lastIn
         /\ Salted(m.counter) \/ Draws(m.counter) \/ Passes \/ Ends
<1> DEFINE k == m.counter
<1>1. k \in Nat /\ k < Len(said)
  BY DEF MacInv, Honest, OnData
<1>2. UNCHANGED <<setup, maxOutAck, relaying, results, cutShort, typed, login, dev, dIn, took, said, dAcked>>
      /\ lastIn' = IF k > lastIn THEN k ELSE lastIn
  BY DEF OnData, Advances, device
<1>3. Salted(k) \/ Draws(k) \/ Passes \/ Ends
  <2>1. \/ /\ Advances(k) /\ said[k + 1].is = "salt" /\ state = "auth-begin-sent"
           /\ SendData(1) /\ state' = "auth-sent" /\ UNCHANGED <<buffer, waiting, shown>>
        \/ /\ Advances(k) /\ Terminal(k) /\ (state = "ready" \/ state = "auth-complete")
           /\ state' = "ready" /\ Show(k) /\ UNCHANGED waiting
        \/ /\ state' = state \/ (state = "auth-sent" /\ state' = AfterEndAuth)
           /\ UNCHANGED <<outCounter, pending, buffer, waiting, shown>>
        \/ (Close("refused") \/ Close("auth")) /\ UNCHANGED <<outCounter, buffer, shown>>
    BY DEF OnData
  <2> QED
    BY <2>1 DEF Salted, Draws, Passes, Ends, Advances, Terminal, Shows, SendData, Show, Asked,
      AfterEndAuth, Close
<1> QED
  BY <1>1, <1>2, <1>3

(* How far the session is.                                                 *)
LEMMA WaitsStep ==
  ASSUME MacInv, Waits, Staged, Steps
  PROVE  Waits'
<1>0. setup' = setup /\ state # "closed" /\ state \in States
  BY IdleFacts, HearsKinds, TakesKinds DEF Steps, Hears, Takes, Acts, Settle, RunTimesOut, Attach, Type, MacInv, Typed
<1>1. CASE Idles
  <2>1. UNCHANGED <<setup, buffer, relaying, results, typed>>
    BY <1>1, IdleFacts
  <2>2. CASE UNCHANGED <<state, waiting, outCounter, pending, error, maxOutAck>>
    BY <2>1, <2>2 DEF Waits
  <2>3. CASE StartSession
    BY <2>1, <2>3 DEF Waits, StartSession
  <2>4. ASSUME NEW m \in toUs, OnAck(m)
        PROVE  Waits'
    <3>1. UNCHANGED waiting
      BY <2>4 DEF OnAck, console
    <3>2. state # "init"
      BY <2>4 DEF Staged
    <3>3. state' = state \/ (state = "session-start-sent" /\ state' = "auth-begin-sent")
      BY <2>4 DEF OnAck
    <3> QED
      BY <1>0, <2>1, <3>1, <3>2, <3>3 DEF Waits
  <2>5. CASE Tick
    BY <1>0, <2>1, <2>5 DEF Waits, Tick, console
  <2>6. CASE state' = "closed" /\ waiting' = FALSE /\ pending' = Nothing
    BY <2>1, <2>6 DEF Waits
  <2> QED
    BY <1>1, <2>2, <2>3, <2>4, <2>5, <2>6, IdleFacts
<1>2. ASSUME NEW m \in toUs, OnData(m)
      PROVE  Waits'
  <2>1. /\ UNCHANGED <<setup, relaying, results, typed>>
        /\ Salted(m.counter) \/ Draws(m.counter) \/ Passes \/ Ends
    BY <1>2, HearsKinds
  <2>2. CASE Salted(m.counter) \/ Passes
    BY <1>0, <2>1, <2>2 DEF Waits, Salted, Passes
  <2>3. CASE Draws(m.counter)
    BY <1>0, <2>1, <2>3 DEF Waits, Draws
  <2>4. CASE Ends
    BY <2>1, <2>4 DEF Waits, Ends
  <2> QED
    BY <2>1, <2>2, <2>3, <2>4
<1>3. ASSUME NEW m \in toDev, DevData(m)
      PROVE  Waits'
  <2>1. UNCHANGED <<setup, state, pending, console>>
    BY <1>3, TakesKinds DEF Acts
  <2> QED
    BY <2>1 DEF Waits, console
<1>4. CASE Settle
  BY <1>0, <1>4 DEF Waits, Settle, session
<1>5. CASE Attach
  <2>1. results # <<>>
    BY <1>5 DEF Attach, Opened
  <2> QED
    BY <1>0, <1>5, <2>1 DEF Waits, Attach, session
<1>6. CASE Type
  BY <1>0, <1>6 DEF Waits, Type, MayType
<1>7. CASE RunTimesOut
  <2>1. results # <<>>
    BY <1>7 DEF RunTimesOut, Opened
  <2> QED
    BY <1>0, <1>7, <2>1 DEF Waits, RunTimesOut, session
<1> QED
  BY <1>1, <1>2, <1>3, <1>4, <1>5, <1>6, <1>7 DEF Steps, Hears, Takes

LEMMA ShownSaid ==
  ASSUME MacInv, NEW i \in 1..Len(shown)
  PROVE  /\ shown[i] \in Nat /\ shown[i] <= lastIn /\ lastIn \in Int
         /\ shown[i] + 1 \in 1..Len(said)
<1>1. shown[i] \in Nat /\ lastIn \in Int /\ Len(said) \in Nat
  BY TypesFacts
<1>2. shown[i] <= lastIn
  BY DEF MacInv, ShownLast
<1>3. lastIn < Len(said)
  BY DEF MacInv, Honest
<1> QED
  BY <1>1, <1>2, <1>3

LEMMA ProbedKept ==
  ASSUME MacInv, Probed, NEW k, shown' = shown \/ shown' = Append(shown, k),
         \A i \in 1..Len(said) : said'[i] = said[i]
  PROVE  Probed'
<1>1. PICK i \in 1..Len(shown) : said[shown[i] + 1].is = "probe"
  BY DEF Probed
<1>0. shown \in Seq(Nat) /\ Len(shown) \in Nat
  BY TypesFacts
<1>2. i \in 1..Len(shown') /\ shown'[i] = shown[i]
  <2>1. CASE shown' = shown
    BY <2>1
  <2>2. CASE shown' = Append(shown, k)
    <3>1. Len(Append(shown, k)) = Len(shown) + 1 /\ Append(shown, k)[i] = shown[i]
      BY <1>0
    <3>2. i \in 1..Len(shown) + 1
      BY <1>0
    <3> QED
      BY <2>2, <3>1, <3>2
  <2> QED
    BY <2>1, <2>2
<1>3. shown[i] + 1 \in 1..Len(said)
  BY ShownSaid
<1> QED
  BY <1>1, <1>2, <1>3 DEF Probed

LEMMA StagedStep ==
  ASSUME MacInv, MacInv', Staged, Waits, Spoken, Steps
  PROVE  Staged'
<1>0. /\ setup' = setup /\ state # "closed" /\ state \in States /\ outCounter \in Nat
      /\ Len(typed) \in Nat /\ typed \in Seq(Nat) /\ Answers = 2 /\ setup.inputs \in Nat
  <2>1. setup' = setup /\ state # "closed"
    BY IdleFacts, HearsKinds, TakesKinds DEF Steps, Hears, Takes, Acts, Settle, RunTimesOut, Attach, Type
  <2>2. /\ state \in States /\ outCounter \in Nat /\ Len(typed) \in Nat /\ typed \in Seq(Nat)
    BY DEF MacInv, Typed
  <2>3. Answers = 2 /\ setup.inputs \in Nat
    BY SetupFacts DEF Answers, MacInv
  <2> QED
    BY <2>1, <2>2, <2>3
<1>1. CASE Idles
  <2>1. /\ UNCHANGED <<setup, typed, shown, said>> /\ Probed' = Probed
    BY <1>1, IdleFacts DEF Probed
  <2>2. CASE UNCHANGED <<state, waiting, outCounter, pending, error, maxOutAck>>
    <3>1. ASSUME state = "init"
          PROVE  toDev' = {} /\ toUs' = {} /\ dev' = "idle" /\ pending' = Nothing
      <4>0. pending' = Nothing
        BY <2>2, <3>1 DEF Staged
      <4>1. toDev = {} /\ toUs = {} /\ dev = "idle"
        BY <3>1 DEF Staged
      <4>2. ~StartSession /\ ~Keepalive /\ ~OpenTimesOut /\ ~CallerCloses /\ ~Tick
        <5>1. ~StartSession /\ ~Keepalive /\ ~OpenTimesOut /\ ~CallerCloses
          BY <2>2, <3>1 DEF StartSession, Keepalive, OpenTimesOut, CallerCloses, Waits
        <5>2. ~Tick
          BY <3>1 DEF Tick, Staged
        <5> QED
          BY <5>1, <5>2
      <4> QED
        BY <1>1, <4>0, <4>1, <4>2 DEF Idles, Lose, DevSends, DevSend, DevEnds, macVars, device
    <3> QED
      BY <2>1, <2>2, <3>1 DEF Staged
  <2>3. CASE StartSession
    BY <1>0, <2>1, <2>3 DEF Staged, StartSession
  <2>4. ASSUME NEW m \in toUs, OnAck(m)
        PROVE  Staged'
    <3>1. state # "init"
      BY <2>4 DEF Staged
    <3>2. \/ /\ state = "session-start-sent" /\ state' = "auth-begin-sent"
             /\ outCounter' = outCounter + 1
          \/ state' = state /\ outCounter' = outCounter /\ state # "session-start-sent"
      BY <2>4 DEF OnAck, SendData
    <3> QED
      BY <1>0, <2>1, <3>1, <3>2 DEF Staged
  <2>5. CASE Tick
    <3>1. state # "init"
      BY <2>5 DEF Tick, Staged
    <3> QED
      BY <1>0, <2>1, <2>5, <3>1 DEF Staged, Tick
  <2>6. CASE state' = "closed" /\ outCounter' = outCounter
    BY <1>0, <2>1, <2>6 DEF Staged
  <2> QED
    BY <1>1, <2>2, <2>3, <2>4, <2>5, <2>6, IdleFacts
<1>2. ASSUME NEW m \in toUs, OnData(m)
      PROVE  Staged'
  <2> DEFINE k == m.counter
  <2>0. state # "init"
    BY <1>2 DEF Staged
  <2>1. /\ UNCHANGED <<setup, typed, said>> /\ k \in Nat /\ k < Len(said)
        /\ Salted(k) \/ Draws(k) \/ Passes \/ Ends
    BY <1>2, HearsKinds
  <2>2. CASE Salted(k)
    <3>1. Probed' = Probed
      BY <2>1, <2>2 DEF Salted, Probed
    <3> QED
      BY <1>0, <2>0, <2>1, <2>2, <3>1 DEF Staged, Salted
  <2>3. CASE Draws(k)
    <3>1. Probed => Probed'
      BY <2>1, <2>3, ProbedKept DEF Draws
    <3>2. CASE said[k + 1].is # "probe"
      <4>1. outCounter' = outCounter /\ state' = "ready" /\ outCounter >= 2
        BY <1>0, <2>3, <3>2 DEF Staged, Draws
      <4>2. outCounter <= 2 + Len(typed) + (IF Probed' THEN Answers ELSE 0)
        BY <1>0, <3>1 DEF Staged
      <4> QED
        BY <1>0, <2>1, <4>1, <4>2 DEF Staged
    <3>3. CASE said[k + 1].is = "probe"
      <4>1. ~Probed
        <5>1. ASSUME NEW i \in 1..Len(shown), said[shown[i] + 1].is = "probe"
              PROVE  FALSE
          <6>1. /\ shown[i] \in Nat /\ shown[i] <= lastIn /\ lastIn \in Int
                /\ shown[i] + 1 \in 1..Len(said) /\ k > lastIn
            BY <2>3, ShownSaid DEF Draws
          <6>2. Len(said) \in Nat
            BY DEF MacInv, Typed
          <6>3. k + 1 \in 1..Len(said) /\ shown[i] + 1 # k + 1
            BY <2>1, <6>1, <6>2
          <6> QED
            BY <3>3, <5>1, <6>1, <6>3 DEF Spoken
        <5> QED
          BY <5>1 DEF Probed
      <4>2. Probed'
        <5>1. shown \in Seq(Nat) /\ shown' = Append(shown, k)
          BY <2>3 DEF Draws, MacInv, Typed
        <5>2. Len(shown) + 1 \in 1..Len(shown') /\ shown'[Len(shown) + 1] = k
          BY <2>1, <5>1
        <5> QED
          BY <2>1, <3>3, <5>2 DEF Probed
      <4>3. outCounter <= 2 + Len(typed) /\ outCounter >= 2
        BY <1>0, <2>3, <4>1 DEF Staged, Draws
      <4>4. outCounter' = outCounter + 2 /\ state' = "ready"
        BY <1>0, <2>3, <3>3 DEF Draws
      <4>5. outCounter' <= 2 + Len(typed) + 2 /\ outCounter' >= 2
        BY <1>0, <4>3, <4>4
      <4> QED
        BY <1>0, <2>1, <4>2, <4>4, <4>5 DEF Staged
    <3> QED
      BY <3>2, <3>3
  <2>4. CASE Passes \/ Ends
    <3>1. Probed' = Probed /\ outCounter' = outCounter
      BY <2>1, <2>4 DEF Passes, Ends, Probed
    <3> QED
      BY <1>0, <2>0, <2>1, <2>4, <3>1 DEF Staged, Passes, Ends
  <2> QED
    BY <2>1, <2>2, <2>3, <2>4
<1>3. ASSUME NEW m \in toDev, DevData(m)
      PROVE  Staged'
  <2>1. UNCHANGED <<setup, state, outCounter, console>> /\ \A i \in 1..Len(said) : said'[i] = said[i]
    BY <1>3, TakesKinds DEF Acts
  <2>2. Probed => Probed'
    BY <2>1, ProbedKept DEF console
  <2>3. state # "init"
    BY <1>3 DEF Staged
  <2> QED
    BY <1>0, <2>1, <2>2, <2>3 DEF Staged, console
<1>4. CASE Settle \/ RunTimesOut \/ Attach
  <2>1. UNCHANGED <<setup, state, outCounter, typed, shown, said, toDev, toUs, dev, maxOutAck,
                   pending>>
    BY <1>4 DEF Settle, RunTimesOut, Attach, session, device
  <2> QED
    BY <2>1 DEF Staged, Probed
<1>5. CASE Type
  <2>1. /\ UNCHANGED <<setup, state, shown, said>> /\ state = "ready"
        /\ outCounter' = outCounter + 1 /\ typed' = Append(typed, outCounter)
        /\ Len(typed) < setup.inputs
    BY <1>5 DEF Type, MayType, SendData, device
  <2>2. Len(typed') = Len(typed) + 1 /\ Probed' = Probed
    BY <1>0, <2>1 DEF Probed
  <2> QED
    BY <1>0, <2>1, <2>2 DEF Staged
<1> QED
  BY <1>1, <1>2, <1>3, <1>4, <1>5 DEF Steps, Hears, Takes

-----------------------------------------------------------------------------
(* What was acted upon stays so, and a command has a number of its own.    *)
LEMMA TookKept ==
  ASSUME Typed, NEW c \in Nat, took' = took \/ took' = Append(took, c), NEW f, Took(f)
  PROVE  TookIn(took', f)
<1>1. took \in Seq(Nat) /\ Len(took) \in Nat
  BY DEF Typed
<1>2. PICK i \in 1..Len(took) : took[i] = f
  BY DEF Took, TookIn
<1>3. i \in 1..Len(took') /\ took'[i] = f
  BY <1>1, <1>2
<1> QED
  BY <1>3 DEF TookIn

LEMMA TookNew ==
  ASSUME Typed, NEW c \in Nat, took' = Append(took, c)
  PROVE  TookIn(took', c)
<1>1. took \in Seq(Nat) /\ Len(took) \in Nat
  BY DEF Typed
<1>2. Len(took) + 1 \in 1..Len(took') /\ took'[Len(took) + 1] = c
  BY <1>1
<1> QED
  BY <1>2 DEF TookIn

LEMMA TookPast ==
  ASSUME MacInv, NEW f, Took(f)
  PROVE  f < dIn
BY DEF MacInv, TookOnce, Took, TookIn

LEMMA TypedFacts ==
  ASSUME Typed, NEW c \in Nat, typed' = Append(typed, c)
  PROVE  /\ Len(typed) \in Nat /\ Len(typed') = Len(typed) + 1
         /\ \A i \in 1..Len(typed) : i \in 1..Len(typed') /\ typed'[i] = typed[i]
         /\ \A i \in 1..Len(typed') : i \in 1..Len(typed) \/ (i = Len(typed) + 1 /\ typed'[i] = c)
         /\ typed'[Len(typed')] = c /\ typed' # <<>>
         /\ Turn' = c /\ Own' = Own \cup {c}
<1>1. typed \in Seq(Nat) /\ Len(typed) \in Nat
  BY DEF Typed
<1>2. Len(typed') = Len(typed) + 1 /\ typed'[Len(typed) + 1] = c
  BY <1>1
<1>3. \A i \in 1..Len(typed) : i \in 1..Len(typed') /\ typed'[i] = typed[i]
  BY <1>1
<1>4. \A i \in 1..Len(typed') : i \in 1..Len(typed) \/ (i = Len(typed) + 1 /\ typed'[i] = c)
  BY <1>1, <1>2
<1>5. typed'[Len(typed')] = c /\ typed' # <<>>
  BY <1>1, <1>2
<1>6. Turn' = c
  BY <1>5 DEF Turn
<1>7. Len(typed) + 1 \in 1..Len(typed')
  BY <1>1, <1>2
<1>8. {typed'[i] : i \in 1..Len(typed')} = {typed[i] : i \in 1..Len(typed)} \cup {c}
  BY <1>2, <1>3, <1>4, <1>7
<1>9. Own' = Own \cup {c}
  BY <1>8 DEF Own
<1> QED
  BY <1>1, <1>2, <1>3, <1>4, <1>5, <1>6, <1>9

LEMMA SpokenKept ==
  ASSUME Spoken, UNCHANGED <<said, took, dIn, typed>>, outCounter' >= outCounter,
         outCounter \in Nat, outCounter' \in Nat, Typed
  PROVE  Spoken'
<1>1. Own' = Own /\ \A f : TookIn(took', f) = Took(f)
  BY DEF Own, Took, TookIn
<1>2. \A i \in 1..Len(typed) : typed[i] > 1 /\ typed[i] < outCounter'
  <2> SUFFICES ASSUME NEW i \in 1..Len(typed)
      PROVE  typed[i] > 1 /\ typed[i] < outCounter'
    OBVIOUS
  <2>1. typed[i] \in Nat
    BY DEF Typed
  <2>2. typed[i] > 1 /\ typed[i] < outCounter
    BY DEF Spoken
  <2> QED
    BY <2>1, <2>2
<1> QED
  BY <1>1, <1>2 DEF Spoken, Took

LEMMA SpokenTakes ==
  ASSUME MacInv, Spoken, NEW c, Acts(c)
  PROVE  Spoken'
<1>1. /\ c \in Nat /\ c >= dIn /\ dIn \in Nat /\ dIn' = c + 1 /\ took' = Append(took, c) /\ Typed
      /\ UNCHANGED <<outCounter, typed>>
  BY DEF Acts, MacInv, Typed, console
<1>2. Own' = Own /\ \A f : Took(f) => TookIn(took', f)
  BY <1>1, TookKept DEF Own
<1>3. TookIn(took', c)
  BY <1>1, TookNew
<1>4. \A i \in 1..Len(said) : i \in 1..Len(said') /\ said'[i] = said[i]
  BY DEF Acts
<1>5. ASSUME NEW i \in 1..Len(said')
      PROVE  /\ said'[i].of \in Own /\ TookIn(took', said'[i].of)
             /\ said'[i].is \in Shows => said'[i].of # 0
             /\ said'[i].is = "salt" => said'[i].of = 0
  <2>1. CASE i \in 1..Len(said)
    BY <1>2, <1>4, <2>1 DEF Spoken
  <2>2. CASE i \notin 1..Len(said)
    <3>1. /\ said'[i].of = c /\ c \in Own
          /\ said'[i].is \in Shows => c # 0
          /\ said'[i].is = "salt" => c = 0
      BY <1>5, <2>2 DEF Acts, NewLine
    <3> QED
      BY <1>3, <3>1
  <2> QED
    BY <2>1, <2>2
<1>6. ASSUME NEW i \in 1..Len(said'), NEW j \in 1..Len(said'), i \notin 1..Len(said),
             said'[i].is = "probe", said'[j].is = "probe"
      PROVE  i = j
  <2>1. NewLine(i) /\ c = 1
    BY <1>6 DEF NewLine, Acts
  <2>2. CASE j \in 1..Len(said)
    <3>1. said[j].is \in Shows
      BY <1>4, <1>6, <2>2 DEF Shows
    <3>2. dIn >= 2
      BY <2>2, <3>1 DEF MacInv, Drawn
    <3> QED
      BY <1>1, <2>1, <3>2
  <2>3. CASE j \notin 1..Len(said)
    BY <1>6, <2>1, <2>3 DEF NewLine, Acts
  <2> QED
    BY <2>2, <2>3
<1>7. \A i, j \in 1..Len(said') : said'[i].is = "probe" /\ said'[j].is = "probe" => i = j
  <2> SUFFICES ASSUME NEW i \in 1..Len(said'), NEW j \in 1..Len(said'),
                      said'[i].is = "probe", said'[j].is = "probe"
      PROVE  i = j
    OBVIOUS
  <2>1. CASE i \in 1..Len(said) /\ j \in 1..Len(said)
    BY <1>4, <2>1 DEF Spoken
  <2> QED
    BY <1>6, <2>1
<1>8. TookIn(took', dIn' - 1)
  BY <1>1, <1>3
<1>9. \A i \in 1..Len(typed') : typed'[i] > 1 /\ typed'[i] < outCounter'
  BY <1>1 DEF Spoken
<1> QED
  BY <1>2, <1>5, <1>7, <1>8, <1>9 DEF Spoken, Took

LEMMA SpokenStep ==
  ASSUME MacInv, MacInv', Staged, Spoken, Steps
  PROVE  Spoken'
<1>0. Typed /\ outCounter \in Nat /\ outCounter' \in Nat
  BY DEF MacInv, Typed
<1>1. CASE Idles
  <2>1. UNCHANGED <<said, took, dIn, typed>>
    BY <1>1, IdleFacts
  <2>2. outCounter' = outCounter \/ outCounter' = outCounter + 1
    <3>1. outCounter' = outCounter \/ \E m \in toUs : OnAck(m)
      BY <1>1, IdleFacts DEF StartSession, Tick
    <3> QED
      BY <3>1 DEF OnAck, SendData
  <2> QED
    BY <1>0, <2>1, <2>2, SpokenKept
<1>2. ASSUME NEW m \in toUs, OnData(m)
      PROVE  Spoken'
  <2>1. UNCHANGED <<said, took, dIn, typed>>
    BY <1>2, HearsKinds
  <2>2. outCounter' \in {outCounter, outCounter + 1, outCounter + 2}
    <3>1. Salted(m.counter) \/ Draws(m.counter) \/ Passes \/ Ends
      BY <1>2, HearsKinds
    <3> QED
      BY <1>0, <3>1 DEF Salted, Draws, Passes, Ends, Answers
  <2> QED
    BY <1>0, <2>1, <2>2, SpokenKept
<1>3. ASSUME NEW m \in toDev, DevData(m)
      PROVE  Spoken'
  <2>1. CASE Acts(m.counter)
    BY <2>1, SpokenTakes
  <2>2. CASE UNCHANGED <<outCounter, console, dIn, took, said>>
    BY <1>0, <2>2, SpokenKept DEF console
  <2> QED
    BY <1>3, <2>1, <2>2, TakesKinds
<1>4. CASE Settle \/ RunTimesOut \/ Attach
  <2>1. UNCHANGED <<said, took, dIn, typed, outCounter>>
    BY <1>4 DEF Settle, RunTimesOut, Attach, session, device
  <2> QED
    BY <1>0, <2>1, SpokenKept
<1>5. CASE Type
  <2>1. /\ UNCHANGED <<said, took, dIn>> /\ state = "ready"
        /\ outCounter' = outCounter + 1 /\ typed' = Append(typed, outCounter)
    BY <1>5 DEF Type, MayType, SendData, device
  <2>2. outCounter >= 2
    BY <2>1 DEF Staged
  <2>3. /\ \A i \in 1..Len(typed) : i \in 1..Len(typed') /\ typed'[i] = typed[i]
        /\ \A i \in 1..Len(typed') : i \in 1..Len(typed) \/ (i = Len(typed) + 1 /\ typed'[i] = outCounter)
        /\ Own' = Own \cup {outCounter}
    BY <1>0, <2>1, TypedFacts
  <2>4. \A f : TookIn(took', f) = Took(f)
    BY <2>1 DEF Took
  <2>5. ASSUME NEW i \in 1..Len(typed')
        PROVE  typed'[i] > 1 /\ typed'[i] < outCounter'
    <3>1. CASE i \in 1..Len(typed)
      <4>0. typed[i] \in Nat
        BY <1>0, <3>1 DEF Typed
      <4>1. typed[i] > 1 /\ typed[i] < outCounter
        BY <3>1 DEF Spoken
      <4> QED
        BY <1>0, <2>1, <2>3, <3>1, <4>0, <4>1
    <3>2. CASE typed'[i] = outCounter
      BY <1>0, <2>1, <2>2, <3>2
    <3> QED
      BY <2>3, <3>1, <3>2
  <2> QED
    BY <2>1, <2>3, <2>4, <2>5 DEF Spoken, Took
<1> QED
  BY <1>1, <1>2, <1>3, <1>4, <1>5 DEF Steps, Hears, Takes

-----------------------------------------------------------------------------
(* One command at a time.                                                  *)
LEMMA TurnFacts ==
  ASSUME MacInv, Staged, Waits, Spoken
  PROVE  /\ Turn \in Nat /\ Turn \in Own
         /\ typed = <<>> => Turn = 1 /\ Own = {0, 1}
         /\ typed # <<>> => Turn < outCounter
         /\ state \in {"ready", "auth-complete"} => Turn < outCounter
<1>1. typed \in Seq(Nat) /\ Len(typed) \in Nat /\ outCounter \in Nat
  BY TypesFacts
<1>2. CASE typed = <<>>
  <2>1. Turn = 1 /\ Len(typed) = 0
    BY <1>2 DEF Turn
  <2>2. {typed[i] : i \in 1..Len(typed)} = {}
    <3>1. \A i : i \notin 1..Len(typed)
      BY <2>1
    <3> QED
      BY <3>1
  <2>3. Own = {0, 1}
    BY <2>2 DEF Own
  <2>4. state \in {"ready", "auth-complete"} => outCounter >= 2
    BY <1>1 DEF Staged
  <2> QED
    BY <1>1, <1>2, <2>1, <2>3, <2>4
<1>3. CASE typed # <<>>
  <2>1. Len(typed) \in 1..Len(typed) /\ Turn = typed[Len(typed)]
    <3>1. Len(typed) \in 1..Len(typed)
      BY <1>1, <1>3
    <3>2. Turn = typed[Len(typed)]
      BY <1>3 DEF Turn
    <3> QED
      BY <3>1, <3>2
  <2>2. Turn \in Nat /\ Turn < outCounter
    <3>1. Turn \in Nat
      BY <1>1, <2>1
    <3>2. Turn < outCounter
      BY <2>1 DEF Spoken
    <3> QED
      BY <3>1, <3>2
  <2>3. Turn \in Own
    BY <2>1 DEF Own
  <2> QED
    BY <1>3, <2>2, <2>3
<1> QED
  BY <1>2, <1>3

LEMMA InTurnKept ==
  ASSUME MacInv, MacInv', InTurn, UNCHANGED <<typed, took, said>>, lastIn' >= lastIn,
         Turn < outCounter' =>
           /\ \A f \in Own : f # Turn => Took(f)
           /\ Took(Turn) \/ outCounter' = Turn + 1,
         state' = "ready" /\ ~waiting' => Len(said) = lastIn' + 1 /\ Took(Turn),
         \A i \in 1..Len(buffer') : said[buffer'[i] + 1].of = Turn
  PROVE  InTurn'
<1>1. Turn' = Turn /\ Own' = Own /\ said' = said /\ \A f : TookIn(took', f) = Took(f)
  BY DEF Turn, Own, Took
<1>2. ASSUME NEW i \in 1..Len(said), lastIn' + 1 < i, said[i].is \in Shows
      PROVE  said[i].of = Turn
  <2>1. lastIn \in Int /\ Len(said) \in Nat
    BY TypesFacts
  <2>3. lastIn' \in Int
    BY DEF MacInv, Typed
  <2>2. lastIn + 1 < i
    <3>1. \A a, b, c \in Int : b >= a /\ b + 1 < c => a + 1 < c
      OBVIOUS
    <3>2. i \in Int
      BY <2>1
    <3>3. lastIn' + 1 < i
      BY <1>2
    <3> QED
      BY <2>1, <2>3, <3>1, <3>2, <3>3
  <2> QED
    BY <1>2, <2>2 DEF InTurn
<1> QED
  BY <1>1, <1>2 DEF InTurn, Took

LEMMA InTurnSame ==
  ASSUME MacInv, MacInv', InTurn,
         UNCHANGED <<typed, took, said, outCounter, buffer>>, lastIn' >= lastIn,
         state' = "ready" /\ ~waiting' => state = "ready" /\ ~waiting /\ lastIn' = lastIn
  PROVE  InTurn'
<1>1. Turn < outCounter' =>
        /\ \A f \in Own : f # Turn => Took(f)
        /\ Took(Turn) \/ outCounter' = Turn + 1
  BY DEF InTurn
<1>2. state' = "ready" /\ ~waiting' => Len(said) = lastIn' + 1 /\ Took(Turn)
  BY DEF InTurn
<1>3. \A i \in 1..Len(buffer') : said[buffer'[i] + 1].of = Turn
  BY DEF InTurn
<1> QED
  BY <1>1, <1>2, <1>3, InTurnKept

LEMMA InTurnIdles ==
  ASSUME MacInv, MacInv', Staged, Waits, Spoken, InTurn, Idles
  PROVE  InTurn'
<1>1. UNCHANGED <<typed, took, said, buffer, lastIn>> /\ lastIn \in Int
  BY IdleFacts DEF MacInv, Typed
<1>2. CASE UNCHANGED <<state, waiting, outCounter>>
  BY <1>1, <1>2, InTurnSame
<1>3. CASE StartSession \/ state' = "closed"
  <2>1. UNCHANGED outCounter /\ state' # "ready"
    <3>1. StartSession => state' = "session-start-sent" /\ outCounter' = outCounter
      BY DEF StartSession
    <3>2. state' = "closed" => outCounter' = outCounter
      BY IdleFacts DEF StartSession, OnAck, Tick, MacInv, Typed
    <3> QED
      BY <1>3, <3>1, <3>2
  <2> QED
    BY <1>1, <2>1, InTurnSame
<1>4. ASSUME NEW m \in toUs, OnAck(m)
      PROVE  InTurn'
  <2>1. UNCHANGED waiting
    BY <1>4 DEF OnAck, console
  <2>2. CASE UNCHANGED <<state, outCounter>>
    BY <1>1, <2>1, <2>2, InTurnSame
  <2>3. CASE /\ state = "session-start-sent" /\ state' = "auth-begin-sent"
             /\ outCounter' = outCounter + 1
    <3>1. outCounter' = 1 /\ typed = <<>>
      BY <2>3 DEF Staged, Waits
    <3>2. Turn = 1
      BY <3>1, TurnFacts
    <3>3. ~(Turn < outCounter')
      BY <3>1, <3>2
    <3>4. \A i \in 1..Len(buffer') : said[buffer'[i] + 1].of = Turn
      BY <1>1 DEF InTurn
    <3> QED
      BY <1>1, <2>3, <3>3, <3>4, InTurnKept
  <2> QED
    BY <1>4, <2>2, <2>3 DEF OnAck, SendData
<1>5. CASE Tick
  BY <1>2, <1>5 DEF Tick, console
<1> QED
  BY <1>2, <1>3, <1>4, <1>5, IdleFacts

LEMMA InTurnHears ==
  ASSUME MacInv, MacInv', Sorts, Staged, Waits, Spoken, InTurn, ~relaying,
         NEW m \in toUs, OnData(m)
  PROVE  InTurn'
<1> DEFINE k == m.counter
<1>1. /\ UNCHANGED <<typed, took, said, dAcked>> /\ k \in Nat /\ k < Len(said)
      /\ lastIn' = IF k > lastIn THEN k ELSE lastIn
      /\ Salted(k) \/ Draws(k) \/ Passes \/ Ends
  BY HearsKinds
<1>2. lastIn \in Int /\ lastIn' >= lastIn /\ outCounter \in Nat /\ Len(said) \in Nat
      /\ k + 1 \in 1..Len(said)
  <2>1. lastIn \in Int /\ outCounter \in Nat /\ Len(said) \in Nat
    BY TypesFacts
  <2> QED
    BY <1>1, <2>1
<1>3. CASE Passes \/ Ends
  <2>1. UNCHANGED <<outCounter, buffer>>
    BY <1>3 DEF Passes, Ends
  <2>2. state' = "ready" /\ ~waiting' => state = "ready" /\ ~waiting
    BY <1>3 DEF Passes, Ends
  <2>3. state = "ready" /\ ~waiting => lastIn' = lastIn
    BY <1>1, <1>2 DEF InTurn
  <2> QED
    BY <1>1, <1>2, <2>1, <2>2, <2>3, InTurnSame
<1>4. CASE Salted(k)
  <2>1. state = "auth-begin-sent" /\ state' = "auth-sent" /\ outCounter' = outCounter + 1
        /\ said[k + 1].is = "salt" /\ buffer' = buffer
    BY <1>4 DEF Salted
  <2>2. outCounter' = 2 /\ typed = <<>>
    BY <2>1 DEF Staged, Waits
  <2>3. Turn = 1 /\ Own = {0, 1}
    BY <2>2, TurnFacts
  <2>4. said[k + 1].of = 0 /\ Took(0)
    BY <1>2, <2>1 DEF Spoken
  <2>5. (\A f \in Own : f # Turn => Took(f)) /\ outCounter' = Turn + 1
    BY <2>2, <2>3, <2>4
  <2>6. \A i \in 1..Len(buffer') : said[buffer'[i] + 1].of = Turn
    BY <2>1 DEF InTurn
  <2> QED
    BY <1>1, <1>2, <2>1, <2>5, <2>6, InTurnKept
<1>5. CASE Draws(k)
  <2>1. /\ k > lastIn /\ said[k + 1].is \in Shows /\ (state = "ready" \/ state = "auth-complete")
        /\ waiting' = waiting /\ buffer' = Append(buffer, k)
    BY <1>5 DEF Draws
  <2>2. said[k + 1].of = Turn /\ Took(Turn)
    <3>1. lastIn + 1 < k + 1
      BY <1>1, <1>2, <2>1
    <3>2. said[k + 1].of = Turn
      BY <1>2, <2>1, <3>1 DEF InTurn
    <3>3. Took(said[k + 1].of)
      BY <1>2 DEF Spoken
    <3> QED
      BY <3>2, <3>3
  <2>3. Turn < outCounter
    BY <2>1, TurnFacts
  <2>4. (\A f \in Own : f # Turn => Took(f)) /\ Took(Turn)
    BY <2>2, <2>3 DEF InTurn
  <2>5. waiting'
    <3>1. ~waiting => state = "ready"
      BY <2>1 DEF Waits
    <3> QED
      BY <1>1, <1>2, <2>1, <3>1 DEF InTurn
  <2>6. ASSUME NEW i \in 1..Len(buffer')
        PROVE  said[buffer'[i] + 1].of = Turn
    <3>1. buffer \in Seq(Nat) /\ Len(buffer) \in Nat
      BY DEF Sorts
    <3>2. CASE i \in 1..Len(buffer)
      <4>1. buffer'[i] = buffer[i]
        BY <2>1, <3>1, <3>2
      <4> QED
        BY <3>2, <4>1 DEF InTurn
    <3>3. CASE i \notin 1..Len(buffer)
      <4>1. buffer'[i] = k
        BY <1>1, <2>1, <3>1, <3>3
      <4> QED
        BY <2>2, <4>1
    <3> QED
      BY <3>2, <3>3
  <2> QED
    BY <1>1, <1>2, <2>4, <2>5, <2>6, InTurnKept
<1> QED
  BY <1>1, <1>3, <1>4, <1>5

LEMMA InTurnTakes ==
  ASSUME MacInv, MacInv', Sorts, Counted, Staged, Waits, Spoken, InTurn, Answered,
         NEW c, c < outCounter, Acts(c)
  PROVE  InTurn'
<1>1. /\ c \in Nat /\ c >= dIn /\ dIn \in Nat /\ took' = Append(took, c) /\ Typed
      /\ UNCHANGED <<state, outCounter, lastIn, typed, waiting, buffer, dAcked>>
      /\ outCounter \in Nat /\ lastIn \in Int
  BY DEF Acts, MacInv, Typed, console
<1>2. Turn' = Turn /\ Own' = Own /\ \A f : Took(f) => TookIn(took', f)
  BY <1>1, TookKept DEF Own, Turn
<1>3. ~Took(c)
  BY <1>1, TookPast
<1>4. c \in Own /\ c # 0 => c = Turn
  <2>1. CASE Turn < outCounter
    BY <1>3, <2>1 DEF InTurn
  <2>2. CASE ~(Turn < outCounter)
    BY <2>2, TurnFacts
  <2> QED
    BY <2>1, <2>2
<1>5. \A i \in 1..Len(said) : i \in 1..Len(said') /\ said'[i] = said[i]
  BY DEF Acts
<1>6. Turn < outCounter' => \A f \in Own : f # Turn => TookIn(took', f)
  BY <1>1, <1>2 DEF InTurn
<1>7. Turn < outCounter' => TookIn(took', Turn) \/ outCounter' = Turn + 1
  BY <1>1, <1>2 DEF InTurn
<1>8. ASSUME state' = "ready", ~waiting'
      PROVE  Len(said') = lastIn' + 1 /\ TookIn(took', Turn)
  <2>1. state = "ready" /\ Len(said) = lastIn + 1 /\ Took(Turn)
    BY <1>1, <1>8 DEF InTurn
  <2>2. Turn < outCounter
    BY <2>1, TurnFacts
  <2>3. c \notin Own
    BY <1>3, <2>1, <2>2 DEF InTurn
  <2> QED
    BY <1>1, <1>2, <2>1, <2>3 DEF Acts
<1>9. ASSUME NEW i \in 1..Len(said'), lastIn' + 1 < i, said'[i].is \in Shows
      PROVE  said'[i].of = Turn
  <2>1. CASE i \in 1..Len(said)
    BY <1>1, <1>5, <1>9, <2>1 DEF InTurn
  <2>2. CASE i \notin 1..Len(said)
    BY <1>4, <1>9, <2>2 DEF Acts, NewLine
  <2> QED
    BY <2>1, <2>2
<1>10. ASSUME NEW i \in 1..Len(buffer')
       PROVE  said'[buffer'[i] + 1].of = Turn
  <2>0. i \in 1..Len(buffer) /\ buffer[i] \in Nat /\ Len(said) \in Nat
    <3>1. i \in 1..Len(buffer)
      BY <1>1, <1>10
    <3>2. buffer[i] \in Nat
      BY <3>1 DEF Sorts
    <3>3. Len(said) \in Nat
      BY TypesFacts
    <3> QED
      BY <3>1, <3>2, <3>3
  <2>1. buffer[i] < Len(said)
    BY <2>0 DEF Answered
  <2>2. buffer[i] + 1 \in 1..Len(said)
    BY <2>0, <2>1
  <2> QED
    BY <1>1, <1>5, <2>0, <2>2 DEF InTurn
<1> QED
  BY <1>2, <1>6, <1>7, <1>8, <1>9, <1>10 DEF InTurn, Took

LEMMA InTurnStep ==
  ASSUME MacInv, MacInv', Sorts, Counted, Staged, Waits, Spoken, Buffered, Answered, Steps,
         ~relaying /\ ~cutShort => InTurn, ~relaying', ~cutShort'
  PROVE  InTurn'
<1>1. CASE Idles
  BY <1>1, InTurnIdles, IdleFacts
<1>2. ASSUME NEW m \in toUs, OnData(m)
      PROVE  InTurn'
  BY <1>2, InTurnHears, HearsKinds
<1>3. ASSUME NEW m \in toDev, DevData(m)
      PROVE  InTurn'
  <2>1. m.counter < outCounter
    BY <1>3 DEF Counted, DevData
  <2>2. CASE Acts(m.counter)
    <3>1. relaying' = relaying /\ cutShort' = cutShort
      BY <2>2 DEF Acts, console
    <3> QED
      BY <2>1, <2>2, <3>1, InTurnTakes
  <2>3. CASE UNCHANGED <<state, outCounter, lastIn, console, took, said, dAcked>>
    <3>1. UNCHANGED <<typed, buffer, waiting, relaying, cutShort>> /\ lastIn' >= lastIn
      BY <2>3 DEF console, MacInv, Typed
    <3> QED
      BY <2>3, <3>1, InTurnSame
  <2> QED
    BY <1>3, <2>2, <2>3, TakesKinds
<1>4. CASE Settle
  <2>1. /\ UNCHANGED <<typed, took, said, outCounter, lastIn, buffer, relaying>>
        /\ state = "ready" /\ Expected /\ cutShort' = (cutShort \/ GoesOn)
    BY <1>4 DEF Settle, session, device
  <2>2. InTurn /\ ~GoesOn
    BY <2>1
  <2>3. /\ buffer \in Seq(Nat) /\ Len(buffer) \in Nat /\ said \in Seq(Line)
        /\ Len(said) \in Nat /\ lastIn \in Int
    BY TypesFacts DEF Sorts
  <2>4. buffer # <<>>
    <3>1. Len(<<>>) = 0
      OBVIOUS
    <3> QED
      BY <2>1, <3>1 DEF Expected, EndsWithPrompt
  <2>5. Len(buffer) \in 1..Len(buffer) /\ buffer[Len(buffer)] = lastIn
    <3>1. Len(buffer) \in 1..Len(buffer)
      BY <2>3, <2>4
    <3>2. shown # <<>> /\ buffer[Len(buffer)] = shown[Len(shown)]
      BY <2>4 DEF Buffered
    <3>3. shown[Len(shown)] = lastIn
      BY <3>2 DEF MacInv, ShownLast
    <3> QED
      BY <3>1, <3>2, <3>3
  <2>6. said[lastIn + 1].is \in Shows /\ lastIn \in Nat /\ lastIn + 1 \in 1..Len(said)
    <3>1. said[lastIn + 1].is \in Shows
      BY <2>4 DEF Buffered, MacInv, ShownLast
    <3>2. lastIn \in Nat
      BY <2>3, <2>5
    <3>3. lastIn < Len(said)
      BY DEF MacInv, Honest
    <3> QED
      BY <2>3, <3>1, <3>2, <3>3
  <2>7. said[lastIn + 1].of = Turn
    <3>1. said[buffer[Len(buffer)] + 1].of = Turn
      BY <2>2, <2>5 DEF InTurn
    <3> QED
      BY <2>5, <3>1
  <2>8. Len(said) = lastIn + 1
    <3>1. SUFFICES ASSUME Len(said) # lastIn + 1 PROVE FALSE
      OBVIOUS
    <3>2. lastIn + 2 \in 1..Len(said) /\ lastIn + 1 < lastIn + 2 /\ lastIn + 2 \in lastIn + 2..Len(said)
      BY <2>3, <2>6, <3>1
    <3>3. said[lastIn + 2].is \in Shows
      BY <2>6, <3>2 DEF MacInv, Drawn
    <3>4. said[lastIn + 2].of = Turn
      BY <2>2, <3>2, <3>3 DEF InTurn
    <3>5. Last.of = Turn
      BY <2>5, <2>7 DEF Last
    <3> QED
      BY <2>2, <2>5, <3>2, <3>4, <3>5 DEF GoesOn
  <2>9. Took(Turn)
    BY <2>6, <2>7 DEF Spoken
  <2>10. Turn < outCounter' =>
           /\ \A f \in Own : f # Turn => Took(f)
           /\ Took(Turn) \/ outCounter' = Turn + 1
    BY <2>1, <2>2, <2>9 DEF InTurn
  <2>11. \A j \in 1..Len(buffer') : said[buffer'[j] + 1].of = Turn
    BY <2>1, <2>2 DEF InTurn
  <2>12. UNCHANGED <<typed, took, said>> /\ lastIn' >= lastIn /\ Len(said) = lastIn' + 1
    BY <2>1, <2>3, <2>8
  <2> QED
    BY <2>2, <2>9, <2>10, <2>11, <2>12, InTurnKept
<1>5. CASE Attach
  BY <1>5 DEF Attach
<1>6. CASE Type
  <2>1. /\ UNCHANGED <<said, took, lastIn, relaying, cutShort>> /\ state = "ready" /\ ~waiting
        /\ outCounter' = outCounter + 1 /\ typed' = Append(typed, outCounter)
        /\ waiting' = ~relaying /\ buffer' = <<>>
    BY <1>6 DEF Type, MayType, SendData, device
  <2>2. InTurn /\ Typed /\ outCounter \in Nat /\ lastIn \in Int /\ Len(said) \in Nat
    BY <2>1, TypesFacts
  <2>3. Turn' = outCounter /\ Own' = Own \cup {outCounter}
    BY <2>1, <2>2, TypedFacts
  <2>4. Len(said) = lastIn + 1 /\ Took(Turn) /\ Turn < outCounter
    BY <2>1, <2>2, TurnFacts DEF InTurn
  <2>5. \A f \in Own : Took(f)
    BY <2>2, <2>4 DEF InTurn
  <2>6. \A f \in Own' : f # Turn' => TookIn(took', f)
    BY <2>1, <2>3, <2>5 DEF Took
  <2>7. outCounter' = Turn' + 1
    BY <2>1, <2>3
  <2>8. waiting'
    BY <2>1
  <2>9. \A i \in 1..Len(said') : ~(lastIn' + 1 < i)
    BY <2>1, <2>2, <2>4
  <2>10. Len(buffer') = 0
    BY <2>1
  <2> QED
    BY <2>6, <2>7, <2>8, <2>9, <2>10 DEF InTurn, Took
<1>7. CASE RunTimesOut
  BY <1>7 DEF RunTimesOut
<1> QED
  BY <1>1, <1>2, <1>3, <1>4, <1>5, <1>6, <1>7 DEF Steps, Hears, Takes

-----------------------------------------------------------------------------
(* Data goes to the end of the buffer, unless a relay takes it.            *)
LEMMA BufferedStep ==
  ASSUME MacInv, Sorts, Waits, Buffered, Steps
  PROVE  Buffered'
<1>1. ASSUME UNCHANGED <<buffer, shown, relaying>>
      PROVE  Buffered'
  BY <1>1 DEF Buffered
<1>2. CASE Idles \/ Takes \/ Settle \/ RunTimesOut
  <2>1. UNCHANGED <<buffer, shown, relaying>>
    BY <1>2, IdleFacts DEF Takes, Settle, RunTimesOut, DevData, console
  <2> QED
    BY <1>1, <2>1
<1>3. ASSUME NEW m \in toUs, OnData(m)
      PROVE  Buffered'
  <2> DEFINE k == m.counter
  <2>1. /\ relaying' = relaying /\ k \in Nat
        /\ Salted(k) \/ Draws(k) \/ Passes \/ Ends
    BY <1>3, HearsKinds
  <2>2. CASE Salted(k) \/ Passes \/ Ends
    BY <1>1, <2>1, <2>2 DEF Salted, Passes, Ends
  <2>3. CASE Draws(k) /\ relaying
    <3>1. buffer' = <<>>
      BY <2>3 DEF Draws, Buffered
    <3> QED
      BY <3>1 DEF Buffered
  <2>4. CASE Draws(k) /\ ~relaying
    <3>1. buffer' = Append(buffer, k) /\ shown' = Append(shown, k)
      BY <2>4 DEF Draws
    <3>2. buffer \in Seq(Nat) /\ shown \in Seq(Nat)
      BY TypesFacts DEF Sorts
    <3>3. /\ buffer'[Len(buffer')] = k /\ shown'[Len(shown')] = k /\ shown' # <<>>
      BY <2>1, <3>1, <3>2
    <3> QED
      BY <2>1, <2>4, <3>3 DEF Buffered
  <2> QED
    BY <2>1, <2>2, <2>3, <2>4
<1>4. CASE Attach \/ Type
  <2>1. buffer' = <<>>
    BY <1>4 DEF Attach, Type
  <2> QED
    BY <2>1 DEF Buffered
<1> QED
  BY <1>2, <1>3, <1>4 DEF Steps, Hears

-----------------------------------------------------------------------------
(* Each result is of its own command.                                      *)
Owner(r) == IF r = 1 THEN 1 ELSE typed[r - 1]

(* The buffer, the results and what they refer to stay.                    *)
LEMMA AnsweredKept ==
  ASSUME MacInv, Sorts, Answered,
         UNCHANGED <<buffer, results, cutShort, typed>>,
         Len(said') \in Nat, Len(said) <= Len(said'),
         \A i \in 1..Len(said) : said'[i] = said[i],
         ~relaying' /\ state' # "closed" =>
           Len(results) = IF state' = "ready" /\ ~waiting' THEN Len(typed) + 1 ELSE Len(typed)
  PROVE  Answered'
<1>0. Len(said) \in Nat /\ buffer \in Seq(Nat) /\ results \in Seq(Seq(Nat))
  BY TypesFacts DEF Sorts
<1>1. ASSUME NEW i \in 1..Len(buffer)
      PROVE  buffer[i] < Len(said')
  <2>1. buffer[i] \in Nat
    BY <1>0
  <2>2. buffer[i] < Len(said)
    BY DEF Answered
  <2> QED
    BY <1>0, <2>1, <2>2
<1>2. ASSUME NEW r \in 1..Len(results), NEW i \in 1..Len(results[r])
      PROVE  results[r][i] < Len(said') /\ said'[results[r][i] + 1] = said[results[r][i] + 1]
  <2>1. results[r] \in Seq(Nat)
    BY <1>0
  <2>2. results[r][i] \in Nat
    BY <2>1
  <2>3. results[r][i] < Len(said)
    BY DEF Answered
  <2>4. results[r][i] < Len(said') /\ results[r][i] + 1 \in 1..Len(said)
    <3>1. \A n, a, b \in Nat : n < a /\ a <= b => n < b /\ n + 1 \in 1..a
      OBVIOUS
    <3> QED
      BY <1>0, <2>2, <2>3, <3>1
  <2> QED
    BY <2>4
<1>3. OwnAnswer'
  BY <1>2 DEF Answered, OwnAnswer
<1> QED
  BY <1>1, <1>2, <1>3 DEF Answered

LEMMA AnsweredStep ==
  ASSUME MacInv, MacInv', Sorts, Staged, Waits, Spoken, Answered, Steps,
         ~relaying /\ ~cutShort => InTurn
  PROVE  Answered'
<1>0. /\ Len(said) \in Nat /\ buffer \in Seq(Nat) /\ Len(buffer) \in Nat
      /\ results \in Seq(Seq(Nat)) /\ Len(results) \in Nat
      /\ typed \in Seq(Nat) /\ Len(typed) \in Nat /\ Typed /\ state # "closed" /\ outCounter \in Nat
  <2>1. /\ Len(said) \in Nat /\ typed \in Seq(Nat) /\ Len(typed) \in Nat /\ Typed
        /\ outCounter \in Nat
    BY TypesFacts
  <2>2. /\ buffer \in Seq(Nat) /\ Len(buffer) \in Nat
        /\ results \in Seq(Seq(Nat)) /\ Len(results) \in Nat
    BY DEF Sorts
  <2> QED
    BY <2>1, <2>2 DEF Steps
<1>1. CASE Idles
  <2>1. UNCHANGED <<buffer, results, cutShort, typed, said, relaying>>
    BY <1>1, IdleFacts
  <2>2. ASSUME ~relaying', state' # "closed"
        PROVE  Len(results) = IF state' = "ready" /\ ~waiting' THEN Len(typed) + 1 ELSE Len(typed)
    <3>1. \/ UNCHANGED <<state, waiting>>
          \/ state # "ready" /\ state' # "ready"
      <4>1. StartSession => state # "ready" /\ state' # "ready"
        BY DEF StartSession
      <4>2. ASSUME NEW m \in toUs, OnAck(m)
            PROVE  UNCHANGED <<state, waiting>> \/ (state # "ready" /\ state' # "ready")
        BY <4>2 DEF OnAck, console
      <4>3. Tick => UNCHANGED <<state, waiting>>
        BY DEF Tick, console
      <4> QED
        BY <1>1, <2>2, <4>1, <4>2, <4>3, IdleFacts
    <3> QED
      BY <1>0, <2>1, <2>2, <3>1 DEF Answered
  <2> QED
    BY <1>0, <2>1, <2>2, AnsweredKept
<1>2. ASSUME NEW m \in toUs, OnData(m)
      PROVE  Answered'
  <2> DEFINE k == m.counter
  <2>1. /\ UNCHANGED <<results, cutShort, typed, said, relaying>> /\ k \in Nat /\ k < Len(said)
        /\ Salted(k) \/ Draws(k) \/ Passes \/ Ends
    BY <1>2, HearsKinds
  <2>2. CASE Salted(k) \/ Passes \/ Ends
    <3>1. buffer' = buffer
      BY <2>2 DEF Salted, Passes, Ends
    <3>2. state' = "closed" \/ ((state' = "ready") = (state = "ready") /\ (state' = "ready" => waiting' = waiting))
      BY <2>2 DEF Salted, Passes, Ends
    <3> QED
      BY <1>0, <2>1, <3>1, <3>2, AnsweredKept DEF Answered
  <2>3. CASE Draws(k)
    <3>1. /\ state' = "ready" /\ waiting' = waiting /\ (state = "ready" \/ state = "auth-complete")
          /\ buffer' = buffer \/ buffer' = Append(buffer, k)
      BY <2>3 DEF Draws
    <3>2. ~waiting => state = "ready"
      BY <3>1 DEF Waits
    <3>3. ~relaying' /\ state' # "closed" =>
            Len(results') = IF state' = "ready" /\ ~waiting' THEN Len(typed') + 1 ELSE Len(typed')
      BY <1>0, <2>1, <3>1, <3>2 DEF Answered
    <3>4. ASSUME NEW i \in 1..Len(buffer')
          PROVE  buffer'[i] < Len(said')
      <4>1. CASE i \in 1..Len(buffer)
        <5>1. buffer'[i] = buffer[i]
          <6>1. Append(buffer, k)[i] = buffer[i]
            BY <1>0, <2>1, <4>1
          <6> QED
            BY <3>1, <6>1
        <5> QED
          BY <2>1, <4>1, <5>1 DEF Answered
      <4>2. CASE i \notin 1..Len(buffer)
        <5>1. buffer'[i] = k
          BY <1>0, <2>1, <3>1, <3>4, <4>2
        <5> QED
          BY <2>1, <5>1
      <4> QED
        BY <4>1, <4>2
    <3>5. OwnAnswer'
      BY <2>1 DEF Answered, OwnAnswer
    <3> QED
      BY <2>1, <3>3, <3>4, <3>5 DEF Answered
  <2> QED
    BY <2>1, <2>2, <2>3
<1>3. ASSUME NEW m \in toDev, DevData(m)
      PROVE  Answered'
  <2>1. /\ UNCHANGED <<buffer, results, cutShort, typed, relaying, state, waiting>>
        /\ Len(said') \in Nat /\ Len(said) <= Len(said')
        /\ \A i \in 1..Len(said) : said'[i] = said[i]
    <3>1. CASE Acts(m.counter)
      BY <3>1 DEF Acts, console
    <3>2. CASE UNCHANGED <<state, console, said>>
      BY <1>0, <3>2 DEF console
    <3> QED
      BY <1>3, <3>1, <3>2, TakesKinds
  <2>2. ~relaying' /\ state' # "closed" =>
          Len(results) = IF state' = "ready" /\ ~waiting' THEN Len(typed) + 1 ELSE Len(typed)
    BY <2>1 DEF Answered
  <2> QED
    BY <2>1, <2>2, AnsweredKept
<1>4. CASE Settle
  <2>1. /\ UNCHANGED <<buffer, typed, said, relaying, state>> /\ state = "ready" /\ waiting /\ ~waiting'
        /\ results' = Append(results, buffer) /\ cutShort' = (cutShort \/ GoesOn)
    BY <1>4 DEF Settle, session, device
  <2>2. (~cutShort' => InTurn /\ ~cutShort) /\ Len(results) = Len(typed)
    BY <1>0, <2>1 DEF Waits, Answered
  <2>3. /\ Len(results') = Len(results) + 1
        /\ \A r \in 1..Len(results) : r \in 1..Len(results') /\ results'[r] = results[r]
        /\ \A r \in 1..Len(results') : r \notin 1..Len(results) =>
             r = Len(typed) + 1 /\ results'[r] = buffer
    <3>1. Len(results') = Len(results) + 1 /\ results'[Len(results) + 1] = buffer
      BY <1>0, <2>1
    <3>2. \A r \in 1..Len(results) : r \in 1..Len(results') /\ results'[r] = results[r]
      BY <1>0, <2>1
    <3>3. \A r \in 1..Len(results') : r \notin 1..Len(results) => r = Len(results) + 1
      BY <1>0, <3>1
    <3> QED
      BY <2>2, <3>1, <3>2, <3>3
  <2>4. Owner(Len(typed) + 1) = Turn
    <3>1. CASE typed = <<>>
      BY <1>0, <3>1 DEF Owner, Turn
    <3>2. CASE typed # <<>>
      <4>1. Len(typed) + 1 # 1 /\ (Len(typed) + 1) - 1 = Len(typed)
        BY <1>0, <3>2
      <4> QED
        BY <3>2, <4>1 DEF Owner, Turn
    <3> QED
      BY <3>1, <3>2
  <2>5. ASSUME NEW r \in 1..Len(results'), NEW i \in 1..Len(results'[r])
        PROVE  /\ results'[r][i] < Len(said)
               /\ ~cutShort' => said[results'[r][i] + 1].of = Owner(r)
    <3>1. CASE r \in 1..Len(results)
      BY <2>2, <2>3, <2>5, <3>1 DEF Answered, OwnAnswer, Owner
    <3>2. CASE r \notin 1..Len(results)
      <4>1. r = Len(typed) + 1 /\ results'[r] = buffer
        BY <2>3, <3>2
      <4>2. buffer[i] < Len(said) /\ (~cutShort' => said[buffer[i] + 1].of = Turn)
        BY <2>2, <2>5, <4>1 DEF Answered, InTurn
      <4> QED
        BY <2>4, <4>1, <4>2
    <3> QED
      BY <3>1, <3>2
  <2>6. OwnAnswer'
    BY <2>1, <2>5 DEF OwnAnswer, Owner
  <2>7. Len(results') = Len(typed) + 1
    BY <2>2, <2>3
  <2>8. \A i \in 1..Len(buffer') : buffer'[i] < Len(said')
    BY <2>1 DEF Answered
  <2> QED
    BY <1>0, <2>1, <2>5, <2>6, <2>7, <2>8 DEF Answered
<1>5. CASE Attach
  <2>1. UNCHANGED <<results, cutShort, typed, said>> /\ relaying' /\ buffer' = <<>> /\ Len(buffer') = 0
    BY <1>5 DEF Attach, device
  <2>2. OwnAnswer'
    BY <2>1 DEF Answered, OwnAnswer
  <2> QED
    BY <2>1, <2>2 DEF Answered
<1>6. CASE Type
  <2>1. /\ UNCHANGED <<said, results, cutShort, relaying, state>> /\ state = "ready" /\ ~waiting
        /\ typed' = Append(typed, outCounter) /\ waiting' = ~relaying
        /\ buffer' = <<>> /\ Len(buffer') = 0
    BY <1>6 DEF Type, MayType, device
  <2>2. /\ Len(typed') = Len(typed) + 1
        /\ \A i \in 1..Len(typed) : typed'[i] = typed[i]
    BY <1>0, <2>1, TypedFacts
  <2>3. ASSUME NEW r \in 1..Len(results)
        PROVE  Owner(r) = IF r = 1 THEN 1 ELSE typed'[r - 1]
    <3>1. Len(results) <= Len(typed) + 1
      BY DEF Answered
    <3>2. r = 1 \/ r - 1 \in 1..Len(typed)
      BY <1>0, <3>1
    <3> QED
      BY <2>2, <3>2 DEF Owner
  <2>4. OwnAnswer'
    <3>1. ASSUME NEW r \in 1..Len(results), NEW i \in 1..Len(results[r]), ~cutShort
          PROVE  said[results[r][i] + 1].of = IF r = 1 THEN 1 ELSE typed'[r - 1]
      <4>1. said[results[r][i] + 1].of = Owner(r)
        BY <3>1 DEF Answered, OwnAnswer, Owner
      <4> QED
        BY <2>3, <4>1
    <3>2. UNCHANGED <<said, results, cutShort>>
      BY <2>1
    <3> QED
      BY <3>1, <3>2 DEF OwnAnswer
  <2>5. ~relaying' => Len(results) = Len(typed') /\ waiting'
    BY <1>0, <2>1, <2>2 DEF Answered
  <2>6. Len(results') <= Len(typed') + 1
    <3>1. Len(results) <= Len(typed) + 1
      BY DEF Answered
    <3> QED
      BY <1>0, <2>1, <2>2, <3>1
  <2> QED
    BY <2>1, <2>4, <2>5, <2>6 DEF Answered
<1>7. CASE RunTimesOut
  <2>1. /\ UNCHANGED <<buffer, typed, said, relaying, state>> /\ state = "ready" /\ waiting /\ ~waiting'
        /\ results' = Append(results, <<>>) /\ cutShort'
    <3>1. /\ UNCHANGED <<buffer, typed, said, relaying, state>> /\ waiting /\ ~waiting'
          /\ results' = Append(results, <<>>) /\ cutShort' /\ results # <<>>
      BY <1>7 DEF RunTimesOut, Opened, session, device
    <3>2. state = "ready"
      BY <1>0, <3>1 DEF Waits
    <3> QED
      BY <3>1, <3>2
  <2>2. ~relaying /\ Len(results) = Len(typed)
    BY <1>0, <2>1 DEF Waits, Answered
  <2>3. /\ Len(results') = Len(typed) + 1
        /\ \A r \in 1..Len(results') : IF r \in 1..Len(results) THEN results'[r] = results[r]
                                        ELSE results'[r] = <<>>
    BY <1>0, <2>1, <2>2
  <2>4. ASSUME NEW r \in 1..Len(results'), NEW i \in 1..Len(results'[r])
        PROVE  results'[r][i] < Len(said')
    <3>1. Len(<<>>) = 0
      OBVIOUS
    <3> QED
      BY <2>1, <2>3, <2>4, <3>1 DEF Answered
  <2>5. OwnAnswer'
    BY <2>1 DEF OwnAnswer
  <2>6. \A i \in 1..Len(buffer') : buffer'[i] < Len(said')
    BY <2>1 DEF Answered
  <2> QED
    BY <1>0, <2>1, <2>3, <2>4, <2>5, <2>6 DEF Answered
<1> QED
  BY <1>1, <1>2, <1>3, <1>4, <1>5, <1>6, <1>7 DEF Steps, Hears, Takes

-----------------------------------------------------------------------------
LEMMA TurnStarts == MacInit => TurnInv
<1> SUFFICES ASSUME MacInit PROVE TurnInv
  OBVIOUS
<1>0. /\ Len(<<>>) = 0 /\ setup.faults \in Nat /\ setup.inputs \in Nat /\ Tries \in Nat
      /\ setup \in Setups
  BY MacTelnetConstants DEF MacInit
<1>1. Sorts
  <2>1. pending.attempts <= Tries
    BY <1>0 DEF MacInit, Nothing
  <2>2. buffer \in Seq(Nat) /\ results \in Seq(Seq(Nat))
    BY DEF MacInit
  <2>3. maxOutAck \in Nat \cup {-1} /\ faults \in 0..setup.faults
    BY <1>0 DEF MacInit
  <2>4. /\ waiting \in BOOLEAN /\ relaying \in BOOLEAN /\ cutShort \in BOOLEAN
        /\ error \in {"none", "auth", "refused", "closed", "timeout"}
    BY DEF MacInit
  <2> QED
    BY <2>1, <2>2, <2>3, <2>4 DEF Sorts
<1>2. Counted
  BY DEF MacInit, Counted, Nothing
<1>3. Staged
  BY <1>0 DEF MacInit, Staged, Answers
<1>4. Waits
  BY DEF MacInit, Waits
<1>5. Spoken
  BY <1>0 DEF MacInit, Spoken
<1>6. InTurn
  BY <1>0 DEF MacInit, InTurn, Turn
<1>7. Answered
  BY <1>0 DEF MacInit, Answered, OwnAnswer
<1>8. Buffered
  BY DEF MacInit, Buffered
<1> QED
  BY <1>1, <1>2, <1>3, <1>4, <1>5, <1>6, <1>7, <1>8 DEF TurnInv

LEMMA TurnStutters ==
  ASSUME TurnInv, UNCHANGED macVars
  PROVE  TurnInv'
<1>1. /\ UNCHANGED <<setup, state, outCounter, lastIn, maxOutAck, pending, buffer, waiting, relaying>>
      /\ UNCHANGED <<results, cutShort, error, typed, shown, dev, dIn, took, said, dAcked, toDev, toUs, faults>>
  BY DEF macVars, session, console, device
<1>2. Sorts' /\ Counted'
  BY <1>1 DEF TurnInv, Sorts, Counted
<1>3. Staged' /\ Waits'
  BY <1>1 DEF TurnInv, Staged, Waits, Probed
<1>4. Spoken'
  BY <1>1 DEF TurnInv, Spoken, Own, Took
<1>5. ~relaying' /\ ~cutShort' => InTurn'
  BY <1>1 DEF TurnInv, InTurn, Turn, Own, Took
<1>6. Answered' /\ Buffered'
  BY <1>1 DEF TurnInv, Answered, OwnAnswer, Buffered
<1> QED
  BY <1>2, <1>3, <1>4, <1>5, <1>6 DEF TurnInv

LEMMA TurnStep ==
  ASSUME MacInv, MacInv', TurnInv, Steps
  PROVE  TurnInv'
<1>1. Sorts' /\ Counted'
  BY SortsStep, CountedStep DEF TurnInv
<1>2. Staged' /\ Waits'
  BY StagedStep, WaitsStep DEF TurnInv
<1>3. Spoken' /\ (~relaying' /\ ~cutShort' => InTurn')
  BY SpokenStep, InTurnStep DEF TurnInv
<1>4. Answered' /\ Buffered'
  BY AnsweredStep, BufferedStep DEF TurnInv
<1> QED
  BY <1>1, <1>2, <1>3, <1>4 DEF TurnInv

(* In every reachable state the commands have taken turns, whatever the
   network does, unless a wait was cut short.                              *)
THEOREM TurnInvariant == MacSpec => []TurnInv
<1>1. MacInit => TurnInv
  BY TurnStarts
<1>2. MacInv /\ MacInv' /\ TurnInv /\ [MacNext]_macVars => TurnInv'
  BY StepKinds, TurnStutters, TurnStep
<1> QED
  BY <1>1, <1>2, MacInvariant, PTL DEF MacSpec

(* The counters of mac-telnet.ts stay ordered: what is acknowledged was taken,
   what was taken was sent, a pending frame awaits an acknowledgement that has
   not come, and a closed session has none to send again and none that waits. *)
THEOREM MacTypes == MacSpec => []MacTypeOK
<1>1. MacInv /\ TurnInv => MacTypeOK
  <2> SUFFICES ASSUME MacInv, TurnInv PROVE MacTypeOK
    OBVIOUS
  <2>1. /\ Typed /\ Honest /\ Sorts /\ Counted /\ Staged /\ Waits
    BY DEF MacInv, TurnInv
  <2>2. /\ setup.inputs \in Nat /\ Tries \in Nat /\ Answers = 2
    BY <2>1, SetupFacts DEF Answers
  <2>3. /\ outCounter \in Nat /\ Len(typed) \in Nat /\ pending.target \in Nat \cup {-1}
        /\ pending.attempts \in Nat /\ setup \in Setups /\ state \in States
    BY <2>1 DEF Typed
  <2>4. outCounter <= 2 + Len(typed) + (IF Probed THEN Answers ELSE 0) /\ Len(typed) <= setup.inputs
    BY <2>1 DEF Staged
  <2>5. outCounter <= Len(typed) + 2 + Answers /\ outCounter \in 0..LastCounter
    BY <2>2, <2>3, <2>4 DEF LastCounter
  <2>6. /\ dIn <= outCounter /\ maxOutAck <= dIn
        /\ pending.target > maxOutAck \/ pending = Nothing
        /\ pending.target <= outCounter
    BY <2>1 DEF Counted
  <2>7. pending.target \in -1..outCounter
    BY <2>3, <2>6
  <2>8. pending.attempts \in 0..Tries
    BY <2>1, <2>2, <2>3 DEF Sorts
  <2>9. lastIn < Len(said) /\ dAcked <= lastIn + 1 /\ lastAck <= lastIn + 1
    BY <2>1 DEF Honest
  <2>10. /\ state = "closed" => pending = Nothing
         /\ waiting => state # "closed"
         /\ relaying => setup.relay /\ ~waiting
    BY <2>1 DEF Waits
  <2>11. /\ error \in {"none", "auth", "refused", "closed", "timeout"}
         /\ cutShort \in BOOLEAN /\ faults \in 0..setup.faults
    BY <2>1 DEF Sorts
  <2> QED
    BY <2>3, <2>4, <2>5, <2>6, <2>7, <2>8, <2>9, <2>10, <2>11 DEF MacTypeOK
<1> QED
  BY <1>1, MacInvariant, TurnInvariant, PTL

(* A command is never passed over, although sendData forgets an unanswered
   frame for the next one: while a run waits for the prompt before it types and
   none was cut short, all that went before has been acted upon.           *)
THEOREM MacSkipsNothing == MacSpec => []NothingSkipped
<1>1. MacInv /\ TurnInv => NothingSkipped
  <2> SUFFICES ASSUME MacInv, TurnInv, ~relaying, ~cutShort, NEW f \in Own, f < dIn
      PROVE  Took(f)
    BY DEF NothingSkipped, Own, Took, TookIn
  <2>1. Counted /\ Staged /\ Waits /\ Spoken /\ InTurn
    BY DEF TurnInv
  <2>2. dIn \in Nat /\ outCounter \in Nat /\ dIn <= outCounter /\ f \in Nat
    <3>1. typed \in Seq(Nat) /\ dIn \in Nat /\ outCounter \in Nat
      BY DEF MacInv, Typed
    <3>2. f \in Nat
      BY <3>1 DEF Own
    <3> QED
      BY <2>1, <3>1, <3>2 DEF Counted
  <2>3. /\ Turn \in Nat
        /\ typed = <<>> => Turn = 1 /\ Own = {0, 1}
        /\ typed # <<>> => Turn < outCounter
    BY <2>1, TurnFacts
  <2>4. dIn = 0 \/ Took(dIn - 1)
    BY <2>1 DEF Spoken
  <2>5. CASE Turn < outCounter /\ f # Turn
    BY <2>1, <2>5 DEF InTurn
  <2>6. CASE Turn < outCounter /\ f = Turn
    <3>1. Took(Turn) \/ outCounter = Turn + 1
      BY <2>1, <2>6 DEF InTurn
    <3>2. CASE outCounter = Turn + 1
      <4>1. dIn - 1 = f /\ dIn # 0
        BY <2>2, <2>3, <2>6, <3>2
      <4> QED
        BY <2>4, <4>1
    <3> QED
      BY <2>6, <3>1, <3>2
  <2>7. CASE ~(Turn < outCounter)
    <3>1. Turn = 1 /\ outCounter <= 1
      BY <2>2, <2>3, <2>7
    <3>2. dIn - 1 = f /\ dIn # 0
      BY <2>2, <3>1
    <3> QED
      BY <2>4, <3>2
  <2> QED
    BY <2>5, <2>6, <2>7
<1> QED
  BY <1>1, MacInvariant, TurnInvariant, PTL

(* What a run returns is what the device said to its own command (waitFor,
   run), if each wait so far ended with nothing of its answer still to come:
   none by its timeout, and none by a pause longer than settleMs in mid-answer.
   The console does not make sure of that, and without it this is false.   *)
THEOREM MacAnswersOwn == MacSpec => []OwnAnswer
<1>1. TurnInv => OwnAnswer
  BY DEF TurnInv, Answered
<1> QED
  BY <1>1, TurnInvariant, PTL
=============================================================================
