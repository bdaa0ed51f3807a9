------------------------------ MODULE MacTelnet ------------------------------
(***************************************************************************)
(* MAC-Telnet (src/protocols/mac-telnet.ts) and the console that drives it *)
(* (mac-telnet-console.ts): a terminal session over datagrams that may be  *)
(* lost, duplicated or overtaken.  Each side numbers what it sends by a    *)
(* byte counter; a frame is sent again until its end is acknowledged, and  *)
(* taken only when its counter advances.                                   *)
(*                                                                         *)
(* All payloads have one unit of length, and what the client has to send   *)
(* is numbered: BEGINAUTH is 0, the credentials are 1, then the inputs and *)
(* the answers to the device's questions about the terminal.               *)
(***************************************************************************)
EXTENDS Integers, Sequences, FiniteSets

CONSTANTS
  Setups,     \* how the console is used, and over what
  Tries       \* length of MAC_TELNET_RETRANSMIT_SCHEDULE_MS

(* relay: the caller attaches a terminal once the console is open, or runs one
   command at a time.  The device: how many frames it sends ahead of its
   acknowledgements, whether it asks for the size of the terminal, and shows
   its license.  And the bounds: inputs, datagrams lost or duplicated.      *)
ASSUME MacTelnetConstants ==
  /\ Setups \subseteq [relay : BOOLEAN, window : Nat \ {0}, probe : BOOLEAN,
                      license : BOOLEAN, inputs : Nat, faults : Nat]
  /\ Tries \in Nat \ {0}

VARIABLES
  setup,
  \* MacTelnetSession
  state,      \* SessionState
  outCounter, \* frames sent
  lastIn,     \* lastInCounter, -1 for null
  lastAck,    \* lastAckCounter
  maxOutAck,
  pending,    \* the last frame sent and its acknowledgement; target -1 for none
  \* MacTelnetConsole
  buffer,     \* frames shown since the buffer was reset
  waiting,    \* a waiter waits for the prompt
  relaying,   \* outputSink is set
  results,    \* what each wait returned; nothing if it timed out
  cutShort,   \* history: a wait ended before its answer did
  error,      \* "none", or why the session closed
  typed,      \* history: the frames of the inputs
  shown,      \* history: the counters of the terminal data shown
  \* the device (external)
  login,      \* what it makes of the credentials
  dev,        \* "idle", "up" or "over"
  dIn,        \* the counter it expects
  took,       \* history: the frames it acted upon
  said,       \* the frames it has to say, in order
  dAcked,     \* how many of them were acknowledged
  \* the network (external)
  toDev, toUs,
  faults

window == setup.window
Answers == 2  \* to one question: the size and the kind of the terminal
LastCounter == setup.inputs + 2 + Answers

session == <<state, outCounter, lastIn, lastAck, maxOutAck, pending>>
console == <<buffer, waiting, relaying, results, cutShort, error, typed, shown>>
device == <<login, dev, dIn, took, said, dAcked>>
macVars == <<setup, session, console, device, toDev, toUs, faults>>

States == {"init", "session-start-sent", "auth-begin-sent", "auth-sent",
           "auth-complete", "ready", "closed"}

Nothing == [target |-> -1, what |-> -1, attempts |-> 0]

Larger(a, b) == IF a >= b THEN a ELSE b

(* A frame of terminal data; the frames before the first input answer frame 1. *)
Terminal(k) == said[k + 1].is \in {"text", "prompt", "failed", "probe", "license"}

MacTypeOK ==
  /\ setup \in Setups
  /\ state \in States
  /\ outCounter \in 0..LastCounter
  /\ dIn <= outCounter /\ maxOutAck <= dIn
  /\ lastIn < Len(said) /\ dAcked <= lastIn + 1 /\ lastAck <= lastIn + 1
  /\ pending.target \in -1..outCounter /\ pending.attempts \in 0..Tries
  /\ pending.target > maxOutAck \/ pending = Nothing
  /\ state = "closed" => pending = Nothing
  /\ waiting => state # "closed"
  /\ relaying => setup.relay /\ ~waiting
  /\ error \in {"none", "auth", "refused", "closed", "timeout"}
  /\ Len(typed) <= setup.inputs /\ outCounter <= Len(typed) + 2 + Answers
  /\ cutShort \in BOOLEAN /\ faults \in 0..setup.faults

MacInit ==
  /\ setup \in Setups
  /\ state = "init" /\ outCounter = 0
  /\ lastIn = -1 /\ lastAck = 0 /\ maxOutAck = -1
  /\ pending = Nothing
  /\ buffer = <<>> /\ waiting = FALSE /\ relaying = FALSE /\ results = <<>>
  /\ cutShort = FALSE /\ error = "none" /\ typed = <<>> /\ shown = <<>>
  /\ login \in {"accepted", "refused", "error", "unsupported"}
  /\ dev = "idle" /\ dIn = 0 /\ took = <<>> /\ said = <<>> /\ dAcked = 0
  /\ toDev = {} /\ toUs = {} /\ faults = 0

-----------------------------------------------------------------------------
(* The network hands over a message; it may keep a copy, or lose it.       *)
Receive(net, m) ==
  /\ m \in net
  /\ \/ net' = net \ {m} /\ UNCHANGED faults
     \/ faults < setup.faults /\ faults' = faults + 1 /\ UNCHANGED net

Lose ==
  /\ faults < setup.faults
  /\ faults' = faults + 1
  /\ \/ \E m \in toDev : toDev' = toDev \ {m} /\ UNCHANGED toUs
     \/ \E m \in toUs : toUs' = toUs \ {m} /\ UNCHANGED toDev
  /\ UNCHANGED <<setup, session, console, device>>

Ack(c) == [type |-> "ack", counter |-> c]

(* An acknowledgement of what its reader has seen acknowledged changes nothing,
   and is left out, or is forgotten once overtaken.                        *)
WithAck(net, c, seen) == IF c > seen THEN net \cup {Ack(c)} ELSE net

Unseen(net, seen) == {m \in net : m.type = "ack" => m.counter > seen}

Data(c, w) == [type |-> "data", counter |-> c, what |-> w]
Start == [type |-> "start", counter |-> 0]
End == [type |-> "end", counter |-> 0]

-----------------------------------------------------------------------------
(* start, from open, which then waits for the prompt                       *)
StartSession ==
  /\ state = "init"
  /\ state' = "session-start-sent"
  /\ toDev' = toDev \cup {Start}
  /\ pending' = [target |-> 0, what |-> -1, attempts |-> 0]
  /\ waiting' = TRUE
  /\ UNCHANGED <<setup, outCounter, lastIn, lastAck, maxOutAck, buffer, relaying,
                 results, cutShort, error, typed, shown, device, toUs, faults>>

(* sendData, n times: the last frame takes the place of the pending one.   *)
SendData(n) ==
  /\ outCounter' = outCounter + n
  /\ pending' = IF n = 0 THEN pending
                ELSE [target |-> outCounter + n, what |-> outCounter + n - 1,
                      attempts |-> 0]

Frames(n) == {Data(outCounter + i, outCounter + i) : i \in 0..n - 1}

(* Mutant: the timer still has a frame to send.                            *)
CloseAskew(why) ==
  /\ state' = "closed"
  /\ error' = why
  /\ waiting' = FALSE
  /\ UNCHANGED pending

(* close, with the console's onClose: whoever waits is told.               *)
Close(why) ==
  /\ state' = "closed"
  /\ pending' = Nothing
  /\ error' = why
  /\ waiting' = FALSE

(* onAck                                                                   *)
OnAck(m) ==
  /\ m.type = "ack" /\ m \in toUs
  /\ maxOutAck' = Larger(maxOutAck, m.counter)
  /\ toUs' = Unseen(toUs, maxOutAck')
  /\ IF state = "session-start-sent"
     THEN /\ SendData(1)
          /\ toDev' = toDev \cup Frames(1)
          /\ state' = "auth-begin-sent"
     ELSE /\ pending' = IF maxOutAck' >= pending.target THEN Nothing ELSE pending
          /\ UNCHANGED <<outCounter, state, toDev>>
  /\ UNCHANGED <<setup, lastIn, lastAck, console, device, faults>>

(* Mutant: a frame that does not advance is delivered again.               *)
AdvancesLoosely(k) == k >= lastIn

(* acceptCounter                                                           *)
Advances(k) == k > lastIn

(* handleTerminalData and the console's onData: a question about the terminal
   is answered by two frames at once, and a relay passes the bytes on.     *)
Asked(k) == IF said[k + 1].is = "probe" THEN Answers ELSE 0

Show(k) ==
  /\ SendData(Asked(k))
  /\ shown' = Append(shown, k)
  /\ buffer' = IF relaying THEN buffer ELSE Append(buffer, k)

(* Mutant: END_AUTH already means that the login succeeded.                *)
AfterEndAuthReady == "ready"

(* endAuth does not confirm the login.                                     *)
AfterEndAuth == "auth-complete"

(* onData: always acknowledged, delivered when it advances.                *)
OnData(m) ==
  LET k == m.counter
      acked == WithAck(toDev, k + 1, dAcked)
  IN
  /\ m.type = "data"
  /\ Receive(toUs, m)
  /\ lastAck' = k + 1
  /\ lastIn' = IF Advances(k) THEN k ELSE lastIn
  /\ \/ /\ Advances(k) /\ said[k + 1].is = "salt" /\ state = "auth-begin-sent"
        /\ SendData(1)
        /\ toDev' = acked \cup Frames(1)
        /\ state' = "auth-sent"
        /\ UNCHANGED <<buffer, waiting, error, shown>>
     \/ /\ Advances(k) /\ said[k + 1].is = "endAuth" /\ state = "auth-sent"
        /\ state' = AfterEndAuth
        /\ toDev' = acked
        /\ UNCHANGED <<outCounter, pending, buffer, waiting, error, shown>>
     \/ /\ Advances(k)
        /\ \/ said[k + 1].is = "error"
           \/ said[k + 1].is = "oddSalt" /\ state = "auth-begin-sent"
        /\ Close("refused")
        /\ toDev' = acked
        /\ UNCHANGED <<outCounter, buffer, shown>>
     \/ /\ Advances(k) /\ said[k + 1].is = "failed" /\ state = "auth-complete"
        /\ Close("auth")
        /\ toDev' = acked
        /\ UNCHANGED <<outCounter, buffer, shown>>
     \/ /\ Advances(k) /\ Terminal(k)
        /\ \/ state = "ready"
           \/ state = "auth-complete" /\ said[k + 1].is # "failed"
        /\ state' = "ready"
        /\ Show(k)
        /\ toDev' = acked \cup Frames(Asked(k))
        /\ UNCHANGED <<waiting, error>>
     \/ /\ \/ ~Advances(k)
           \/ said[k + 1].is \in {"salt", "oddSalt"} /\ state # "auth-begin-sent"
           \/ said[k + 1].is = "endAuth" /\ state # "auth-sent"
           \/ Terminal(k) /\ state \notin {"auth-complete", "ready"}
        /\ toDev' = acked
        /\ UNCHANGED <<outCounter, pending, state, buffer, waiting, error, shown>>
  /\ UNCHANGED <<setup, maxOutAck, relaying, results, cutShort, typed, device>>

(* onEnd: right after END_AUTH it means a refused login.         *)
OnEnd(m) ==
  /\ m.type = "end"
  /\ Receive(toUs, m)
  /\ Close(IF state = "auth-complete" THEN "auth" ELSE "closed")
  /\ UNCHANGED <<setup, outCounter, lastIn, lastAck, maxOutAck, buffer, relaying,
                 results, cutShort, typed, shown, device, toDev>>

(* A frame, or its acknowledgement, is on its way: to send it again now is
   left to the network's duplicates.                                       *)
Underway(frame, there, end, back) ==
  \/ frame \in there
  \/ \E m \in back : m.type = "ack" /\ m.counter >= end

(* tick: the pending frame again, while the schedule lasts.                *)
PendingFrame == IF pending.target = 0 THEN Start ELSE Data(pending.target - 1, pending.what)

(* Mutant: a retry is numbered as new data.                                *)
TickAnew ==
  /\ pending # Nothing /\ pending.attempts < Tries
  /\ pending.target > 0 /\ outCounter < Len(typed) + 2 + Answers
  /\ pending' = [pending EXCEPT !.target = outCounter + 1, !.attempts = @ + 1]
  /\ outCounter' = outCounter + 1
  /\ toDev' = toDev \cup {Data(outCounter, pending.what)}
  /\ UNCHANGED <<setup, state, lastIn, lastAck, maxOutAck, console, device,
                 toUs, faults>>

(* Mutant: no retries.                                                     *)
TickNever == FALSE /\ UNCHANGED macVars

Tick ==
  /\ pending # Nothing /\ pending.attempts < Tries
  /\ ~Underway(PendingFrame, toDev, pending.target, toUs)
  /\ pending' = [pending EXCEPT !.attempts = @ + 1]
  /\ toDev' = toDev \cup {PendingFrame}
  /\ UNCHANGED <<setup, state, outCounter, lastIn, lastAck, maxOutAck,
                 console, device, toUs, faults>>

(* sendKeepalive, when nothing happened for a while.                       *)
Keepalive ==
  /\ state # "init"
  /\ toDev' = WithAck(toDev, lastAck, dAcked)
  /\ UNCHANGED <<setup, session, console, device, toUs, faults>>

-----------------------------------------------------------------------------
(* The console.  waitFor: the predicate has held for settleMs without data.
   Nothing tells how long the device, or the network, pauses between two frames:
   the timer may fire whenever the predicate holds.                        *)
Last == said[buffer[Len(buffer)] + 1]

EndsWithPrompt == buffer # <<>> /\ Last.is = "prompt"

(* What open waits for first may also be the license screen.               *)
Expected ==
  \/ EndsWithPrompt
  \/ results = <<>> /\ \E i \in 1..Len(buffer) : said[buffer[i] + 1].is = "license"

(* The answer that the buffer ends with has frames that were not shown.    *)
GoesOn == \E k \in buffer[Len(buffer)] + 2..Len(said) : said[k].of = Last.of

Settle ==
  /\ waiting /\ state = "ready" /\ Expected
  /\ waiting' = FALSE
  /\ results' = Append(results, buffer)
  /\ cutShort' = (cutShort \/ GoesOn)
  /\ UNCHANGED <<setup, session, buffer, relaying, error, typed, shown, device,
                 toDev, toUs, faults>>

(* Mutant: the next command does not wait for the prompt.                  *)
MayTypeAhead == state = "ready"

(* open has seen the banner, the license and a clean prompt.               *)
Opened == Len(results) >= IF setup.license THEN 3 ELSE 2

(* attachInteractive: keystrokes from here on, and no more waiting.        *)
Attach ==
  /\ setup.relay /\ ~relaying /\ Opened /\ ~waiting
  /\ relaying' = TRUE
  /\ buffer' = <<>>
  /\ UNCHANGED <<setup, session, waiting, results, cutShort, error, typed, shown, device,
                 toDev, toUs, faults>>

(* open and run write after the prompt; write, the relay's, at any time.   *)
MayType == state = "ready" /\ ~waiting

Type ==
  /\ MayType /\ Len(typed) < setup.inputs
  /\ setup.relay /\ Opened => relaying
  /\ SendData(1)
  /\ toDev' = toDev \cup Frames(1)
  /\ typed' = Append(typed, outCounter)
  /\ buffer' = <<>>
  /\ waiting' = ~relaying
  /\ UNCHANGED <<setup, state, lastIn, lastAck, maxOutAck, relaying, results,
                 cutShort, error, shown, device, toUs, faults>>

(* The timeout of waitReady or waitFor.  It fails open, and the adapter closes;
   or it fails a run, and the console is left as it is, to be used again.  *)
OpenTimesOut ==
  /\ waiting /\ ~Opened
  /\ Close("timeout")
  /\ UNCHANGED <<setup, outCounter, lastIn, lastAck, maxOutAck, buffer, relaying,
                 results, cutShort, typed, shown, device, toDev, toUs, faults>>

RunTimesOut ==
  /\ waiting /\ Opened
  /\ waiting' = FALSE
  /\ results' = Append(results, <<>>)
  /\ cutShort' = TRUE
  /\ UNCHANGED <<setup, session, buffer, relaying, error, typed, shown, device,
                 toDev, toUs, faults>>

(* close, by the caller, who is done or gives up.                          *)
CallerCloses ==
  /\ state # "init"
  /\ Close("none")
  /\ UNCHANGED <<setup, outCounter, lastIn, lastAck, maxOutAck, buffer, relaying,
                 results, cutShort, typed, shown, device, toDev, toUs, faults>>

-----------------------------------------------------------------------------
(* The device (external): it acknowledges all it gets, and acts on a frame
   whose counter advances.                                                 *)
DevStart(m) ==
  /\ m.type = "start" /\ dev # "over"
  /\ Receive(toDev, m)
  /\ dev' = "up"
  /\ toUs' = WithAck(toUs, 0, maxOutAck)
  /\ UNCHANGED <<setup, session, console, login, dIn, took, said, dAcked>>

(* What the device says to a frame.  The first prompt is drawn twice.      *)
Saying(c, what) == [n \in 1..Len(what) |-> [is |-> what[n], of |-> c]]

Banner == (IF setup.probe THEN <<"probe">> ELSE <<>>)
          \o (IF setup.license THEN <<"license">> ELSE <<"prompt", "prompt">>)

Replies(c) ==
  Saying(c,
    CASE c = 0 -> IF login = "unsupported" THEN <<"oddSalt">> ELSE <<"salt">>
      [] c = 1 -> CASE login = "accepted" -> <<"endAuth">> \o Banner
                    [] login = "refused" -> <<"endAuth", "failed">>
                    [] OTHER -> <<"error">>
      [] c > 1 -> IF \E i \in 1..Len(typed) : typed[i] = c THEN <<"text", "prompt">>
                  ELSE <<>>)

DevData(m) ==
  /\ m.type = "data" /\ dev = "up"
  /\ Receive(toDev, m)
  /\ toUs' = WithAck(toUs, m.counter + 1, maxOutAck)
  /\ IF m.counter >= dIn
     THEN /\ dIn' = m.counter + 1
          /\ took' = Append(took, m.what)
          /\ said' = said \o Replies(m.what)
     ELSE UNCHANGED <<dIn, took, said>>
  /\ UNCHANGED <<setup, session, console, login, dev, dAcked>>

DevAck(m) ==
  /\ m.type = "ack" /\ m \in toDev /\ dev = "up"
  /\ dAcked' = Larger(dAcked, m.counter)
  /\ toDev' = Unseen(toDev, dAcked')
  /\ UNCHANGED <<setup, session, console, login, dev, dIn, took, said,
                 toUs, faults>>

DevSend(k) ==
  /\ dev = "up" /\ dAcked <= k /\ k < dAcked + window /\ k < Len(said)
  /\ ~Underway(Data(k, k), toUs, k + 1, toDev)
  /\ toUs' = toUs \cup {Data(k, k)}
  /\ UNCHANGED <<setup, session, console, device, toDev, faults>>

DevSends == \E k \in 0..Len(said) - 1 : DevSend(k)

(* After a refused login, or on its own account.                           *)
DevEnds ==
  /\ dev = "up"
  /\ dev' = "over"
  /\ toUs' = toUs \cup {End}
  /\ UNCHANGED <<setup, session, console, login, dIn, took, said, dAcked,
                 toDev, faults>>

Deliver ==
  \/ \E m \in toUs : OnAck(m) \/ OnData(m) \/ OnEnd(m)
  \/ \E m \in toDev : DevStart(m) \/ DevData(m) \/ DevAck(m)

(* A closed session ignores all it gets, and END tells the device so.      *)
MacNext ==
  /\ state # "closed"
  /\ \/ StartSession \/ Deliver \/ Lose
     \/ Tick \/ Keepalive \/ Settle \/ Attach \/ Type
     \/ OpenTimesOut \/ RunTimesOut \/ CallerCloses
     \/ DevSends
     \/ DevEnds

MacSpec == MacInit /\ [][MacNext]_macVars

(* What is on its way arrives or is lost, the retries run, the device sends. *)
MacLiveSpec ==
  /\ MacSpec
  /\ WF_macVars(StartSession) /\ WF_macVars(state # "closed" /\ Deliver)
  /\ WF_macVars(state # "closed" /\ Tick)
  /\ WF_macVars(state # "closed" /\ DevSends)

-----------------------------------------------------------------------------
Increasing(s) == \A i \in 1..Len(s) - 1 : s[i] < s[i + 1]

(* However often a frame is sent, the device acts on it once, and never on
   one that was sent before another it acted on.                           *)
ExecutedOnce == Increasing(took)

(* The reader sees each frame of output once, in the order it was said; and
   without a gap from a device that awaits its acknowledgements.           *)
ShownOnce ==
  /\ Increasing(shown)
  /\ window = 1 => \A i \in 1..Len(shown) - 1 : shown[i + 1] = shown[i] + 1

(* The session is ready only if the device accepted the login.             *)
LoginVerdict == state = "ready" => login = "accepted"

(* One command at a time: none is skipped, whatever the network loses and
   although the answers to the device's questions take the place of the frame
   to be sent again, each other's too.  A console that is used again after a
   wait was cut short may lose what it typed before.                       *)
NothingSkipped ==
  ~relaying /\ ~cutShort =>
    \A f \in {0, 1} \cup {typed[i] : i \in 1..Len(typed)} :
      f < dIn => \E i \in 1..Len(took) : took[i] = f

(* Each run returns the output of its own command (the first result is what
   open saw), and none before the device has acted on it, as long as no wait was
   cut short: by its timeout, or by a pause longer than settleMs in mid-answer. *)
OwnAnswer ==
  ~cutShort =>
    \A r \in 1..Len(results) : \A i \in 1..Len(results[r]) :
      said[results[r][i] + 1].of = IF r = 1 THEN 1 ELSE typed[r - 1]

(* The device catches up with all that was sent, given fewer faults than tries. *)
InputLands ==
  (~setup.relay /\ dIn < outCounter) ~> (dIn = outCounter \/ state = "closed" \/ dev = "over")
=============================================================================
