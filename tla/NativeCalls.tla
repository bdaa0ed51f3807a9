---------------------------- MODULE NativeCalls ----------------------------
(***************************************************************************)
(* What NativeApiSession promises its callers (src/protocols/native-api.ts)*)
(* : each call has the router to itself.  A talk gets all the rows of its  *)
(* own command or an error, a stream gets them one by one in order, and    *)
(* neither is told a success the router did not report.                    *)
(***************************************************************************)
EXTENDS Naturals, Sequences

CONSTANTS
  Talk,   \* calls of talk(): one answer
  Stream  \* calls of listen(): an async generator

Call == Talk \cup Stream

VARIABLES
  rows,     \* [Call -> rows the router has sent in answer]
  verdict,  \* [Call -> how the router ended the command]
  got,      \* [Call -> the rows handed to the caller]
  answer,   \* [Call -> how the call ended for its caller]
  gone      \* the connection has ended

callsVars == <<rows, verdict, got, answer, gone>>

CallsInit ==
  /\ rows = [c \in Call |-> 0]
  /\ verdict = [c \in Call |-> "none"]
  /\ got = [c \in Call |-> <<>>]
  /\ answer = [c \in Call |-> "idle"]
  /\ gone = FALSE

(* The n rows of a command, in order.                                      *)
RowsOf(c, n) == [i \in 1..n |-> <<c, i>>]

(* A call goes out, or is turned away at once.                             *)
Ask(c) ==
  /\ answer[c] = "idle"
  /\ \E how \in {"open", "failed", "left"} : answer' = [answer EXCEPT ![c] = how]
  /\ UNCHANGED <<rows, verdict, got, gone>>

(* The router sends a row, or ends the command, at most with one row more. *)
Serve(c) ==
  /\ answer[c] # "idle"
  /\ verdict[c] = "none"
  /\ rows' = [rows EXCEPT ![c] = @ + 1]
  /\ UNCHANGED <<verdict, got, answer, gone>>

Conclude(c) ==
  /\ answer[c] # "idle"
  /\ verdict[c] = "none"
  /\ \E v \in {"done", "trap", "halted"} : verdict' = [verdict EXCEPT ![c] = v]
  /\ \E more \in 0..1 : rows' = [rows EXCEPT ![c] = @ + more]
  /\ UNCHANGED <<got, answer, gone>>

Settle(c, how) == answer[c] = "open" /\ answer' = [answer EXCEPT ![c] = how]

(* A talk is answered with everything the router said.                     *)
Resolve(c) ==
  /\ c \in Talk
  /\ verdict[c] = "done"
  /\ Settle(c, "ok")
  /\ got' = [got EXCEPT ![c] = RowsOf(c, rows[c])]
  /\ UNCHANGED <<rows, verdict, gone>>

(* A stream yields the next row.                                           *)
Yield(c) ==
  /\ c \in Stream
  /\ answer[c] = "open"
  /\ Len(got[c]) < rows[c]
  /\ got' = [got EXCEPT ![c] = Append(@, <<c, Len(@) + 1>>)]
  /\ UNCHANGED <<rows, verdict, answer, gone>>

(* A stream is complete, or its consumer is through with it.               *)
Complete(c) ==
  /\ c \in Stream
  /\ verdict[c] = "done"
  /\ Len(got[c]) = rows[c]
  /\ Settle(c, "ok")
  /\ UNCHANGED <<rows, verdict, got, gone>>

Leave(c) ==
  /\ c \in Stream
  /\ Settle(c, "left")
  /\ UNCHANGED <<rows, verdict, got, gone>>

(* An error, because of the router's trap or of the connection.            *)
Fail(c) ==
  /\ gone \/ verdict[c] \in {"trap", "halted"}
  /\ Settle(c, "failed")
  /\ UNCHANGED <<rows, verdict, got, gone>>

(* The connection ends and takes all talks with it.                        *)
Disconnect ==
  /\ gone' = TRUE
  /\ answer' = [c \in Call |-> IF c \in Talk /\ answer[c] = "open"
                               THEN "failed" ELSE answer[c]]
  /\ UNCHANGED <<rows, verdict, got>>

CallsNext ==
  \/ Disconnect
  \/ \E c \in Call : \/ Ask(c) \/ Serve(c) \/ Conclude(c) \/ Resolve(c)
                     \/ Yield(c) \/ Complete(c) \/ Leave(c) \/ Fail(c)

CallsSpec == CallsInit /\ [][CallsNext]_callsVars
=============================================================================
