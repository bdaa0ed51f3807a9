------------------------------- MODULE Fanout -------------------------------
(***************************************************************************)
(* One command on many routers.  "direct": execute and api over a          *)
(* selection (src/core/fanout.ts, execute-fanout.ts), one connection to    *)
(* each router, transient failures retried.  "cmr": execute --cmr          *)
(* (src/execute-cmr.ts), where one controller runs the command on its      *)
(* clients: every row of the inventory is probed, the selection is bound   *)
(* to the keys it was validated on, and each client is called once.        *)
(***************************************************************************)
EXTENDS Naturals, FiniteSets

CONSTANTS
  Setups,      \* the commands
  MaxRetries   \* FANOUT_MAX_RETRIES

(* members: the routers or inventory rows; concurrency: as asked for.  And a
   bound: how often rows change their client; a router of "direct" is at the
   other end of its own connection.                                        *)
ASSUME FanoutConstants ==
  /\ Setups \subseteq [style : {"direct", "cmr"}, write : BOOLEAN,
                       members : Nat \ {0}, concurrency : Nat \ {0}, changes : Nat]
  /\ \A s \in Setups : s.style = "direct" => s.changes = 0
  /\ MaxRetries \in Nat

VARIABLES
  setup,
  phase,
  granted,    \* the write was confirmed
  aborted,    \* the caller's signal
  \* runBoundedPool
  items,      \* the items not yet taken; they are taken in order
  at,         \* where each member's worker is
  \* per member
  attempt,
  dispatched, \* trace.dispatched, or the outcome's sent
  judged,     \* what the preflight found
  out,        \* the row the call ended with
  report,     \* what its envelope says
  \* the routers, or the controller and its clients (external)
  key,        \* the client in each row: 1 is the first, 0 none
  box,        \* the call in progress: "none", "asked" or its answer
  late,       \* calls given up that may yet run
  ran,        \* history: how often the command ran on the first client
  other,      \* history: and on another one
  changes

Members == 1..setup.members
cmr == setup.style = "cmr"

pool == <<items, at>>
calls == <<attempt, dispatched, out>>
verdicts == <<judged, report>>
world == <<key, box, late, ran, other, changes>>
fanVars == <<setup, phase, granted, aborted, pool, calls, verdicts, world>>

Final == {"success", "failed", "timeout", "skipped"}
Places == {"idle", "probing", "binding", "opening", "asked", "backoff", "back"}

Busy == {m \in Members : at[m] \notin {"idle", "back"}}

FanoutTypeOK ==
  /\ setup \in Setups
  /\ phase \in {"preflight", "bind", "gate", "dispatch", "after", "done", "threw"}
  /\ granted \in BOOLEAN /\ aborted \in BOOLEAN
  /\ items \subseteq Members
  /\ at \in [Members -> Places] /\ Cardinality(Busy) <= setup.concurrency
  /\ \A m \in items : at[m] = "idle"
  /\ attempt \in [Members -> 0..MaxRetries]
  /\ dispatched \in [Members -> BOOLEAN]
  /\ judged \in [Members -> {"unasked", "unselected", "valid", "excluded", "unknown"}]
  /\ out \in [Members -> Final \cup {"none", "unselected"}]
  /\ report \in [Members -> {"none", "ok", "failed", "not-sent", "unknown", "error"}]
  /\ key \in [Members -> 0..setup.changes + 1]
  /\ box \in [Members -> Final \cup {"none", "asked", "unselected"}]

Each(v) == [m \in Members |-> v]

FanoutInit ==
  /\ setup \in Setups
  /\ phase = IF cmr THEN "preflight" ELSE "gate"
  /\ granted = FALSE /\ aborted = FALSE
  /\ items = Members /\ at = Each("idle")
  /\ attempt = Each(0) /\ dispatched = Each(FALSE) /\ out = Each("none")
  /\ judged = Each(IF cmr THEN "unasked" ELSE "valid") /\ report = Each("none")
  /\ key = Each(1) /\ box = Each("none") /\ late = Each(0)
  /\ ran = Each(0) /\ other = Each(0) /\ changes = 0

-----------------------------------------------------------------------------
(* runBoundedPool                                                          *)

AnyoneFree == Cardinality(Busy) <= setup.concurrency

WorkerFree == Cardinality(Busy) < setup.concurrency

(* A worker takes the first item left; one of --cmr looks at the signal first. *)
Take ==
  /\ phase \in {"preflight", "dispatch"} /\ WorkerFree
  /\ \E m \in items :
       /\ \A n \in items : m <= n
       /\ items' = items \ {m}
       /\ at' = [at EXCEPT ![m] =
            CASE aborted -> "back"
              [] ~aborted /\ phase = "preflight" -> "probing"
              [] ~aborted /\ phase = "dispatch" -> IF cmr THEN "binding" ELSE "opening"]
  /\ UNCHANGED <<setup, phase, granted, aborted, calls, verdicts, world>>

PoolOverEarly == Cardinality(items) <= 1 /\ Busy = {}

PoolOver == items = {} /\ Busy = {}

StartPool(S) == items' = S /\ at' = Each("idle")

-----------------------------------------------------------------------------
(* executeCmr: the selection                                               *)

(* One row's preflight and judgePreflight.  A row without a client matches no
   labels; a call without an answer leaves the membership unknown.         *)
Probe(m) ==
  /\ at[m] = "probing"
  /\ at' = [at EXCEPT ![m] = "back"]
  /\ \E v \in {"unselected", "unknown"}
              \cup (IF key[m] = 0 THEN {} ELSE {"valid", "excluded"}) :
       judged' = [judged EXCEPT ![m] = v]
  /\ UNCHANGED <<setup, phase, granted, aborted, items, calls, report, world>>

Selected == {m \in Members : judged[m] \in {"valid", "excluded"}}

IncompleteNever == FALSE

Incomplete == \E m \in Members : judged[m] = "unknown"

(* An excluded member has its envelope from here on.                       *)
Select ==
  /\ phase = "preflight" /\ PoolOver
  /\ phase' = IF aborted \/ Incomplete \/ (setup.write /\ Selected = {})
                THEN "threw" ELSE "bind"
  /\ report' = [m \in Members |-> IF judged[m] = "excluded" THEN "not-sent" ELSE "none"]
  /\ UNCHANGED <<setup, granted, aborted, pool, calls, judged, world>>

(* S2, the second reading of the inventory; it may fail.                   *)
Bind ==
  /\ phase = "bind"
  /\ \/ phase' = "threw" /\ UNCHANGED report
     \/ /\ ~aborted /\ phase' = "gate"
        /\ report' = [m \in Members |->
             IF judged[m] = "valid" /\ key[m] # 1 THEN "not-sent" ELSE report[m]]
  /\ UNCHANGED <<setup, granted, aborted, pool, calls, judged, world>>

Runnable == {m \in Selected : report[m] = "none"}

(* confirmCmrWrite, assertFanoutWriteConfirmed: a write is confirmed by --yes or
   at the prompt, which may take any time; a caller who cancels there goes on to
   a dispatch that sends nothing.                                          *)
Gate ==
  /\ phase = "gate"
  /\ \/ phase' = "dispatch" /\ granted' = TRUE
     \/ phase' = "dispatch" /\ (aborted \/ ~setup.write \/ Runnable = {})
        /\ UNCHANGED granted
     \/ phase' = "threw" /\ setup.write /\ ~aborted /\ Runnable # {}
        /\ UNCHANGED granted
  /\ StartPool(Runnable)
  /\ UNCHANGED <<setup, aborted, calls, verdicts, world>>

-----------------------------------------------------------------------------
(* One call                                                                *)

(* The envelope of a direct target: buildExecuteErrorEnvelopeFromResolved and
   sentWriteWarnings, which speaks of transport errors only: an error of another
   kind (a fatal reply, one that cannot be parsed, a bug) says nothing of what
   became of the write, sent or not.                                       *)
DirectReport(sent, row, transport) ==
  CASE row = "success" -> "ok"
    [] row = "failed" -> "failed"
    [] row = "none" /\ ~(setup.write /\ transport) -> "error"
    [] row = "none" /\ setup.write /\ transport -> IF sent THEN "unknown" ELSE "not-sent"

(* A worker ends: its outcome waits for S3 (cmr), or is its envelope.      *)
Return(m, sent, row, transport) ==
  /\ at' = [at EXCEPT ![m] = "back"]
  /\ dispatched' = [dispatched EXCEPT ![m] = sent]
  /\ out' = [out EXCEPT ![m] = row]
  /\ report' = IF cmr THEN report
               ELSE [report EXCEPT ![m] = DirectReport(sent, row, transport)]

(* rebindBeforeSend                                                        *)
Rebind(m) ==
  /\ at[m] = "binding"
  /\ \/ Return(m, FALSE, "none", FALSE)
     \/ /\ ~aborted /\ key[m] = 1
        /\ at' = [at EXCEPT ![m] = "opening"]
        /\ UNCHANGED <<dispatched, out, report>>
  /\ UNCHANGED <<setup, phase, granted, aborted, items, attempt, judged, world>>

(* onSent, onListening; from here the far side may act.                    *)
Send(m) ==
  /\ at[m] = "opening"
  /\ at' = [at EXCEPT ![m] = "asked"]
  /\ dispatched' = [dispatched EXCEPT ![m] = TRUE]
  /\ box' = [box EXCEPT ![m] = "asked"]
  /\ UNCHANGED <<setup, phase, granted, aborted, items, attempt, out, verdicts,
                 key, late, ran, other, changes>>

Answer(m) ==
  /\ at[m] = "asked" /\ box[m] \notin {"none", "asked"}
  /\ Return(m, box[m] # "unselected", box[m], FALSE)
  /\ box' = [box EXCEPT ![m] = "none"]
  /\ UNCHANGED <<setup, phase, granted, aborted, items, attempt, judged,
                 key, late, ran, other, changes>>

(* mayRetryUnsentWrite; --cmr never retries.                               *)
MayRetryAnything(m) == ~cmr

MayRetry(m) == ~cmr /\ ~(setup.write /\ dispatched[m])

(* The call fails on the way: at the deadline, by the signal, as the connection
   breaks, which alone is retryable, or by an error that is none of transport.
   A request that went out may still be carried out.                       *)
Fail(m) ==
  /\ at[m] \in {"opening", "asked"}
  /\ \/ /\ attempt[m] < MaxRetries /\ MayRetry(m)
        /\ attempt' = [attempt EXCEPT ![m] = @ + 1]
        /\ at' = [at EXCEPT ![m] = "backoff"]
        /\ UNCHANGED <<dispatched, out, report>>
     \/ \* not retryable or out of attempts; REST counts a call cut short as sent
        /\ \E sent \in {dispatched[m]} \cup (IF cmr THEN {TRUE} ELSE {}) :
             \E transport \in BOOLEAN : Return(m, sent, "none", transport)
        /\ UNCHANGED attempt
  /\ late' = [late EXCEPT ![m] = IF box[m] = "asked" THEN @ + 1 ELSE @]
  /\ box' = [box EXCEPT ![m] = "none"]
  /\ UNCHANGED <<setup, phase, granted, aborted, items, judged,
                 key, ran, other, changes>>

(* One of NOT_SENT_TRANSPORT_CODES after REST called the request dispatched. *)
Refused(m) ==
  /\ at[m] = "asked" /\ box[m] = "asked"
  /\ Return(m, FALSE, "none", TRUE)
  /\ box' = [box EXCEPT ![m] = "none"]
  /\ UNCHANGED <<setup, phase, granted, aborted, items, attempt, judged,
                 key, late, ran, other, changes>>

(* Every attempt starts with a trace of its own.                           *)
Again(m) ==
  /\ at[m] = "backoff"
  /\ at' = [at EXCEPT ![m] = "opening"]
  /\ dispatched' = [dispatched EXCEPT ![m] = FALSE]
  /\ UNCHANGED <<setup, phase, granted, aborted, items, attempt, out, verdicts, world>>

-----------------------------------------------------------------------------
(* The end                                                                 *)

(* judgeDispatch                                                           *)
JudgeUnbound(m, bound) ==
  CASE out[m] = "unselected" \/ (out[m] = "none" /\ ~dispatched[m]) -> "not-sent"
    [] out[m] = "skipped" -> "not-sent"
    [] out[m] = "none" /\ dispatched[m] -> "unknown"
    [] out[m] = "timeout" -> "unknown"
    [] out[m] = "failed" -> "failed"
    [] out[m] = "success" -> "ok"

Judge(m, bound) ==
  CASE out[m] = "unselected" \/ (out[m] = "none" /\ ~dispatched[m]) -> "not-sent"
    [] out[m] = "skipped" -> "not-sent"
    [] (out[m] \in Final \ {"skipped"} /\ ~bound) \/ (out[m] = "none" /\ dispatched[m])
         -> "unknown"
    [] out[m] = "timeout" /\ bound -> "unknown"
    [] out[m] = "failed" /\ bound -> "failed"
    [] out[m] = "success" /\ bound -> "ok"

Dispatched ==
  /\ phase = "dispatch" /\ PoolOver
  /\ phase' = IF cmr THEN "after" ELSE "done"
  /\ UNCHANGED <<setup, granted, aborted, pool, calls, verdicts, world>>

(* S3, the last reading of the inventory: what was sent is bound to the client
   it was validated on; cancelled or failed, nothing is.                   *)
Conclude ==
  /\ phase = "after" /\ phase' = "done"
  /\ \E read \in IF aborted THEN {FALSE} ELSE BOOLEAN :
       report' = [m \in Members |->
         IF at[m] = "back" THEN Judge(m, read /\ key[m] = 1) ELSE report[m]]
  /\ UNCHANGED <<setup, granted, aborted, pool, calls, judged, world>>

Abort ==
  /\ cmr /\ ~aborted /\ phase \notin {"done", "threw"}
  /\ aborted' = TRUE
  /\ UNCHANGED <<setup, phase, granted, pool, calls, verdicts, world>>

-----------------------------------------------------------------------------
(* The routers, or the controller and its clients (external)               *)

(* The command runs on the client in the row.                              *)
Runs(m) ==
  IF key[m] = 1 THEN ran' = [ran EXCEPT ![m] = @ + 1] /\ UNCHANGED other
                ELSE other' = [other EXCEPT ![m] = @ + 1] /\ UNCHANGED ran

(* The far side acts on a request.  CMR may find the row unselected, its client
   disconnected, or wait for it too long; a router may refuse a command.   *)
Serve(m) ==
  /\ box[m] = "asked"
  /\ \/ /\ key[m] # 0 /\ Runs(m)
        /\ \E row \in {"success", "failed"} \cup (IF cmr THEN {"timeout"} ELSE {}) :
             box' = [box EXCEPT ![m] = row]
        /\ UNCHANGED late
     \/ /\ \E row \in IF cmr THEN {"unselected", "skipped"} ELSE {"failed"} :
             box' = [box EXCEPT ![m] = row]
        /\ UNCHANGED <<ran, other, late>>
     \/ /\ cmr /\ key[m] # 0
        /\ box' = [box EXCEPT ![m] = "timeout"]
        /\ late' = [late EXCEPT ![m] = @ + 1]
        /\ UNCHANGED <<ran, other>>
  /\ UNCHANGED <<setup, phase, granted, aborted, pool, calls, verdicts, key, changes>>

RunsLate(m) ==
  /\ late[m] > 0 /\ key[m] # 0
  /\ late' = [late EXCEPT ![m] = @ - 1]
  /\ Runs(m)
  /\ UNCHANGED <<setup, phase, granted, aborted, pool, calls, verdicts, key, box, changes>>

(* The row gets another client, or loses the one it has; a client that left a
   row does not come back to it.                                           *)
Rekey(m) ==
  /\ changes < setup.changes /\ key[m] # 0
  /\ changes' = changes + 1
  /\ \E k \in {0, key[m] + 1} : key' = [key EXCEPT ![m] = k]
  /\ UNCHANGED <<setup, phase, granted, aborted, pool, calls, verdicts,
                 box, late, ran, other>>

-----------------------------------------------------------------------------
Works(m) == Probe(m) \/ Rebind(m) \/ Send(m) \/ Answer(m) \/ Fail(m) \/ Refused(m) \/ Again(m)

Far(m) == Serve(m) \/ RunsLate(m) \/ Rekey(m)

Coordinates == Take \/ Select \/ Bind \/ Dispatched \/ Conclude

FanoutNext ==
  \/ Coordinates \/ Gate \/ Abort
  \/ \E m \in Members : Works(m) \/ Far(m)

FanoutSpec == FanoutInit /\ [][FanoutNext]_fanVars

(* Every wait but the one for the user ends by a deadline; the far side owes
   nothing.                                                                *)
FanoutLiveSpec ==
  /\ FanoutSpec
  /\ WF_fanVars(Coordinates)
  /\ \A m \in UNION {1..s.members : s \in Setups} : WF_fanVars(m \in Members /\ Works(m))

-----------------------------------------------------------------------------
Somewhere(m) == ran[m] + other[m] > 0

(* What an envelope says is so, and stays so, whatever a call that was given up
   does later: "ok" means the command ran on the client that was validated
   and nowhere else, "not sent" that it did not and will not run anywhere, a
   CMR failure that it was this client that failed; a command that ran on a client
   put in its place is never more than "unknown"; and an error in place of the
   envelopes means that nothing ran at all.                                *)
Truthful ==
  /\ \A m \in Members :
       /\ report[m] = "ok" => ran[m] >= 1 /\ other[m] = 0
       /\ report[m] = "not-sent" => ~Somewhere(m) /\ late[m] = 0
       /\ (report[m] = "failed" /\ cmr) => ran[m] = 1 /\ other[m] = 0
       /\ other[m] > 0 => report[m] \in {"none", "unknown"}
  /\ phase = "threw" => \A m \in Members : ~Somewhere(m) /\ late[m] = 0

(* No retry, late answer or pool worker makes a write, or anything sent through
   CMR, run twice on a member.                                             *)
AtMostOnce ==
  (setup.write \/ cmr) => \A m \in Members : ran[m] + other[m] + late[m] <= 1

(* Nothing runs anywhere before the membership of every row is known, on a row
   that was not selected and found valid, or without the confirmation a write
   needs.                                                                  *)
SelectionWhole ==
  (\E m \in Members : Somewhere(m)) =>
    /\ \A m \in Members : judged[m] \notin {"unasked", "unknown"}
    /\ \A m \in Members : Somewhere(m) => judged[m] = "valid"
    /\ setup.write => granted

(* The preflight and the dispatch end, and then every selected member has its
   envelope, although routers, controller and clients may fall silent.     *)
AllReported ==
  /\ phase = "preflight" ~> phase \in {"gate", "threw"}
  /\ phase = "dispatch" ~>
       phase = "done" /\ \A m \in Selected : report[m] # "none"
=============================================================================
