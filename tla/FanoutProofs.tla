---------------------------- MODULE FanoutProofs ----------------------------
(***************************************************************************)
(* Proofs about Fanout, for any members, workers, retries and changes of   *)
(* the inventory: envelopes are truthful, and what must not be sent twice  *)
(* is not.  The argument is the invariant FanoutInv: a member's sum of     *)
(* runs, done and still possible, follows from where its worker is.        *)
(***************************************************************************)
EXTENDS Fanout, FiniteSetTheorems, TLAPS

(* What the type invariant leaves out: the history, and that a row's client
   is as young as the changes so far allow.                                *)
Counts ==
  /\ late \in [Members -> Nat] /\ ran \in [Members -> Nat]
  /\ other \in [Members -> Nat] /\ changes \in 0..setup.changes
  /\ \A m \in Members : key[m] <= changes + 1

(* How often the command ran, or may yet run, for a call given up.         *)
Sum(m) == ran[m] + other[m] + late[m]

OneCall == setup.write \/ cmr

(* Nothing was dispatched, or an error took the place of the envelopes.    *)
Early == phase \in {"preflight", "bind", "gate", "threw"}

Untouched(m) ==
  /\ Sum(m) = 0 /\ box[m] = "none" /\ out[m] = "none" /\ ~dispatched[m]

Placed(m) ==
  /\ Early => Untouched(m) /\ at[m] \in {"idle", "probing", "back"}
  /\ phase \in {"bind", "gate", "threw", "after", "done"} => at[m] \in {"idle", "back"}
  /\ at[m] = "idle" => Untouched(m)
  /\ at[m] = "probing" => phase = "preflight"
  /\ at[m] = "binding" => cmr
  /\ at[m] = "asked" => dispatched[m]
  /\ box[m] # "none" => at[m] = "asked"
  /\ out[m] # "none" => at[m] = "back"

(* The command ran, may run, or did not, by what is known of the call.     *)
Spent(m) ==
  /\ OneCall =>
       /\ Sum(m) <= 1
       /\ at[m] \in {"probing", "binding", "opening", "backoff"} => Sum(m) = 0
       /\ box[m] \in {"asked", "unselected", "skipped"} => Sum(m) = 0
  /\ box[m] = "success" => ran[m] + other[m] >= 1
  /\ (cmr /\ box[m] = "failed") => ran[m] + other[m] >= 1
  /\ key[m] = 1 => other[m] = 0
  /\ ~cmr => key[m] = 1 /\ box[m] \in {"none", "asked", "success", "failed"}

Ended(m) ==
  cmr => /\ out[m] \in {"success", "failed"} => ran[m] + other[m] >= 1
         /\ out[m] \in {"unselected", "skipped"} => Sum(m) = 0
         /\ out[m] = "none" /\ ~dispatched[m] => Sum(m) = 0

Reported(m) ==
  /\ report[m] # "none" => m \notin items /\ at[m] \in {"idle", "back"}
  /\ report[m] = "ok" => ran[m] >= 1 /\ other[m] = 0
  /\ report[m] = "not-sent" => Sum(m) = 0
  /\ (report[m] = "failed" /\ cmr) => ran[m] = 1 /\ other[m] = 0
  /\ report[m] = "error" => ~cmr

Chosen(m) ==
  /\ ~cmr => judged[m] = "valid"
  /\ phase \notin {"preflight", "threw"} => judged[m] \notin {"unasked", "unknown"}
  /\ phase = "preflight" /\ ~aborted =>
       /\ at[m] = "back" => judged[m] # "unasked"
       /\ at[m] = "idle" => m \in items
  /\ phase \in {"bind", "gate"} /\ judged[m] = "excluded" => report[m] # "none"
  /\ phase = "dispatch" /\ m \in items => judged[m] = "valid"
  /\ ~Early /\ at[m] # "idle" => judged[m] = "valid"
  /\ setup.write /\ ~granted => Sum(m) = 0 /\ at[m] \in {"idle", "probing", "back"}

(* Where the command as a whole is.                                        *)
Pooled ==
  /\ phase = "after" => cmr
  /\ phase = "bind" \/ (phase = "gate" /\ cmr) => items = {}
  /\ phase = "preflight" => cmr
  /\ setup.write /\ ~granted /\ phase = "dispatch" => aborted \/ items = {}

Member(m) == Placed(m) /\ Spent(m) /\ Ended(m) /\ Reported(m) /\ Chosen(m)

FanoutInv ==
  /\ FanoutTypeOK /\ Counts /\ Pooled
  /\ \A m \in Members : Member(m)

-----------------------------------------------------------------------------
LEMMA SetupFacts ==
  ASSUME setup \in Setups
  PROVE  /\ setup.style \in {"direct", "cmr"} /\ setup.write \in BOOLEAN
         /\ setup.members \in Nat /\ setup.concurrency \in Nat \ {0}
         /\ setup.changes \in Nat
         /\ ~cmr => setup.changes = 0
         /\ IsFiniteSet(Members) /\ IsFiniteSet(Busy)
<1>1. setup \in [style : {"direct", "cmr"}, write : BOOLEAN,
                 members : Nat \ {0}, concurrency : Nat \ {0}, changes : Nat]
  BY FanoutConstants
<1>2. IsFiniteSet(Members)
  BY <1>1, FS_Interval DEF Members
<1>3. IsFiniteSet(Busy)
  BY <1>2, FS_Subset DEF Busy
<1> QED
  BY <1>1, <1>2, <1>3, FanoutConstants DEF cmr

(* A step of one member: its worker, its call or its row.                  *)
Only(k) ==
  /\ UNCHANGED <<setup, phase, granted, aborted>>
  /\ items' \in {items, items \ {k}} /\ (k \in items' => at'[k] = "idle")
  /\ changes' \in {changes, changes + 1} /\ changes' <= setup.changes
  /\ at' = [at EXCEPT ![k] = at'[k]] /\ attempt' = [attempt EXCEPT ![k] = attempt'[k]]
  /\ dispatched' = [dispatched EXCEPT ![k] = dispatched'[k]]
  /\ judged' = [judged EXCEPT ![k] = judged'[k]] /\ out' = [out EXCEPT ![k] = out'[k]]
  /\ report' = [report EXCEPT ![k] = report'[k]] /\ key' = [key EXCEPT ![k] = key'[k]]
  /\ box' = [box EXCEPT ![k] = box'[k]] /\ late' = [late EXCEPT ![k] = late'[k]]
  /\ ran' = [ran EXCEPT ![k] = ran'[k]] /\ other' = [other EXCEPT ![k] = other'[k]]

(* What FanoutTypeOK and Counts say of one member.                         *)
Typed(m) ==
  /\ at[m] \in Places /\ attempt[m] \in 0..MaxRetries /\ dispatched[m] \in BOOLEAN
  /\ judged[m] \in {"unasked", "unselected", "valid", "excluded", "unknown"}
  /\ out[m] \in Final \cup {"none", "unselected"}
  /\ report[m] \in {"none", "ok", "failed", "not-sent", "unknown", "error"}
  /\ box[m] \in Final \cup {"none", "asked", "unselected"}
  /\ key[m] \in 0..setup.changes + 1 /\ key[m] <= changes + 1
  /\ late[m] \in Nat /\ ran[m] \in Nat /\ other[m] \in Nat

(* The bound on workers, after a step that puts nobody to work.            *)
LEMMA BusyShrinks ==
  ASSUME setup \in Setups, setup' = setup, Busy' \subseteq Busy,
         Cardinality(Busy) <= setup.concurrency
  PROVE  Cardinality(Busy') <= setup.concurrency
<1>1. IsFiniteSet(Busy) /\ setup.concurrency \in Nat
  BY SetupFacts
<1>2. /\ IsFiniteSet(Busy') /\ Cardinality(Busy') <= Cardinality(Busy)
  BY <1>1, FS_Subset
<1>3. Cardinality(Busy) \in Nat /\ Cardinality(Busy') \in Nat
  BY <1>1, <1>2, FS_CardinalityType
<1> QED
  BY <1>1, <1>2, <1>3

LEMMA MembersTyped ==
  ASSUME FanoutTypeOK, Counts, NEW m \in Members
  PROVE  Typed(m)
BY DEF FanoutTypeOK, Counts, Typed

(* A step of member k keeps the invariant if it keeps k's part of it and the
   bound on workers: to another member nothing happens.                    *)
LEMMA OneMember ==
  ASSUME FanoutInv, NEW k \in Members, Only(k), Typed(k)', Member(k)',
         Cardinality(Busy') <= setup.concurrency
  PROVE  FanoutInv'
<1>0. setup' = setup /\ Members' = Members /\ cmr' = cmr
  BY DEF Only, Members, cmr
<1>1. FanoutTypeOK /\ Counts /\ Pooled /\ setup \in Setups
  BY DEF FanoutInv, FanoutTypeOK
<1>2. setup.changes \in Nat
  BY <1>1, SetupFacts
<1>3. FanoutTypeOK'
  <2>1. (/\ at \in [Members -> Places] /\ attempt \in [Members -> 0..MaxRetries]
         /\ dispatched \in [Members -> BOOLEAN]
         /\ out \in [Members -> Final \cup {"none", "unselected"}])'
    BY <1>0, <1>1 DEF Only, Typed, FanoutTypeOK
  <2>2. (/\ judged \in [Members -> {"unasked", "unselected", "valid", "excluded", "unknown"}]
         /\ report \in [Members -> {"none", "ok", "failed", "not-sent", "unknown", "error"}])'
    BY <1>0, <1>1 DEF Only, Typed, FanoutTypeOK
  <2>3. (/\ key \in [Members -> 0..setup.changes + 1]
         /\ box \in [Members -> Final \cup {"none", "asked", "unselected"}])'
    BY <1>0, <1>1 DEF Only, Typed, FanoutTypeOK
  <2>4. (/\ phase \in {"preflight", "bind", "gate", "dispatch", "after", "done", "threw"}
         /\ granted \in BOOLEAN /\ aborted \in BOOLEAN /\ items \subseteq Members
         /\ \A m \in items : at[m] = "idle")'
    BY <1>0, <1>1 DEF Only, FanoutTypeOK
  <2> QED
    BY <1>0, <1>1, <2>1, <2>2, <2>3, <2>4 DEF FanoutTypeOK
<1>4. Counts'
  <2>1. (late \in [Members -> Nat] /\ ran \in [Members -> Nat] /\ other \in [Members -> Nat])'
    BY <1>0, <1>1 DEF Only, Typed, Counts
  <2>2. changes' \in 0..setup.changes /\ changes' >= changes
    BY <1>1, <1>2 DEF Only, Counts
  <2>3. \A m \in Members : key'[m] <= changes' + 1
    BY <1>0, <1>1, <1>2, <2>2 DEF Only, Typed, Counts, FanoutTypeOK
  <2> QED
    BY <1>0, <2>1, <2>2, <2>3 DEF Counts
<1>5. Pooled'
  BY <1>0, <1>1 DEF Only, Pooled
<1>6. ASSUME NEW m \in Members, m # k
      PROVE  Member(m)'
  <2>1. /\ UNCHANGED <<setup, phase, granted, aborted>> /\ (m \in items' <=> m \in items)
        /\ at'[m] = at[m] /\ dispatched'[m] = dispatched[m] /\ out'[m] = out[m]
        /\ judged'[m] = judged[m] /\ report'[m] = report[m]
    BY <1>1, <1>6 DEF Only, FanoutTypeOK
  <2>2. /\ key'[m] = key[m] /\ box'[m] = box[m] /\ late'[m] = late[m]
        /\ ran'[m] = ran[m] /\ other'[m] = other[m]
    BY <1>1, <1>6 DEF Only, FanoutTypeOK, Counts
  <2> QED
    BY <1>0, <2>1, <2>2 DEF FanoutInv, Member, Placed, Spent, Ended, Reported, Chosen,
         Untouched, Sum, Early, OneCall
<1> QED
  BY <1>0, <1>3, <1>4, <1>5, <1>6 DEF FanoutInv

(* A worker stays busy or leaves, so there are no more of them.            *)
LEMMA WorkersBounded ==
  ASSUME FanoutInv, NEW k \in Members, Only(k),
         at[k] \in {"idle", "back"} => at'[k] = at[k]
  PROVE  Cardinality(Busy') <= setup.concurrency
<1>1. FanoutTypeOK /\ setup \in Setups /\ setup' = setup /\ Members' = Members
  BY DEF FanoutInv, FanoutTypeOK, Only, Members
<1>2. Busy' \subseteq Busy
  BY <1>1 DEF Only, FanoutTypeOK, Busy
<1> QED
  BY <1>1, <1>2, BusyShrinks DEF FanoutTypeOK

LEMMA DirectReports ==
  ASSUME setup.write \in BOOLEAN, NEW sent \in BOOLEAN,
         NEW row \in {"success", "failed", "none"}, NEW transport \in BOOLEAN
  PROVE  /\ DirectReport(sent, row, transport) \in {"ok", "failed", "not-sent", "unknown", "error"}
         /\ DirectReport(sent, row, transport) = "ok" => row = "success"
         /\ DirectReport(sent, row, transport) = "not-sent" =>
              setup.write /\ ~sent /\ row = "none"
  BY DEF DirectReport

(* The end of a call, as far as its member goes.                           *)
LEMMA Returns ==
  ASSUME FanoutInv, NEW k \in Members, NEW sent \in BOOLEAN,
         NEW row \in Final \cup {"none", "unselected"},
         ~cmr => row \in {"success", "failed", "none"}, NEW transport \in BOOLEAN,
         Return(k, sent, row, transport)
  PROVE  /\ at' = [at EXCEPT ![k] = at'[k]] /\ at'[k] = "back"
         /\ dispatched' = [dispatched EXCEPT ![k] = dispatched'[k]] /\ dispatched'[k] = sent
         /\ out' = [out EXCEPT ![k] = out'[k]] /\ out'[k] = row
         /\ report' = [report EXCEPT ![k] = report'[k]]
         /\ report'[k] = IF cmr THEN report[k] ELSE DirectReport(sent, row, transport)
         /\ report'[k] \in {"none", "ok", "failed", "not-sent", "unknown", "error"}
<1>1. FanoutTypeOK /\ setup.write \in BOOLEAN
  BY SetupFacts DEF FanoutInv, FanoutTypeOK
<1>2. CASE cmr
  BY <1>1, <1>2 DEF Return, FanoutTypeOK
<1>3. CASE ~cmr
  BY <1>1, <1>3, DirectReports DEF Return, FanoutTypeOK
<1> QED
  BY <1>2, <1>3

LEMMA ProbeKeeps ==
  ASSUME FanoutInv, NEW k \in Members, Probe(k)
  PROVE  FanoutInv'
<1>1. FanoutTypeOK /\ Counts /\ Pooled /\ Typed(k) /\ Member(k)
  BY MembersTyped DEF FanoutInv
<1>2. Only(k)
  BY <1>1 DEF Probe, Only, FanoutTypeOK, Counts, calls, world
<1>3. /\ at[k] = "probing" /\ at'[k] = "back"
      /\ judged'[k] \in {"unselected", "unknown", "valid", "excluded"}
      /\ UNCHANGED <<setup, phase, granted, aborted, items, calls, report, world>>
  BY <1>1 DEF Probe, FanoutTypeOK
<1>4. Typed(k)' /\ Member(k)'
  <2>1. cmr' = cmr /\ cmr
    BY <1>1, <1>3 DEF Member, Placed, Pooled, cmr
  <2>2. Typed(k)'
    BY <1>1, <1>3 DEF Typed, Places, calls, world
  <2>3. Placed(k)' /\ Spent(k)' /\ Ended(k)'
    BY <1>1, <1>3, <2>1 DEF Member, Placed, Spent, Ended, Untouched, Sum, Early, OneCall,
       calls, world
  <2>4. Reported(k)' /\ Chosen(k)'
    BY <1>1, <1>3, <2>1 DEF Member, Placed, Reported, Chosen, Untouched, Sum, Early, calls, world
  <2> QED
    BY <2>2, <2>3, <2>4 DEF Member
<1> QED
  BY <1>2, <1>3, <1>4, OneMember, WorkersBounded

LEMMA RebindKeeps ==
  ASSUME FanoutInv, NEW k \in Members, Rebind(k)
  PROVE  FanoutInv'
<1>1. FanoutTypeOK /\ Counts /\ Pooled /\ Typed(k) /\ Member(k)
  BY MembersTyped DEF FanoutInv
<1>2. /\ at[k] = "binding" /\ cmr /\ cmr' = cmr
      /\ UNCHANGED <<setup, phase, granted, aborted, items, attempt, judged, world>>
  BY <1>1 DEF Rebind, Member, Placed, cmr
<1>3. /\ Only(k) /\ report'[k] = report[k]
      /\ \/ at'[k] = "back" /\ dispatched'[k] = FALSE /\ out'[k] = "none"
         \/ at'[k] = "opening" /\ dispatched'[k] = dispatched[k] /\ out'[k] = out[k]
  <2>1. CASE Return(k, FALSE, "none", FALSE)
    <3>1. /\ at' = [at EXCEPT ![k] = at'[k]] /\ at'[k] = "back"
          /\ dispatched' = [dispatched EXCEPT ![k] = dispatched'[k]] /\ dispatched'[k] = FALSE
          /\ out' = [out EXCEPT ![k] = out'[k]] /\ out'[k] = "none"
          /\ report' = [report EXCEPT ![k] = report'[k]] /\ report'[k] = report[k]
      BY <1>2, <2>1, Returns
    <3> QED
      BY <1>1, <1>2, <3>1 DEF Only, FanoutTypeOK, Counts, world
  <2>2. CASE ~Return(k, FALSE, "none", FALSE)
    <3>1. at' = [at EXCEPT ![k] = "opening"] /\ UNCHANGED <<dispatched, out, report>>
      BY <2>2 DEF Rebind
    <3> QED
      BY <1>1, <1>2, <3>1 DEF Only, FanoutTypeOK, Counts, world
  <2> QED
    BY <2>1, <2>2
<1>4. Typed(k)'
  BY <1>1, <1>2, <1>3 DEF Typed, Places, world
<1>5. Member(k)'
  BY <1>1, <1>2, <1>3 DEF Member, Placed, Spent, Ended, Reported, Chosen, Untouched, Sum,
     Early, OneCall, world
<1> QED
  BY <1>2, <1>3, <1>4, <1>5, OneMember, WorkersBounded

LEMMA SendKeeps ==
  ASSUME FanoutInv, NEW k \in Members, Send(k)
  PROVE  FanoutInv'
<1>1. FanoutTypeOK /\ Counts /\ Pooled /\ Typed(k) /\ Member(k)
  BY MembersTyped DEF FanoutInv
<1>2. Only(k)
  BY <1>1 DEF Send, Only, FanoutTypeOK, Counts, verdicts
<1>3. /\ at[k] = "opening" /\ at'[k] = "asked" /\ dispatched'[k] = TRUE /\ box'[k] = "asked"
      /\ UNCHANGED <<setup, phase, granted, aborted, items, attempt, out, verdicts,
                     key, late, ran, other, changes>>
      /\ cmr' = cmr
  BY <1>1 DEF Send, FanoutTypeOK, cmr
<1>4. Typed(k)'
  BY <1>1, <1>3 DEF Typed, Places, verdicts
<1>5. Member(k)'
  BY <1>1, <1>3 DEF Member, Placed, Spent, Ended, Reported, Chosen, Untouched, Sum,
     Early, OneCall, verdicts
<1> QED
  BY <1>2, <1>3, <1>4, <1>5, OneMember, WorkersBounded

LEMMA AnswerKeeps ==
  ASSUME FanoutInv, NEW k \in Members, Answer(k)
  PROVE  FanoutInv'
<1>1. FanoutTypeOK /\ Counts /\ Pooled /\ Typed(k) /\ Member(k) /\ setup.write \in BOOLEAN
  BY MembersTyped, SetupFacts DEF FanoutInv, FanoutTypeOK
<1>2. /\ at[k] = "asked" /\ box[k] \notin {"none", "asked"} /\ box'[k] = "none"
      /\ box' = [box EXCEPT ![k] = box'[k]] /\ cmr' = cmr
      /\ UNCHANGED <<setup, phase, granted, aborted, items, attempt, judged,
                     key, late, ran, other, changes>>
  BY <1>1 DEF Answer, FanoutTypeOK, cmr
<1>3. /\ ~cmr => box[k] \in {"success", "failed"}
      /\ box[k] \in Final \cup {"unselected"}
  BY <1>1, <1>2 DEF Member, Spent, Typed
<1>4. /\ Only(k) /\ at'[k] = "back" /\ out'[k] = box[k]
      /\ dispatched'[k] = (box[k] # "unselected")
      /\ report'[k] = IF cmr THEN report[k] ELSE DirectReport(box[k] # "unselected", box[k], FALSE)
      /\ report'[k] \in {"none", "ok", "failed", "not-sent", "unknown", "error"}
  <2>1. Return(k, box[k] # "unselected", box[k], FALSE)
    BY DEF Answer
  <2>2. /\ at' = [at EXCEPT ![k] = at'[k]] /\ dispatched' = [dispatched EXCEPT ![k] = dispatched'[k]]
        /\ out' = [out EXCEPT ![k] = out'[k]] /\ report' = [report EXCEPT ![k] = report'[k]]
    BY <1>3, <2>1, Returns
  <2>3. Only(k)
    BY <1>1, <1>2, <2>2 DEF Only, FanoutTypeOK, Counts
  <2> QED
    BY <1>3, <2>1, <2>3, Returns
<1>5. /\ Typed(k)'
      /\ ~cmr => report'[k] \in {"ok", "failed"}
      /\ ~cmr /\ report'[k] = "ok" => box[k] = "success"
  BY <1>1, <1>2, <1>3, <1>4 DEF Typed, Places, DirectReport
<1>6. Placed(k)' /\ Spent(k)' /\ Ended(k)' /\ Chosen(k)'
  BY <1>1, <1>2, <1>3, <1>4 DEF Member, Placed, Spent, Ended, Reported, Chosen, Untouched, Sum,
     Early, OneCall, Typed
<1>7. Reported(k)'
  <2>1. /\ report'[k] # "none" => k \notin items' /\ at'[k] \in {"idle", "back"}
        /\ UNCHANGED <<ran, other, late>>
    <3>1. k \notin items' /\ at'[k] = "back"
      BY <1>4 DEF Only
    <3> QED
      BY <1>2, <3>1
  <2>2. CASE cmr
    <3>1. report'[k] = report[k] /\ Reported(k)
      BY <1>1, <1>4, <2>2 DEF Member
    <3> QED
      BY <1>2, <2>1, <2>2, <3>1 DEF Reported, Sum
  <2>3. CASE ~cmr
    <3>1. key[k] = 1 /\ (box[k] = "success" => ran[k] + other[k] >= 1) /\ other[k] = 0
      BY <1>1, <2>3 DEF Member, Spent
    <3>2. ran[k] \in Nat
      BY <1>1 DEF Counts
    <3>3. report'[k] = "ok" => ran[k] >= 1 /\ other[k] = 0
      BY <1>5, <2>3, <3>1, <3>2
    <3> QED
      BY <1>2, <1>5, <2>1, <2>3, <3>3 DEF Reported
  <2> QED
    BY <2>2, <2>3
<1> QED
  BY <1>2, <1>4, <1>5, <1>6, <1>7, OneMember, WorkersBounded DEF Member

LEMMA FailKeeps ==
  ASSUME FanoutInv, NEW k \in Members, Fail(k)
  PROVE  FanoutInv'
<1>1. /\ FanoutTypeOK /\ Counts /\ Pooled /\ Typed(k) /\ Member(k)
      /\ setup.write \in BOOLEAN /\ setup' = setup /\ cmr' = cmr /\ MaxRetries \in Nat
  BY MembersTyped, SetupFacts, FanoutConstants DEF FanoutInv, FanoutTypeOK, Fail, cmr
<1>2. /\ at[k] \in {"opening", "asked"} /\ box'[k] = "none"
      /\ late'[k] = IF box[k] = "asked" THEN late[k] + 1 ELSE late[k]
      /\ box' = [box EXCEPT ![k] = box'[k]] /\ late' = [late EXCEPT ![k] = late'[k]]
      /\ UNCHANGED <<setup, phase, granted, aborted, items, judged, key, ran, other, changes>>
  BY <1>1 DEF Fail, FanoutTypeOK, Counts
<1>3. CASE /\ attempt[k] < MaxRetries /\ MayRetry(k)
           /\ attempt' = [attempt EXCEPT ![k] = @ + 1]
           /\ at' = [at EXCEPT ![k] = "backoff"]
           /\ UNCHANGED <<dispatched, out, report>>
  <2>1. attempt'[k] = attempt[k] + 1 /\ at'[k] = "backoff" /\ ~cmr
        /\ ~(setup.write /\ dispatched[k])
    BY <1>1, <1>3 DEF FanoutTypeOK, MayRetry
  <2>2. Only(k)
    BY <1>1, <1>2, <1>3, <2>1 DEF Only, FanoutTypeOK, Counts
  <2>3. Typed(k)'
    BY <1>1, <1>2, <1>3, <2>1 DEF Typed, Places
  <2>4. Member(k)'
    BY <1>1, <1>2, <1>3, <2>1 DEF Member, Placed, Spent, Ended, Reported, Chosen, Untouched,
       Sum, Early, OneCall, Typed
  <2> QED
    BY <1>2, <2>2, <2>3, <2>4, OneMember, WorkersBounded
<1>4. ASSUME NEW sent \in BOOLEAN, sent \in {dispatched[k]} \cup (IF cmr THEN {TRUE} ELSE {}),
             NEW transport \in BOOLEAN, Return(k, sent, "none", transport), UNCHANGED attempt
      PROVE  FanoutInv'
  <2>1. /\ at' = [at EXCEPT ![k] = at'[k]] /\ at'[k] = "back"
        /\ dispatched' = [dispatched EXCEPT ![k] = dispatched'[k]] /\ dispatched'[k] = sent
        /\ out' = [out EXCEPT ![k] = out'[k]] /\ out'[k] = "none"
        /\ report' = [report EXCEPT ![k] = report'[k]]
        /\ report'[k] = IF cmr THEN report[k] ELSE DirectReport(sent, "none", transport)
        /\ report'[k] \in {"none", "ok", "failed", "not-sent", "unknown", "error"}
    BY <1>4, Returns
  <2>2. Only(k)
    BY <1>1, <1>2, <1>4, <2>1 DEF Only, FanoutTypeOK, Counts
  <2>3. Typed(k)'
    BY <1>1, <1>2, <1>4, <2>1 DEF Typed, Places
  <2>4. /\ ~cmr => sent = dispatched[k] /\ report'[k] \in {"not-sent", "unknown", "error"}
        /\ ~cmr /\ report'[k] = "not-sent" => setup.write /\ ~dispatched[k]
        /\ ~sent => ~dispatched[k]
    BY <1>1, <1>4, <2>1 DEF DirectReport, Typed
  <2>5. Placed(k)' /\ Spent(k)' /\ Ended(k)' /\ Chosen(k)'
    BY <1>1, <1>2, <1>4, <2>1, <2>4 DEF Member, Placed, Spent, Ended, Reported, Chosen, Untouched,
       Sum, Early, OneCall, Typed
  <2>6. Reported(k)'
    BY <1>1, <1>2, <1>4, <2>1, <2>4 DEF Member, Placed, Spent, Reported, Sum, OneCall, Typed,
       FanoutTypeOK
  <2> QED
    BY <1>2, <2>1, <2>2, <2>3, <2>5, <2>6, OneMember, WorkersBounded DEF Member
<1>5. CASE /\ \E sent \in {dispatched[k]} \cup (IF cmr THEN {TRUE} ELSE {}) :
                \E transport \in BOOLEAN : Return(k, sent, "none", transport)
           /\ UNCHANGED attempt
  BY <1>1, <1>4, <1>5 DEF Typed
<1> QED
  BY <1>3, <1>5 DEF Fail

LEMMA RefusedKeeps ==
  ASSUME FanoutInv, NEW k \in Members, Refused(k)
  PROVE  FanoutInv'
<1>1. /\ FanoutTypeOK /\ Counts /\ Pooled /\ Typed(k) /\ Member(k)
      /\ setup.write \in BOOLEAN /\ setup' = setup /\ cmr' = cmr
  BY MembersTyped, SetupFacts DEF FanoutInv, FanoutTypeOK, Refused, cmr
<1>2. /\ at[k] = "asked" /\ box[k] = "asked" /\ box'[k] = "none"
      /\ box' = [box EXCEPT ![k] = box'[k]]
      /\ UNCHANGED <<setup, phase, granted, aborted, items, attempt, judged,
                     key, late, ran, other, changes>>
  BY <1>1 DEF Refused, FanoutTypeOK
<1>3. /\ at' = [at EXCEPT ![k] = at'[k]] /\ at'[k] = "back"
      /\ dispatched' = [dispatched EXCEPT ![k] = dispatched'[k]] /\ dispatched'[k] = FALSE
      /\ out' = [out EXCEPT ![k] = out'[k]] /\ out'[k] = "none"
      /\ report' = [report EXCEPT ![k] = report'[k]]
      /\ report'[k] = IF cmr THEN report[k] ELSE DirectReport(FALSE, "none", TRUE)
      /\ report'[k] \in {"none", "ok", "failed", "not-sent", "unknown", "error"}
  <2>1. Return(k, FALSE, "none", TRUE)
    BY DEF Refused
  <2> QED
    BY <2>1, Returns
<1>4. Only(k)
  <2>1. k \notin items /\ changes \in 0..setup.changes /\ setup.changes \in Nat
    BY <1>1, <1>2, SetupFacts DEF FanoutTypeOK, Counts
  <2>2. attempt' = [attempt EXCEPT ![k] = attempt'[k]] /\ judged' = [judged EXCEPT ![k] = judged'[k]]
    BY <1>1, <1>2 DEF FanoutTypeOK
  <2>3. /\ key' = [key EXCEPT ![k] = key'[k]] /\ late' = [late EXCEPT ![k] = late'[k]]
        /\ ran' = [ran EXCEPT ![k] = ran'[k]] /\ other' = [other EXCEPT ![k] = other'[k]]
    BY <1>1, <1>2 DEF FanoutTypeOK, Counts
  <2>4. /\ items' \in {items, items \ {k}} /\ (k \in items' => at'[k] = "idle")
        /\ changes' \in {changes, changes + 1} /\ changes' <= setup.changes
    BY <1>2, <2>1
  <2> QED
    BY <1>2, <1>3, <2>2, <2>3, <2>4, Zenon DEF Only
<1>5. Typed(k)'
  BY <1>1, <1>2, <1>3 DEF Typed, Places
<1>6. ~cmr => IF setup.write THEN report'[k] = "not-sent" ELSE report'[k] = "error"
  BY <1>1, <1>3 DEF DirectReport
<1>7. Placed(k)' /\ Spent(k)' /\ Ended(k)' /\ Chosen(k)'
  BY <1>1, <1>2, <1>3 DEF Member, Placed, Spent, Ended, Reported, Chosen, Untouched, Sum,
     Early, OneCall, Typed
<1>8. Reported(k)'
  BY <1>1, <1>2, <1>3, <1>6 DEF Member, Placed, Spent, Reported, Sum, OneCall, Typed, FanoutTypeOK
<1> QED
  BY <1>2, <1>4, <1>5, <1>7, <1>8, OneMember, WorkersBounded DEF Member

LEMMA AgainKeeps ==
  ASSUME FanoutInv, NEW k \in Members, Again(k)
  PROVE  FanoutInv'
<1>1. FanoutTypeOK /\ Counts /\ Pooled /\ Typed(k) /\ Member(k)
  BY MembersTyped DEF FanoutInv
<1>2. /\ at[k] = "backoff" /\ at'[k] = "opening" /\ dispatched'[k] = FALSE
      /\ UNCHANGED <<setup, phase, granted, aborted, items, attempt, out, verdicts, world>>
      /\ cmr' = cmr
  BY <1>1 DEF Again, FanoutTypeOK, cmr
<1>3. Only(k)
  BY <1>1, <1>2 DEF Again, Only, FanoutTypeOK, Counts, verdicts, world
<1>4. Typed(k)'
  BY <1>1, <1>2 DEF Typed, Places, verdicts, world
<1>5. Member(k)'
  BY <1>1, <1>2 DEF Member, Placed, Spent, Ended, Reported, Chosen, Untouched, Sum,
     Early, OneCall, verdicts, world
<1> QED
  BY <1>2, <1>3, <1>4, <1>5, OneMember, WorkersBounded

(* The far side's steps.  The command runs at the client in the row.       *)
LEMMA ServeKeeps ==
  ASSUME FanoutInv, NEW k \in Members, Serve(k)
  PROVE  FanoutInv'
<1>1. FanoutTypeOK /\ Counts /\ Pooled /\ Typed(k) /\ Member(k) /\ cmr' = cmr
  BY MembersTyped DEF FanoutInv, Serve, cmr
<1>2. /\ box[k] = "asked"
      /\ UNCHANGED <<setup, phase, granted, aborted, pool, calls, verdicts, key, changes>>
  BY DEF Serve
<1>3. box' = [box EXCEPT ![k] = box'[k]]
  BY <1>1 DEF Serve, FanoutTypeOK
<1>4. \/ /\ box'[k] \in {"success", "failed", "timeout"} /\ (box'[k] = "timeout" => cmr)
         /\ Runs(k) /\ UNCHANGED late
      \/ /\ box'[k] \in {"unselected", "skipped", "failed"} /\ (box'[k] = "failed" <=> ~cmr)
         /\ UNCHANGED <<ran, other, late>>
      \/ /\ box'[k] = "timeout" /\ cmr /\ late' = [late EXCEPT ![k] = @ + 1]
         /\ UNCHANGED <<ran, other>>
  BY <1>1 DEF Serve, FanoutTypeOK
<1>5. CASE Runs(k) /\ UNCHANGED late /\ box'[k] \in {"success", "failed", "timeout"}
           /\ (box'[k] = "timeout" => cmr)
  <2>1. /\ ran' = [ran EXCEPT ![k] = ran'[k]] /\ other' = [other EXCEPT ![k] = other'[k]]
        /\ IF key[k] = 1 THEN ran'[k] = ran[k] + 1 /\ other'[k] = other[k]
                         ELSE other'[k] = other[k] + 1 /\ ran'[k] = ran[k]
    BY <1>1, <1>5 DEF Runs, Counts
  <2>2. Only(k)
    BY <1>1, <1>2, <1>3, <1>5, <2>1 DEF Only, FanoutTypeOK, Counts, pool, calls, verdicts
  <2>3. Typed(k)'
    BY <1>1, <1>2, <1>5, <2>1 DEF Typed, Final, pool, calls, verdicts
  <2>4. Placed(k)' /\ Spent(k)'
    <3>1. at[k] = "asked" /\ at' = at /\ setup' = setup /\ key' = key
      BY <1>1, <1>2 DEF Member, Placed, pool
    <3>2. Placed(k)'
      BY <1>1, <1>2, <1>5, <3>1 DEF Member, Placed, Untouched, Early, pool, calls
    <3>3. OneCall => Sum(k) = 0
      BY <1>1, <1>2 DEF Member, Spent
    <3>4. Sum(k)' = Sum(k) + 1 /\ ran'[k] + other'[k] >= 1
      BY <1>1, <1>5, <2>1 DEF Sum, Typed
    <3> QED
      BY <1>1, <1>5, <2>1, <3>1, <3>2, <3>3, <3>4 DEF Member, Spent, OneCall, Typed
  <2>5. Ended(k)' /\ Reported(k)' /\ Chosen(k)'
    BY <1>1, <1>2, <1>5, <2>1 DEF Member, Placed, Ended, Reported, Chosen, Untouched, Sum,
       Early, Typed, pool, calls, verdicts
  <2> QED
    BY <1>2, <2>2, <2>3, <2>4, <2>5, OneMember, WorkersBounded DEF Member, pool
<1>6. CASE UNCHANGED <<ran, other, late>> /\ box'[k] \in {"unselected", "skipped", "failed"}
           /\ (box'[k] = "failed" <=> ~cmr)
  <2>1. Only(k)
    BY <1>1, <1>2, <1>3, <1>6 DEF Only, FanoutTypeOK, Counts, pool, calls, verdicts
  <2>2. Typed(k)'
    BY <1>1, <1>2, <1>6 DEF Typed, Final, pool, calls, verdicts
  <2>3. Member(k)'
    BY <1>1, <1>2, <1>6 DEF Member, Placed, Spent, Ended, Reported, Chosen, Untouched,
       Sum, Early, OneCall, Typed, pool, calls, verdicts
  <2> QED
    BY <1>2, <2>1, <2>2, <2>3, OneMember, WorkersBounded DEF pool
<1>7. CASE box'[k] = "timeout" /\ cmr /\ late' = [late EXCEPT ![k] = @ + 1]
           /\ UNCHANGED <<ran, other>>
  <2>1. late' = [late EXCEPT ![k] = late'[k]] /\ late'[k] = late[k] + 1
    BY <1>1, <1>7 DEF Counts
  <2>2. Only(k)
    BY <1>1, <1>2, <1>3, <1>7, <2>1 DEF Only, FanoutTypeOK, Counts, pool, calls, verdicts
  <2>3. Typed(k)'
    BY <1>1, <1>2, <1>7, <2>1 DEF Typed, Final, pool, calls, verdicts
  <2>4. Member(k)'
    BY <1>1, <1>2, <1>7, <2>1 DEF Member, Placed, Spent, Ended, Reported, Chosen, Untouched,
       Sum, Early, OneCall, Typed, pool, calls, verdicts
  <2> QED
    BY <1>2, <2>2, <2>3, <2>4, OneMember, WorkersBounded DEF pool
<1> QED
  BY <1>4, <1>5, <1>6, <1>7

LEMMA RunsLateKeeps ==
  ASSUME FanoutInv, NEW k \in Members, RunsLate(k)
  PROVE  FanoutInv'
<1>1. FanoutTypeOK /\ Counts /\ Pooled /\ Typed(k) /\ Member(k) /\ cmr' = cmr
  BY MembersTyped DEF FanoutInv, RunsLate, cmr
<1>2. /\ late[k] > 0 /\ late'[k] = late[k] - 1 /\ late' = [late EXCEPT ![k] = late'[k]]
      /\ UNCHANGED <<setup, phase, granted, aborted, pool, calls, verdicts, key, box, changes>>
  BY <1>1 DEF RunsLate, Counts
<1>3. /\ ran' = [ran EXCEPT ![k] = ran'[k]] /\ other' = [other EXCEPT ![k] = other'[k]]
      /\ IF key[k] = 1 THEN ran'[k] = ran[k] + 1 /\ other'[k] = other[k]
                       ELSE other'[k] = other[k] + 1 /\ ran'[k] = ran[k]
  BY <1>1 DEF RunsLate, Runs, Counts
<1>4. Only(k)
  BY <1>1, <1>2, <1>3 DEF Only, FanoutTypeOK, Counts, pool, calls, verdicts
<1>5. Typed(k)'
  BY <1>1, <1>2, <1>3 DEF Typed, pool, calls, verdicts
<1>6. Placed(k)' /\ Spent(k)'
  BY <1>1, <1>2, <1>3 DEF Member, Placed, Spent, Untouched, Sum, Early, OneCall, Typed,
     pool, calls, verdicts
<1>8. Ended(k)' /\ Chosen(k)'
  BY <1>1, <1>2, <1>3 DEF Member, Placed, Ended, Chosen, Untouched, Sum, Early, Typed,
     pool, calls, verdicts
<1>7. Reported(k)'
  BY <1>1, <1>2, <1>3 DEF Member, Placed, Spent, Reported, Sum, OneCall, Typed, pool,
     calls, verdicts
<1> QED
  BY <1>2, <1>4, <1>5, <1>6, <1>7, <1>8, OneMember, WorkersBounded DEF Member, pool

(* A row that changes its client never gets the first one back.            *)
LEMMA RekeyKeeps ==
  ASSUME FanoutInv, NEW k \in Members, Rekey(k)
  PROVE  FanoutInv'
<1>1. /\ FanoutTypeOK /\ Counts /\ Pooled /\ Typed(k) /\ Member(k) /\ cmr' = cmr
      /\ setup.changes \in Nat /\ (~cmr => setup.changes = 0)
  BY MembersTyped, SetupFacts DEF FanoutInv, FanoutTypeOK, Rekey, cmr
<1>2. /\ changes < setup.changes /\ key[k] # 0 /\ changes' = changes + 1
      /\ key'[k] \in {0, key[k] + 1} /\ key' = [key EXCEPT ![k] = key'[k]]
      /\ UNCHANGED <<setup, phase, granted, aborted, pool, calls, verdicts,
                     box, late, ran, other>>
  BY <1>1 DEF Rekey, FanoutTypeOK
<1>3. cmr /\ key'[k] # 1 /\ key'[k] \in 0..setup.changes + 1 /\ key'[k] <= changes' + 1
      /\ changes \in Nat
  BY <1>1, <1>2 DEF Counts, Typed
<1>4. Only(k)
  BY <1>1, <1>2, <1>3 DEF Only, FanoutTypeOK, Counts, pool, calls, verdicts
<1>5. Typed(k)'
  BY <1>1, <1>2, <1>3 DEF Typed, pool, calls, verdicts
<1>6. Member(k)'
  BY <1>1, <1>2, <1>3 DEF Member, Placed, Spent, Ended, Reported, Chosen, Untouched, Sum,
     Early, OneCall, Typed, pool, calls, verdicts
<1> QED
  BY <1>2, <1>4, <1>5, <1>6, OneMember, WorkersBounded DEF pool

LEMMA TakeKeeps ==
  ASSUME FanoutInv, Take
  PROVE  FanoutInv'
<1>1. /\ FanoutTypeOK /\ Counts /\ Pooled /\ setup \in Setups
      /\ IsFiniteSet(Busy) /\ setup.concurrency \in Nat
  BY SetupFacts DEF FanoutInv, FanoutTypeOK
<1>2. PICK k \in items :
        /\ items' = items \ {k}
        /\ at' = [at EXCEPT ![k] =
             CASE aborted -> "back"
               [] ~aborted /\ phase = "preflight" -> "probing"
               [] ~aborted /\ phase = "dispatch" -> IF cmr THEN "binding" ELSE "opening"]
  BY DEF Take
<1>3. k \in Members /\ Typed(k) /\ Member(k) /\ at[k] = "idle"
  BY <1>1, <1>2, MembersTyped DEF FanoutInv, FanoutTypeOK
<1>4. /\ phase \in {"preflight", "dispatch"} /\ Cardinality(Busy) < setup.concurrency
      /\ UNCHANGED <<setup, phase, granted, aborted, calls, verdicts, world>>
      /\ cmr' = cmr /\ Members' = Members
  BY DEF Take, WorkerFree, cmr, Members
<1>5. \/ at'[k] = "back" /\ aborted
      \/ at'[k] = "probing" /\ ~aborted /\ phase = "preflight"
      \/ at'[k] = "binding" /\ ~aborted /\ phase = "dispatch" /\ cmr
      \/ at'[k] = "opening" /\ ~aborted /\ phase = "dispatch" /\ ~cmr
  BY <1>1, <1>2, <1>3, <1>4 DEF FanoutTypeOK
<1>6. Only(k)
  <2>1. at' = [at EXCEPT ![k] = at'[k]]
    <3>1. PICK v : at' = [at EXCEPT ![k] = v]
      BY <1>2
    <3> QED
      BY <1>1, <1>3, <3>1 DEF FanoutTypeOK
  <2>2. changes' \in {changes, changes + 1} /\ changes' <= setup.changes
    BY <1>1, <1>4, SetupFacts DEF Counts, world
  <2> QED
    BY <1>1, <1>2, <1>3, <1>4, <2>1, <2>2 DEF Only, FanoutTypeOK, Counts, calls, verdicts, world
<1>7. Cardinality(Busy') <= setup.concurrency
  <2>1. Busy' \subseteq Busy \cup {k}
    BY <1>1, <1>2, <1>4 DEF Busy, FanoutTypeOK
  <2>2. IsFiniteSet(Busy \cup {k}) /\ Cardinality(Busy \cup {k}) <= Cardinality(Busy) + 1
    <3>1. Cardinality(Busy) \in Nat
      BY <1>1, FS_CardinalityType
    <3>2. Cardinality(Busy \cup {k}) \in {Cardinality(Busy), Cardinality(Busy) + 1}
      BY <1>1, FS_AddElement
    <3> QED
      BY <1>1, <3>1, <3>2, FS_AddElement
  <2>3. Cardinality(Busy') <= Cardinality(Busy \cup {k}) /\ IsFiniteSet(Busy')
    BY <2>1, <2>2, FS_Subset
  <2> QED
    BY <1>1, <1>4, <2>2, <2>3, FS_CardinalityType
<1>8. Typed(k)'
  BY <1>3, <1>4, <1>5 DEF Typed, Places, calls, verdicts, world
<1>9. Placed(k)' /\ Spent(k)' /\ Ended(k)'
  BY <1>3, <1>4, <1>5 DEF Member, Placed, Spent, Ended, Untouched, Sum, Early, OneCall,
     calls, verdicts, world
<1>10. Reported(k)' /\ Chosen(k)'
  <2>1. k \notin items' /\ report[k] = "none"
    BY <1>2, <1>3 DEF Member, Reported
  <2>2. phase = "dispatch" => judged[k] = "valid"
    BY <1>2, <1>3 DEF Member, Chosen
  <2>3. setup.write /\ ~granted /\ phase = "dispatch" => aborted
    BY <1>1, <1>2 DEF Pooled
  <2> QED
    BY <1>3, <1>4, <1>5, <2>1, <2>2, <2>3 DEF Member, Placed, Reported, Chosen, Untouched, Sum,
       Early, calls, verdicts, world
<1> QED
  BY <1>3, <1>6, <1>7, <1>8, <1>9, <1>10, OneMember DEF Member

(* When the pool is over every worker is back and no item is left.         *)
LEMMA PoolIsOver ==
  ASSUME FanoutTypeOK, PoolOver
  PROVE  items = {} /\ \A m \in Members : at[m] \in {"idle", "back"}
BY DEF FanoutTypeOK, PoolOver, Busy

(* The steps of the command as a whole leave the members' calls alone.     *)
LEMMA WholeKeeps ==
  ASSUME FanoutInv, UNCHANGED <<setup, calls, judged, world>>,
         phase' \in {"preflight", "bind", "gate", "dispatch", "after", "done", "threw"},
         granted' \in BOOLEAN, aborted' \in BOOLEAN, Pooled',
         items' \subseteq Members, at' \in [Members -> Places], Busy' \subseteq Busy,
         \A m \in items' : at'[m] = "idle",
         report' \in [Members -> {"none", "ok", "failed", "not-sent", "unknown", "error"}],
         \A m \in Members : Member(m)'
  PROVE  FanoutInv'
<1>1. FanoutTypeOK /\ Counts /\ setup' = setup /\ Members' = Members
  BY DEF FanoutInv, Members
<1>2. Cardinality(Busy') <= setup.concurrency
  BY <1>1, BusyShrinks DEF FanoutTypeOK
<1>3. FanoutTypeOK'
  BY <1>1, <1>2 DEF FanoutTypeOK, calls, world
<1>4. Counts'
  BY <1>1 DEF Counts, world
<1> QED
  BY <1>1, <1>3, <1>4 DEF FanoutInv

LEMMA SelectKeeps ==
  ASSUME FanoutInv, Select
  PROVE  FanoutInv'
<1>1. /\ FanoutTypeOK /\ Pooled /\ cmr /\ cmr' = cmr /\ Members' = Members /\ items = {}
      /\ \A m \in Members : Member(m) /\ Typed(m) /\ at[m] \in {"idle", "back"}
  BY PoolIsOver, MembersTyped DEF FanoutInv, Select, Pooled, cmr, Members
<1>2. /\ phase = "preflight" /\ phase' \in {"threw", "bind"}
      /\ phase' = "bind" => ~aborted /\ ~Incomplete
      /\ report' = [m \in Members |-> IF judged[m] = "excluded" THEN "not-sent" ELSE "none"]
      /\ UNCHANGED <<setup, granted, aborted, pool, calls, judged, world>>
  BY DEF Select
<1>3. ASSUME NEW m \in Members
      PROVE  Member(m)'
  <2>1. Placed(m)' /\ Spent(m)' /\ Ended(m)'
    BY <1>1, <1>2 DEF Member, Placed, Spent, Ended, Untouched, Sum, Early, OneCall,
       pool, calls, world
  <2>2. report'[m] = IF judged[m] = "excluded" THEN "not-sent" ELSE "none"
    BY <1>2
  <2>3. Reported(m)'
    BY <1>1, <1>2, <2>2 DEF Member, Placed, Reported, Untouched, Sum, Early, pool, calls, world
  <2>4. phase' = "bind" => judged[m] \notin {"unasked", "unknown"}
    BY <1>1, <1>2 DEF Member, Chosen, Incomplete
  <2>5. Chosen(m)'
    BY <1>1, <1>2, <2>2, <2>4 DEF Member, Chosen, Placed, Sum, Early, pool, calls, world
  <2> QED
    BY <2>1, <2>3, <2>5 DEF Member
<1>4. Pooled' /\ Busy' = Busy
  BY <1>1, <1>2 DEF Pooled, pool, Busy
<1> QED
  BY <1>1, <1>2, <1>3, <1>4, WholeKeeps DEF FanoutTypeOK, pool

LEMMA BindKeeps ==
  ASSUME FanoutInv, Bind
  PROVE  FanoutInv'
<1>1. /\ FanoutTypeOK /\ Pooled /\ cmr' = cmr /\ Members' = Members
      /\ \A m \in Members : Member(m) /\ Typed(m)
  BY MembersTyped DEF FanoutInv, Bind, cmr, Members
<1>2. /\ phase = "bind" /\ phase' \in {"threw", "gate"} /\ items = {}
      /\ UNCHANGED <<setup, granted, aborted, pool, calls, judged, world>>
  BY <1>1 DEF Bind, Pooled
<1>3. /\ report' \in [Members -> {"none", "ok", "failed", "not-sent", "unknown", "error"}]
      /\ \A m \in Members : report'[m] \in {report[m], "not-sent"}
  BY <1>1 DEF Bind, FanoutTypeOK
<1>4. ASSUME NEW m \in Members
      PROVE  Member(m)'
  <2>1. Placed(m)' /\ Spent(m)' /\ Ended(m)'
    BY <1>1, <1>2 DEF Member, Placed, Spent, Ended, Untouched, Sum, Early, OneCall,
       pool, calls, world
  <2>2. Reported(m)' /\ Chosen(m)'
    BY <1>1, <1>2, <1>3 DEF Member, Placed, Reported, Chosen, Untouched, Sum, Early,
       pool, calls, world
  <2> QED
    BY <2>1, <2>2 DEF Member
<1>5. Pooled' /\ Busy' = Busy
  BY <1>1, <1>2 DEF Pooled, pool, Busy
<1> QED
  BY <1>1, <1>2, <1>3, <1>4, <1>5, WholeKeeps DEF FanoutTypeOK, pool

LEMMA GateKeeps ==
  ASSUME FanoutInv, Gate
  PROVE  FanoutInv'
<1>1. /\ FanoutTypeOK /\ Pooled /\ cmr' = cmr /\ Members' = Members
      /\ \A m \in Members : Member(m) /\ Typed(m)
  BY MembersTyped DEF FanoutInv, Gate, cmr, Members
<1>2. /\ phase = "gate" /\ phase' \in {"threw", "dispatch"} /\ granted' \in {granted, TRUE}
      /\ items' = Runnable /\ at' = Each("idle")
      /\ UNCHANGED <<setup, aborted, calls, verdicts, world>>
  BY DEF Gate, StartPool
<1>3. setup.write /\ ~granted' => phase' = "threw" \/ aborted \/ Runnable = {}
  BY <1>1 DEF Gate, FanoutTypeOK
<1>4. /\ items' \subseteq Members /\ at' \in [Members -> Places] /\ Busy' = {}
      /\ \A m \in Members : at'[m] = "idle"
  BY <1>1, <1>2 DEF Runnable, Selected, Each, Places, Busy
<1>5. ASSUME NEW m \in Members
      PROVE  Member(m)'
  <2>1. at'[m] = "idle" /\ Untouched(m) /\ Untouched(m)' /\ Sum(m)' = Sum(m) /\ Sum(m) = 0
    BY <1>1, <1>2, <1>4 DEF Member, Placed, Untouched, Sum, Early, calls, world
  <2>2. m \in items' => report[m] = "none" /\ judged[m] = "valid"
    BY <1>1, <1>2 DEF Runnable, Selected, Member, Chosen
  <2>3. Placed(m)' /\ Spent(m)' /\ Ended(m)'
    <3>1. /\ box'[m] = "none" /\ out'[m] = "none" /\ key'[m] = key[m] /\ other'[m] = other[m]
          /\ Spent(m)
      BY <1>1, <1>2, <2>1 DEF Untouched, Member, calls, world
    <3>2. Placed(m)'
      BY <1>2, <2>1, <3>1 DEF Placed
    <3>3. Spent(m)' /\ Ended(m)'
      BY <1>1, <1>2, <2>1, <3>1 DEF Spent, Ended, OneCall
    <3> QED
      BY <3>2, <3>3
  <2>4. Reported(m)' /\ Chosen(m)'
    BY <1>1, <1>2, <2>1, <2>2 DEF Member, Reported, Chosen, Early, verdicts, world
  <2> QED
    BY <2>3, <2>4 DEF Member
<1>6. Pooled'
  BY <1>1, <1>2, <1>3 DEF Pooled
<1>7. /\ granted' \in BOOLEAN /\ aborted' \in BOOLEAN
      /\ report' \in [Members -> {"none", "ok", "failed", "not-sent", "unknown", "error"}]
  BY <1>1, <1>2 DEF FanoutTypeOK, verdicts
<1> QED
  BY <1>2, <1>4, <1>5, <1>6, <1>7, WholeKeeps DEF verdicts

LEMMA DispatchedKeeps ==
  ASSUME FanoutInv, Dispatched
  PROVE  FanoutInv'
<1>1. /\ FanoutTypeOK /\ Pooled /\ cmr' = cmr /\ Members' = Members /\ items = {}
      /\ \A m \in Members : Member(m) /\ Typed(m) /\ at[m] \in {"idle", "back"}
  BY PoolIsOver, MembersTyped DEF FanoutInv, Dispatched, cmr, Members
<1>2. /\ phase = "dispatch" /\ phase' = IF cmr THEN "after" ELSE "done"
      /\ UNCHANGED <<setup, granted, aborted, pool, calls, verdicts, world>>
  BY DEF Dispatched
<1>3. ASSUME NEW m \in Members
      PROVE  Member(m)'
  BY <1>1, <1>2 DEF Member, Placed, Spent, Ended, Reported, Chosen, Untouched, Sum, Early,
     OneCall, pool, calls, verdicts, world
<1>4. Pooled' /\ Busy' = Busy
  BY <1>1, <1>2 DEF Pooled, pool, Busy
<1> QED
  BY <1>1, <1>2, <1>3, <1>4, WholeKeeps DEF FanoutTypeOK, pool, verdicts

(* The envelope of a call through CMR against what is known of it.         *)
LEMMA Judged ==
  ASSUME FanoutInv, cmr, NEW m \in Members, at[m] = "back", NEW bound \in BOOLEAN,
         bound => key[m] = 1, box[m] = "none"
  PROVE  /\ Judge(m, bound) \in {"ok", "failed", "not-sent", "unknown"}
         /\ Judge(m, bound) = "ok" => ran[m] >= 1 /\ other[m] = 0
         /\ Judge(m, bound) = "not-sent" => Sum(m) = 0
         /\ Judge(m, bound) = "failed" => ran[m] = 1 /\ other[m] = 0
<1>1. Typed(m) /\ Spent(m) /\ Ended(m)
  BY MembersTyped DEF FanoutInv, Member
<1>2. /\ out[m] \in {"none", "unselected", "success", "failed", "timeout", "skipped"}
      /\ dispatched[m] \in BOOLEAN
  BY <1>1 DEF Typed, Final
<1>3. CASE out[m] = "unselected" \/ (out[m] = "none" /\ ~dispatched[m]) \/ out[m] = "skipped"
  <2>1. Judge(m, bound) = "not-sent"
    BY <1>3 DEF Judge, Final
  <2> QED
    BY <1>1, <1>3, <2>1 DEF Ended
<1>4. CASE out[m] \in {"success", "failed"} /\ bound
  <2>1. Judge(m, bound) = IF out[m] = "success" THEN "ok" ELSE "failed"
    BY <1>4 DEF Judge, Final
  <2>2. ran[m] + other[m] >= 1 /\ other[m] = 0 /\ Sum(m) <= 1
    BY <1>1, <1>4 DEF Spent, Ended, OneCall
  <2>3. ran[m] = 1
    BY <1>1, <2>2 DEF Sum, Typed
  <2> QED
    BY <2>1, <2>2, <2>3
<1>5. CASE \/ out[m] = "timeout" \/ (out[m] = "none" /\ dispatched[m])
           \/ out[m] \in {"success", "failed"} /\ ~bound
  BY <1>5 DEF Judge, Final
<1> QED
  BY <1>2, <1>3, <1>4, <1>5

LEMMA ConcludeKeeps ==
  ASSUME FanoutInv, Conclude
  PROVE  FanoutInv'
<1>1. /\ FanoutTypeOK /\ Pooled /\ cmr' = cmr /\ cmr /\ Members' = Members
      /\ \A m \in Members : Member(m) /\ Typed(m)
  BY MembersTyped DEF FanoutInv, Conclude, cmr, Members, Pooled
<1>2. /\ phase = "after" /\ phase' = "done"
      /\ UNCHANGED <<setup, granted, aborted, pool, calls, judged, world>>
  BY DEF Conclude
<1>3. PICK read \in BOOLEAN :
        report' = [m \in Members |->
          IF at[m] = "back" THEN Judge(m, read /\ key[m] = 1) ELSE report[m]]
  BY DEF Conclude
<1>4. ASSUME NEW m \in Members
      PROVE  /\ Reported(m)'
             /\ report'[m] \in {"none", "ok", "failed", "not-sent", "unknown", "error"}
  <2>1. report'[m] = IF at[m] = "back" THEN Judge(m, read /\ key[m] = 1) ELSE report[m]
    BY <1>3
  <2>2. CASE at[m] = "back"
    <3>1. box[m] = "none" /\ m \notin items
      BY <1>1, <2>2 DEF Member, Placed, FanoutTypeOK
    <3>2. (read /\ key[m] = 1) \in BOOLEAN
      OBVIOUS
    <3>3. /\ report'[m] \in {"ok", "failed", "not-sent", "unknown"}
          /\ report'[m] = "ok" => ran[m] >= 1 /\ other[m] = 0
          /\ report'[m] = "not-sent" => Sum(m) = 0
          /\ report'[m] = "failed" => ran[m] = 1 /\ other[m] = 0
      BY <1>1, <2>1, <2>2, <3>1, <3>2, Judged
    <3> QED
      BY <1>1, <1>2, <2>2, <3>1, <3>3 DEF Reported, Sum, pool, world
  <2>3. CASE at[m] # "back"
    BY <1>1, <1>2, <2>1, <2>3 DEF Member, Typed, Reported, Sum, pool, world
  <2> QED
    BY <2>2, <2>3
<1>5. ASSUME NEW m \in Members
      PROVE  Member(m)'
  BY <1>1, <1>2, <1>4 DEF Member, Placed, Spent, Ended, Chosen, Untouched, Sum, Early,
     OneCall, pool, calls, world
<1>6. Pooled' /\ Busy' = Busy
  BY <1>1, <1>2 DEF Pooled, pool, Busy
<1>7. report' \in [Members -> {"none", "ok", "failed", "not-sent", "unknown", "error"}]
  BY <1>3, <1>4
<1> QED
  BY <1>1, <1>2, <1>5, <1>6, <1>7, WholeKeeps DEF FanoutTypeOK, pool

LEMMA AbortKeeps ==
  ASSUME FanoutInv, Abort
  PROVE  FanoutInv'
<1>1. /\ FanoutTypeOK /\ Pooled /\ cmr' = cmr /\ Members' = Members
      /\ \A m \in Members : Member(m)
  BY DEF FanoutInv, Abort, cmr, Members
<1>2. /\ aborted' = TRUE
      /\ UNCHANGED <<setup, phase, granted, pool, calls, verdicts, world>>
  BY DEF Abort
<1>3. ASSUME NEW m \in Members
      PROVE  Member(m)'
  BY <1>1, <1>2 DEF Member, Placed, Spent, Ended, Reported, Chosen, Untouched, Sum, Early,
     OneCall, pool, calls, verdicts, world
<1>4. Pooled' /\ Busy' = Busy
  BY <1>1, <1>2 DEF Pooled, pool, Busy
<1> QED
  BY <1>1, <1>2, <1>3, <1>4, WholeKeeps DEF FanoutTypeOK, pool, verdicts

LEMMA FanoutStarts ==
  ASSUME FanoutInit
  PROVE  FanoutInv
<1>1. /\ setup \in Setups /\ setup.changes \in Nat /\ setup.concurrency \in Nat \ {0}
      /\ MaxRetries \in Nat /\ cmr \in BOOLEAN
  BY SetupFacts, FanoutConstants DEF FanoutInit, cmr
<1>2. Busy = {} /\ Cardinality(Busy) = 0
  BY FS_EmptySet DEF FanoutInit, Busy, Each
<1>3. FanoutTypeOK
  <2>1. /\ at \in [Members -> Places] /\ attempt \in [Members -> 0..MaxRetries]
        /\ dispatched \in [Members -> BOOLEAN]
        /\ out \in [Members -> Final \cup {"none", "unselected"}]
        /\ report \in [Members -> {"none", "ok", "failed", "not-sent", "unknown", "error"}]
    BY <1>1 DEF FanoutInit, Each, Places
  <2>2. /\ judged \in [Members -> {"unasked", "unselected", "valid", "excluded", "unknown"}]
        /\ key \in [Members -> 0..setup.changes + 1]
        /\ box \in [Members -> Final \cup {"none", "asked", "unselected"}]
    BY <1>1 DEF FanoutInit, Each
  <2>3. items \subseteq Members /\ \A m \in items : at[m] = "idle"
    BY DEF FanoutInit, Each
  <2>4. /\ phase \in {"preflight", "bind", "gate", "dispatch", "after", "done", "threw"}
        /\ granted \in BOOLEAN /\ aborted \in BOOLEAN
    BY DEF FanoutInit
  <2> QED
    BY <1>1, <1>2, <2>1, <2>2, <2>3, <2>4 DEF FanoutTypeOK
<1>4. Counts /\ Pooled
  BY <1>1 DEF FanoutInit, Counts, Pooled, Each
<1>5. ASSUME NEW m \in Members
      PROVE  Member(m)
  <2>1. /\ at[m] = "idle" /\ dispatched[m] = FALSE /\ out[m] = "none" /\ box[m] = "none"
        /\ report[m] = "none" /\ key[m] = 1 /\ late[m] = 0 /\ ran[m] = 0 /\ other[m] = 0
        /\ judged[m] = IF cmr THEN "unasked" ELSE "valid"
    BY DEF FanoutInit, Each
  <2>2. phase = (IF cmr THEN "preflight" ELSE "gate") /\ items = Members
    BY DEF FanoutInit
  <2>3. Sum(m) = 0 /\ Untouched(m)
    BY <2>1 DEF Sum, Untouched
  <2>4. Placed(m) /\ Spent(m) /\ Ended(m)
    BY <2>1, <2>2, <2>3 DEF Placed, Spent, Ended
  <2>5. Reported(m) /\ Chosen(m)
    BY <2>1, <2>2, <2>3 DEF Reported, Chosen, Early
  <2> QED
    BY <2>4, <2>5 DEF Member
<1> QED
  BY <1>3, <1>4, <1>5 DEF FanoutInv

LEMMA FanoutStutters ==
  ASSUME FanoutInv, UNCHANGED fanVars
  PROVE  FanoutInv'
BY DEF FanoutInv, fanVars, pool, calls, verdicts, world, FanoutTypeOK, Counts, Pooled, Member,
   Placed, Spent, Ended, Reported, Chosen, Untouched, Sum, Early, OneCall, cmr, Members, Busy

-----------------------------------------------------------------------------
(* Every reachable state satisfies FanoutInv, the inductive invariant of the
   command: whatever order workers, routers, the inventory and the caller act in. *)
THEOREM FanoutInvariant == FanoutSpec => []FanoutInv
<1>1. FanoutInit => FanoutInv
  BY FanoutStarts
<1>2. FanoutInv /\ [FanoutNext]_fanVars => FanoutInv'
  <2> SUFFICES ASSUME FanoutInv, [FanoutNext]_fanVars
               PROVE  FanoutInv'
    OBVIOUS
  <2>1. CASE Coordinates
    BY <2>1, TakeKeeps, SelectKeeps, BindKeeps, DispatchedKeeps, ConcludeKeeps DEF Coordinates
  <2>2. CASE Gate
    BY <2>2, GateKeeps
  <2>3. CASE Abort
    BY <2>3, AbortKeeps
  <2>4. ASSUME NEW m \in Members, Works(m)
        PROVE  FanoutInv'
    BY <2>4, ProbeKeeps, RebindKeeps, SendKeeps, AnswerKeeps, FailKeeps, RefusedKeeps,
       AgainKeeps DEF Works
  <2>5. ASSUME NEW m \in Members, Far(m)
        PROVE  FanoutInv'
    BY <2>5, ServeKeeps, RunsLateKeeps, RekeyKeeps DEF Far
  <2>6. CASE UNCHANGED fanVars
    BY <2>6, FanoutStutters
  <2> QED
    BY <2>1, <2>2, <2>3, <2>4, <2>5, <2>6 DEF FanoutNext
<1> QED
  BY <1>1, <1>2, PTL DEF FanoutSpec

(* The types, and runBoundedPool's promise: never more workers at once than
   were asked for, whatever makes them wait.                               *)
THEOREM FanoutTypeCorrect == FanoutSpec => []FanoutTypeOK
<1>1. FanoutInv => FanoutTypeOK
  BY DEF FanoutInv
<1> QED
  BY <1>1, FanoutInvariant, PTL

(* No write, and nothing sent through CMR, runs twice on a member: not by a
   retry of runWithRetry, not by a late answer, not by a second worker.    *)
THEOREM FanoutSendsOnce == FanoutSpec => []AtMostOnce
<1>1. FanoutInv => AtMostOnce
  BY DEF FanoutInv, Member, Spent, Sum, OneCall, AtMostOnce
<1> QED
  BY <1>1, FanoutInvariant, PTL

(* executeCmr sends nothing before the membership of every row is known, to no
   row but a selected and valid one, and no write without its confirmation. *)
THEOREM FanoutWhole == FanoutSpec => []SelectionWhole
<1>1. FanoutInv => SelectionWhole
  <2> SUFFICES ASSUME FanoutInv, NEW k \in Members, Somewhere(k)
               PROVE  /\ \A m \in Members : judged[m] \notin {"unasked", "unknown"}
                      /\ \A m \in Members : Somewhere(m) => judged[m] = "valid"
                      /\ setup.write => granted
    BY DEF SelectionWhole
  <2>1. \A m \in Members : Member(m) /\ Typed(m) /\ (Somewhere(m) => Sum(m) # 0)
    BY MembersTyped DEF FanoutInv, Typed, Somewhere, Sum
  <2>2. ~Early /\ phase \notin {"preflight", "threw"}
    BY <2>1 DEF Member, Placed, Untouched, Early
  <2>3. \A m \in Members : judged[m] \notin {"unasked", "unknown"}
    BY <2>1, <2>2 DEF Member, Chosen
  <2>4. \A m \in Members : Somewhere(m) => judged[m] = "valid"
    BY <2>1, <2>2 DEF Member, Placed, Untouched, Chosen
  <2>5. setup.write => granted
    BY <2>1 DEF Member, Chosen
  <2> QED
    BY <2>3, <2>4, <2>5
<1> QED
  BY <1>1, FanoutInvariant, PTL

(* What an envelope says is so, whatever calls that were given up do later and
   whatever the inventory did in between (judgeDispatch, sentWriteWarnings). *)
THEOREM FanoutTruthful == FanoutSpec => []Truthful
<1>1. FanoutInv => Truthful
  <2> SUFFICES ASSUME FanoutInv
               PROVE  Truthful
    OBVIOUS
  <2>1. \A m \in Members : Member(m) /\ Typed(m)
    BY MembersTyped DEF FanoutInv
  <2>2. ASSUME NEW m \in Members
        PROVE  /\ report[m] = "ok" => ran[m] >= 1 /\ other[m] = 0
               /\ report[m] = "not-sent" => ~Somewhere(m) /\ late[m] = 0
               /\ (report[m] = "failed" /\ cmr) => ran[m] = 1 /\ other[m] = 0
               /\ other[m] > 0 => report[m] \in {"none", "unknown"}
    BY <2>1 DEF Member, Typed, Reported, Spent, Somewhere, Sum
  <2>3. ASSUME NEW m \in Members, phase = "threw"
        PROVE  ~Somewhere(m) /\ late[m] = 0
    BY <2>1, <2>3 DEF Member, Typed, Placed, Untouched, Early, Somewhere, Sum
  <2> QED
    BY <2>2, <2>3 DEF Truthful
<1> QED
  BY <1>1, FanoutInvariant, PTL

=============================================================================
