# A formal model of centrs

centrs is a command-line tool, library and MCP server that reads and changes MikroTik
routers. It keeps its devices in WinBox's own address book (the *CDB*, a binary file) and
talks to routers over several protocols. Most of the 72,000 lines under `src/src` parse
and render text; the part that can go wrong in ways no test reaches is small and
concurrent: several processes that rewrite one file, one connection that carries many
conversations, datagrams that are lost or reordered, and retries of what may already
have happened. This directory models that part.

## Inventory

| component | code | state | operations | what is hard | what makes it correct |
|---|---|---|---|---|---|
| **CDB lock** | `data/winbox-cdb-lock.ts` | `<cdb>.lock` (pid, host, token), the SQLite guard `<cdb>.lock.guard` | acquire, break a dead lock, release | any process may die at any await; pids are reused; two breakers; unlink by name | one live call inside; a lock is removed by its owner or once its owner is dead; a dead lock is recovered |
| **CDB store** | `devices.ts`, `data/winbox-cdb-write.ts`, `discover.ts` | the CDB file, each caller's snapshot | load, create, add, set, remove, init, encrypt, discover --save | validation on a stale snapshot, WinBox writing without the lock, replays | every mutation is applied once to what the file holds at that instant; nothing else is lost |
| **CDB backups** | `data/winbox-cdb-write.ts` | stamped copies | copy, order, prune | several copies in one millisecond, clocks that step back | the newest copies survive |
| **retrieve --follow** | `retrieve-follow.ts` | held ids, versions, queue, sweep | listen, snapshot, membership, sweep, stop | answers older than later changes | the reported set converges to the router's; one summary |
| **native API session** | `protocols/native-api.ts` | pending tags, subscriptions | talk, listen, cancel, close | replies in any order, cancel races | each command settles once, with its own replies |
| **MAC-Telnet** | `protocols/mac-telnet.ts`, `-console.ts` | counters, one pending frame, waiters | handshake, data, ack, tick, run | loss, duplication, reordering, late output | bytes are delivered in order without gaps; waiters settle |
| **CMR dispatch** | `execute-cmr.ts` | inventory snapshots, members, outcomes | preflight, rebind, dispatch | the fleet changes between check and call | no command is reported a success on a device that was not validated |
| **fan-out** | `core/fanout.ts`, `*-fanout.ts` | pool, attempts | run bounded, retry | a retry of a sent write | a sent write is not sent again |
| transfer | `transfer.ts` | remote files | upload, download, copy | several calls per operation | no half-made file is taken for a whole one |
| retrieve --wait, --sample | `retrieve-wait.ts`, `retrieve-sample.ts` | deadline, attempts | poll | deadline against completion | one result |
| bandwidth test | `btest.ts`, `protocols/btest-session.ts` | counters | loops | stop, sequence gaps | totals add up |
| the rest | `explain*`, `cli/`, `mcp/`, `resolver/`, `settings.ts`, `api.ts`, `execute.ts`, `retrieve.ts`, `terminal.ts` | none beyond one call | parsing, resolution, rendering | | |

How they interact: the command line, the MCP server and `discover --save` are the
*callers* of the CDB store; the store is built on the lock; every device command resolves
its target from a loaded CDB, then goes through an adapter to a native API, REST, SSH or
MAC-Telnet session; groups of devices go through the fan-out engine, and a CMR controller
through the CMR dispatch.

`PROJECT.json` lists the components with what is modelled of each, and the hazards at
the lines where they bite, with the properties that cover them.

(Components in bold are modelled.)

## Plan

Built, in this order:

1. **CDB lock, store and backups**: `CdbMutex` (abstract) <- `CdbLock`; `CdbRegister`
   (abstract) <- `CdbStore`, which uses `CdbMutex` as its lock; `CdbBackups`.
2. **Native API session**: `NativeCalls` (abstract) <- `NativeSession`, over sentences;
   `NativeCodec` and `NativeWire`, how sentences go as bytes.
3. **retrieve --follow**: `RetrieveFollow`, over the order of replies that one native
   connection guarantees.
4. **MAC-Telnet**: `MacTelnet`, the session and its console over bad datagrams.
5. **Fan-out and CMR dispatch**: `Fanout`, one pool with two kinds of members.

Left, in this order: transfer (an upload is two calls, a download many, and its fan-out
lacks the veto), `retrieve --wait` and `--sample`, the counters of the bandwidth test, the
wrap of MAC-Telnet's counters. Every invariant and every safety property the passing runs
check is proved; theorems worth proving next are about what is modelled next.

## What is modelled

### `CdbMutex`, `CdbLock`

`CdbLock` translates `withWinBoxCdbLock`. An actor is a *call*; a call runs in a process,
a process on a host with a pid, and a pid may be that of an earlier process of the host.
Every `await` separates two actions:

| code | actions |
|---|---|
| `acquireLock` | `Acquire`, `ReadHolder`, `ProbeHolder`, `Backoff`, `Elapse`, `GiveUp` |
| `tryCreateLock` | `TryLink` (`link()` of a private file: it appears complete or not at all) |
| `breakDeadLock` | `GuardBegin`, `GuardReread`, `GuardRecheck`, `GuardUnlink`, `GuardClose` |
| `releaseLock` | `Leave`, `ReleaseRead`, `ReleaseUnlink` |
| I/O errors | `ReadFault`, `AcquireFault`, `ReleaseFault` |
| processes (external) | `Start`, `Crash` |

`lock` is the record in the lock file: the call (hence pid and hostname) and the ordinal
of its acquisition (the random token). `guard` is the write transaction on the guard
database, which the operating system ends with the process. `dead` and `again` are the two
readings of `breakDeadLock`. A lock file that cannot be parsed is `Unreadable`; it may be
there at the start.

Assumption: a hostname stands for one pid namespace, as the code takes it to (two
containers that share a hostname and a directory are outside the model).

`CdbMutex` is what its callers rely on; `CdbLock` implements it (`ImplementsMutex`, with
`LockMode` as the refinement mapping).

### `CdbData`, `CdbRegister`, `CdbStore`

`CdbData` holds the file's contents and what each verb makes of a snapshot: a record is
its identity `(target, user)` and the set of callers whose edits it carries, enough to tell
a lost edit, a doubled record and a change of the wrong record apart. The revision of a
file is a hash of its bytes; an encrypted write rolls a new salt, an open file with the
same records has the same revision again, and the model keeps that difference.

`CdbStore` is the transaction, one action per await: `Load` and `Create`
(`loadCdb`, `initCdb`, `createEmptyCdbNoClobber`), `Read` (the bytes, the password, and
the validation by `addDevice`, `setDevice`, `removeDevice`, `encryptCdb` or
`saveDiscoveredNeighbors`), `LockEnter`/`LockRefuse` (`writeWinBoxCdb`), `Check`
(`assertWinBoxCdbRevision`), `Replace` (the rename), `Release` (the lock, and the next
round of `retryOnCdbConflict` or of `discover --save`), `LoadFault`, `WriteFault`,
`Crash`, and `ForeignWrite`: WinBox saving its list under no lock.

The lock is `CdbMutex`, which `CdbLock` implements: the composition of the two is the
whole transaction, checked and proved in two layers.

`CdbRegister` is the promise: one atomic file; a mutation takes effect in one step on what
the file holds then, or not at all. `lost`, `late` and `foreign` are history variables the
properties use and no guard but a bound reads.

### `CdbBackups`

The copies `writeUnlocked` leaves beside the file: the name is a stamp and, when it is
taken, a number one past the greatest that is left (`NextSuffix`); all but the newest by
name (`Newer`) are removed (`Stale`). Writers take turns under the lock, so a copy and its
pruning are one step, `Overwrites`. The clock may show any stamp at each. An unlink that
fails is passed over by the code, and the process may end while it prunes: any part of what
is stale may stay. `writes` remembers the overwrites, and `of` in a copy which one it is of:
history that no guard but the bound reads. A copy made by hand under a name of this form is
outside the model.

### `NativeCodec`, `NativeWire`, `NativeCalls`, `NativeSession`

`NativeCodec` is the framing: `EncodeLength` and `Decode` (a length word in one to five
bytes), `EncodeSentence`, and `PushRaw`, the reader that is fed whatever chunk TCP delivers.
`NativeWire` is one direction of a connection: `Says` writes a sentence to the wire,
`Delivers` hands some of its bytes to the reader (`handleData`). `said` and `heard` are the
words on both sides, a sentence closed by an empty word, as on the wire. `NativeSession`
takes this for granted: its link carries sentences, and a chunk is some of them.

`NativeSession` is one connection with its session and router.

| code | actions |
|---|---|
| `connectNativeApi`, `login` | `Connected`, `LoginAnswered`, `ConnectGivenUp` |
| `talk` | `Talks`, `ToWaiter` |
| `listen` (a generator) | `Listens`, `Yields`, `Breaks`, `Ends`, `Abort`, `GraceExpires`, `ToSubscription` |
| `cancel` | `Cancel`, part of the three steps that give a stream up |
| `handleData`, `dispatch` | `Chunk`, then one of `ToWaiter`, `ToSubscription`, `ToNobody`, `Fatal` for each sentence |
| `close`, `handleClose`, `failAll` | `CallerCloses`, `LinkLost`, `FailAll` (in the steps that call it) |
| the router (external) | `RouterTakes`, `RouterRow`, `RouterEnds`, `RouterFails` |

A chunk is handled in one go: no caller resumes between two of its sentences, but a
generator's queue fills. `chunk` counts the sentences still to be dispatched, and the
actions of callers ask for `Quiet`. In the same way nothing comes between a talk of `login()`
that has settled (`LoginSettled`) and what `login` and the connect do next, which runs in
microtasks. A request for the next reply is part of the step that
hands the last one out. The link delivers in order, both ways. The router may answer
commands in any order, send a trap, an early `!done`, `!empty`, `!fatal` or (to a login)
bytes that are no sentence, and it may fall silent.

`NativeCalls` is the promise: each call has the router to itself. `Ask`, `Serve` and
`Conclude` are what happens to one command; `Settle` gives a talk all the rows of its own
command; `Yield`, `Complete`, `Leave` and `Fail` are a stream's; `Disconnect` fails them all.
`ImplementsCalls` says that the shared connection with its tags is no different.

### `RetrieveFollow`

The router's menu, the four commands of a follow (`listen`, `print`, the membership read,
the sweep), the queue they all enter, and the loop that drains it at the reader's pace.

| code | actions |
|---|---|
| taps on the connection | `Announce`, `PrintRow`, `PrintDone`, `MemberDone`, `SweepDone`, `CommandFails`, `CommandEnds` |
| `FollowQueue` | `Push`, `PushBounded` (overflow), `Halt` |
| the loop | `TakeListen`, `TakeRow`, `TakeDone`, `TakeMember`, `TakeSweepStart`, `TakeSweep`, `TakeEnd`, `ReplayStep`, `ReplayEnd`, `MemberStep`, `SweepStep`, `BatchEnd`, `Halting` |
| after each event | `PostSync`, `PostSweep`, `PostMember`, `PostNothing` |
| stop and end | `Stop`, `Finish`, `Abandon`, `SweepTimer` |
| the router (external) | `Write`, `Remove`, `Slip`, `ServePrint`, `ServeMember`, `ServeSweep` |

A row is its version. A reply is seen when the router sends it: one FIFO connection
delays them all alike, and its delay is part of the time the router takes. The print is read
at one moment and its rows are sent later, between listen replies, which is what makes the
replay necessary. Ids are not used again, as RouterOS does not. `silent` collects the ids that
changed with no announcement (a row slips out of a query, or `.dead` is not announced
there): the sweep is for those, and `Converged` makes no claim on them, `GoneRowsLeave`
does. Between `synced` and the first membership answers the reader may hold rows as the
print saw them; `LiveMonotone` is about what comes after.

### `MacTelnet`

The session and the console above it over a network that loses, doubles and overtakes.

| code | actions |
|---|---|
| `start`, `close` | `StartSession`, `Close` (in the steps that call it) |
| `onAck`, `onData`, `onEnd` | `OnAck`, `OnData`, `OnEnd` |
| `tick` | `Tick` (retransmission, giving up), `Keepalive` |
| console `open`, `run`, `write` | `Type` |
| `waitFor`, `checkWaiter`, `waitReady` | `Settle`, `RunTimesOut`, `OpenTimesOut` |
| console `close` | `CallerCloses` |
| `answerSizeProbe` | `Show`, in `OnData`: two frames at once |
| `attachInteractive` | `Attach` |
| the device (external) | `DevStart`, `DevData`, `DevAck`, `DevSend`, `DevEnds` |
| the network (external) | `Receive` (a datagram may stay for another delivery), `Lose` |

Each payload has one unit of length, so counters number frames. A datagram leaves the
model when nobody would act on it again. A device of window 2 sends one frame ahead; the
client acknowledges such a frame when it overtakes the other, and the other is then lost
for good, so `ShownOnce` claims no gaps only for a device that awaits acknowledgements. A
keystroke of a relay replaces the frame before it as the one to be sent again, so
`NothingSkipped` and `InputLands` are about the console before it is attached. The same
happens between the two answers to one question about the terminal: the first is never
sent again, and a device that loses it takes the second; `NothingSkipped` says that no
command is lost that way. A salt of an odd length, an error block and a block that cannot
be read end the session alike.

No timer of the console knows what the device has still to say. `Settle` may take place as
soon as the predicate holds, since a datagram may be late by more than `settleMs` or be lost
and repeated later than that, and a run may time out at any moment. `OpenTimesOut` closes
the session, as the adapter does with a console that failed to open; `RunTimesOut` only
rejects the run, and the console can be used again (`src/src/protocols/adapter.ts:1097`).
The history variable `cutShort` records that a wait ended before its answer did: by its
timeout, or by `Settle` while frames of that answer were still to come (`GoesOn`). After that
the code does attribute the rest of the output to the next run, and may lose a command by
typing over it; `OwnAnswer` and `NothingSkipped` are claimed of consoles on which no wait was
cut short, and both are violated without this hypothesis. The other properties of the run
hold with and without.

### `Fanout`

One command on many members through the bounded pool of `core/fanout.ts`. Two styles:
`direct` (execute and api over a selection: a member is a router with its own connection,
transient errors are retried) and `cmr` (`execute --cmr`: a member is an inventory row of
one controller, called once).

| code | actions |
|---|---|
| `runBoundedPool` | `Take`, `StartPool`, `PoolOver` |
| `executeCmr` | `Probe`, `Select`, `Bind`, `Gate`, `Rebind`, `Dispatched`, `Conclude`, `Abort` |
| the call | `Send`, `Answer`, `Refused`, `Fail`, `Again` |
| router, controller, clients (external) | `Serve`, `RunsLate`, `Rekey` |

`key[m]` is the client in a row: 1 the one there at first, a later number a replacement, 0
none. `late` counts calls that were given up and may run yet. A call over REST that is cut
short counts as sent, as the code has it. Envelopes appear as verdicts: `ok`, `failed`,
`not-sent`, `unknown`, `error`. A write that failed after it was sent is `unknown` only if the
error is one of transport, as in `sentWriteWarnings`; of any other its envelope is an `error`,
which says nothing of what became of it, and no property takes it for more. `Judge` is `judgeDispatch`: what is reported depends on the row the
call ended with, and on whether the inventory afterwards still shows the key the member was
bound to. A CMR row with the output of a timed-out call is `timeout`.

## Runs

| run | instance | shows |
|---|---|---|
| `lock_rivals` | 3 processes of one host | `MutualExclusion`; `DeadHolderRecovered` under fairness |
| `lock_namesakes` | 4 processes, 2 hosts; three with one pid, two of them successive; beside it 4 overwrites with 2 stamps and 4 retentions | `OnlyOwnerOrDead`, `ImplementsMutex`, `NewestBackupsStay` |
| `store_mixed` | any 2 of 10 callers, file absent, open or encrypted, 2 attempts | `ImplementsRegister`, `ConflictMeansContention`, `EveryCallSettles` |
| `store_race` | 3 callers on one record, one WinBox write, 4 attempts | `ReplacesWhatItChecked`, `AllLand`, `UniqueIdentity`, `StaysEncrypted` |
| `store_discover` | one `discover --save` of 5 neighbors, one `devices add` | `AllLand` is violated |
| `store_rename` | `set --user` beside an `add` | `UniqueIdentity` is violated |
| `native_session` | login, a talk of one row, a stream of two, 2 sentences in flight; beside it 18 lengths, and sentences of up to 6 words in all in chunks of 1, 2, 5 or 100 | `ImplementsCalls`, `EarlyEndHidesNoTrap`, `StopEnds`, `LengthsSurvive`, `ChunksDoNotMatter` |
| `native_login` | the same, a peer that does not speak the protocol | `FailedConnectShutsSocket` is violated |
| `follow` | 2 rows, 2 writes (1 with a query), a buffer of 3, batches of 1 | `Converged`, `NoResurrection`, `SummaryTruth`, `LiveMonotone` |
| `follow_live` | 1 row, the same | `GoneRowsLeave`, `Syncs`, `EndsOnceTold` |
| `mactelnet` | 1 input with 2 faults, 2 with 1, 3 with none; window 2 with 1 input and 1 fault; a device that asks, with 1 input and 1 fault, with window 2 and 1 fault, with window 2 and 1 input; one with a license, 2 inputs and 1 fault; a relay, with 3 inputs and 1 fault | `ExecutedOnce`, `ShownOnce`, `LoginVerdict`, `NothingSkipped`, `OwnAnswer`, `InputLands` |
| `fanout` | direct: a write on 3, a read on 2; CMR: a write on 2 with 2 changed rows, a read on 3 with 1; 2 retries | `Truthful`, `AtMostOnce`, `SelectionWhole`, `AllReported` |

Bounds. Three calls are the least that let two breakers meet over the lock of a third;
a call makes one acquisition there because a second one by the same call only reaches what
another call already reaches, and the proofs cover any number. Four processes give every
relation the liveness probe can meet: same host and pid, same host, other host with the
same pid. In the store two callers suffice for a lost update and three for a fight in
which somebody loses twice; `MaxAttempts = 4` in `store_race` equals the number of
writers, the boundary of `AllLand`; 2 in `store_mixed` makes exhaustion reachable by two
callers one of whom saves three neighbors. `MaxForeign` bounds the writes of WinBox. The
runs state `CHECK_DEADLOCK FALSE` because a behaviour ends when every caller has its
answer or is gone, a session is closed, a follow is over or every member has its envelope.

`lock_namesakes` and `native_session` each look at two modules that share no variable,
`CdbLock` and `CdbBackups`, `NativeSession` and `NativeWire`: their product would show
nothing more, so `MCCdbBackups` and `MCNativeWire` let the one run while the other has not
begun. In the second the fairness is that of the session: a behaviour in which something
was said on the wire violates it or leaves the session where it starts, and says nothing of
`StopEnds`; those in which the session runs say it all. Four overwrites are one more than
the gap in the numbers needs that a wrong choice of the suffix falls into. Words on both sides
of the first change of the prefix, chunks of one byte and chunks of a hundred cut a length,
a word and a sentence, and join several; the proofs cover any sentences and chunks.

In the session a stream of two rows is the least that has a row behind the one a consumer
leaves at, and two sentences in flight put a trap or `!done` into the chunk of a row;
`MaxInFlight` and `MaxRows` bound the router only. A follow needs two rows for a batch, a
sweep or a print that names one row while another changes, two writes for an answer that is
older than a second change, and a buffer of three to overflow with either kind of reply in
it; a row removed and its id's later replies make the stale answers. With symmetric ids
and a view that hides what a follow can no longer read once it left its loop, the safety run
stays small; liveness is checked on one row without either. In `mactelnet` two faults
lose a frame and its repetition, or double a frame and lose its acknowledgement; a frame is sent
up to three times (`Tries = 2` repetitions), once more than there are faults, which is what
`InputLands` needs. Opening types one input, so the second is the first command of a run and
the third is typed on a console on which a run may have timed out. In `fanout` three members on two workers have one wait for a
worker; two changes of one row replace a client between the preflight and the call, and
again between the call and the check.

Fairness. `LockLiveSpec` lets the event loop of a live process run its continuations
(weak fairness of `LockProgress`) and asks that a lock file read again and again is not
unreadable every time (strong fairness of the two reads against `ReadFault`). Nothing is
assumed of the callback, of crashes or of the clock. `StoreLiveSpec` asks that the file
system and the lock answer a live caller; the lock does, because its wait is bounded.
`SessionLiveSpec` asks for what the event loop does (arrived bytes are dispatched, an
armed timer fires) and for a consumer that asks for its next reply; nothing of the router.
`FollowLiveSpec` asks for the loop, its timer, and a router that answers reads and announces
what it does announce, and ends a cancelled command. `MacLiveSpec` asks that datagrams which
are not lost arrive (losses are bounded), that the retransmission timer fires and that the
device sends what it has to say; it asks nothing of the console's waits. `FanoutLiveSpec` asks for the coordinator and for every worker, whose waits
all end by a deadline; the far side owes nothing, and neither does the user at the prompt.

### What the violations say

* `store_discover`: the comment on `retryOnCdbConflict` (`src/src/devices.ts:1550`) has N
  simultaneous writers land within N attempts. A winner of a round is a write, not a
  writer: `discover --save` writes once per neighbor, and can beat one `devices add` five
  times. `store_race` shows that the claim holds when each writer writes once.
* `store_rename`: the constitution (`src/docs/CONSTITUTION.md:293`) makes `(target, user)`
  the identity of a record. `set --user` does not look whether the new pair is taken.
  `store_race` shows that no race breaks the identity.

* `native_login`: a reply to `/login` that cannot be parsed fails the open talk and marks the
  session closed without closing the socket (`src/src/protocols/native-api.ts:490`), and the
  `close()` of the failed login then returns at once (`:936`). The connect fails and the socket stays open, although the comment there
  (`src/src/protocols/native-api.ts:1062`) says the connection is destroyed.

Three more disagreements have no run. `transfer` over a selection hands no `mayRetry` to the
pool (`src/src/transfer-fanout.ts:352`), so a sent upload is sent again after a lost answer,
which the constitution excludes for writes (`src/docs/CONSTITUTION.md:359`); `AtMostOnce`
is violated in `Fanout` as soon as the veto is gone. And when the clock steps back, an
overwrite deletes the backup it just made and still returns its path
(`src/src/data/winbox-cdb-write.ts:224`); `CdbBackups` does that too, and `NewestBackupsStay`
claims that the newest stay only of clocks that were not set back (`Steady`). Thirdly, `run`
is to return the output of its command (`src/src/protocols/mac-telnet-console.ts:310`), but
after a run that timed out, or a pause longer than `settleMs` behind what looks like a prompt,
the late output is returned by the next run on the same console. The adapter reuses a console
after a timeout; the callers in the repository close theirs. TLC violates `OwnAnswer` when it is
stated without its hypothesis. (In the model only the first prompt, which is drawn twice, has
something behind what looks like a prompt.)

Operators commented *Mutant* are plausible slips of the code (a dropped check, an attempt
too many, `rename` for `link`); each property of a passing run is violated when its mutant
stands in for the real action, so each says something about the code.

## Theorems

`CdbLockProofs`, `CdbStoreProofs`, `FanoutProofs`, `MacTelnetProofs`, `RetrieveFollowProofs`,
`RetrieveFollowRestProofs`, `NativeSessionProofs` and `NativeWireProofs` prove with TLAPS, for
every number of calls, processes, hosts, targets, jobs and attempts, of overwrites, stamps and
retentions, of members, workers, retries and changes of the inventory, of inputs, datagram
faults and tries, of rows, writes, buffer and batch sizes, of talks, streams, rows and
sentences under way, and of sentences, words and chunks, from the assumptions `LockConstants`,
`CdbDataConstants`, `AbsentIsNoCdb`, `CdbStoreConstants`, `BackupConstants`, `FanoutConstants`,
`MacTelnetConstants`, `FollowConstants`, `NativeConstants` and `WireConstants`:

* `LockTypeCorrect`, `LockExcludes`, `LockRemovedRightly`, `LockImplementsMutex` from the
  inductive invariant `LockInv`. Mutual exclusion is not inductive: it needs that a call
  inside finds its own record in the file (`HoldersOwn`), that what a breaker read belongs
  to a process that is down for good (`BreakersKnow`), that breakers of a host take turns
  (`GuardHeld`), and that a record re-read under the guard is still there at the unlink
  (`BreakersSure`), because only a breaker of that host could remove it.
* `StoreTypeCorrect`, `StoreReplacesWhatItChecked`, `StoreConflictMeansContention`,
  `StoreEncryptionSticks` and `StoreImplementsRegister` from `StoreInv`: the place of a
  caller in the mutex follows from its program counter, so whoever is between check and
  release is alone there; what it validated is what it loaded; what it checked is still in
  the file unless a foreign write came after. The refinement is proved for
  `MaxForeign = 0`: a write by WinBox in the window of the rename is a lost update by
  design of the file format, and `ReplacesWhatItChecked` bounds exactly that window.
* `StoreAllLand` from `StoreInv` and `AllPaidFor`: a caller with nothing left to write
  changes the file no more, so each attempt a caller spends is paid for by another that has
  landed or by a foreign write, and the callers that have landed are fewer than all while one
  has not. Its hypotheses are that the callers are finitely many and that each brings one
  target; without the second it is false, and `store_discover` shows that.
* `StoreUniqueIdentity` from `StoreInv` and `AllDistinct`, which says it of every snapshot as
  well as of the file, since a rename writes what it made of its snapshot even over a foreign
  write. `DistinctAdd`, `DistinctSet`, `DistinctRemove` and `DistinctForeign` say it of the
  data. Its hypotheses are that the file starts that way and that no `set` moves a record to
  another user; without the second it is false, and `store_rename` shows that.
* `FanoutTypeCorrect`, `FanoutSendsOnce`, `FanoutWhole` and `FanoutTruthful` from `FanoutInv`.
  None of the four is inductive. That a command runs once needs that how often it ran *or
  may yet run* follows from where its worker is (`Spent`: a worker that may still send has
  sent nothing); that nothing runs before the selection is known needs that nothing is
  touched before the dispatch (`Placed`) and who is in the pool by then (`Chosen`); and an
  envelope stays true because what it was judged by (`Ended`) can only have been a call
  that nothing can still overtake (`Reported`).
* `MacExecutesOnce`, `MacShowsOnce` and `MacLoginVerdict` from `MacInv`. That a frame runs
  once needs that it carries its own number also when it is sent again (`Honest`: the
  pending frame is the one whose acknowledgement is awaited), and that the device's numbers
  only grow (`TookOnce`). That no output is doubled or skipped needs that the frame shown
  last is the frame received last (`ShownLast`), which holds because a device that has once
  drawn on the terminal sends nothing else (`Drawn`). The verdict needs that a device that
  refused the login never draws more than the failure (`Verdict`).
* `MacTypes`, `MacSkipsNothing` and `MacAnswersOwn` from these and from `TurnInv`. Neither of the
  last two is inductive: they hold because commands take turns, as long as no wait was cut
  short, which is their hypothesis. Before the next command is typed, all that was sent earlier
  has been acted upon, and all the device had to say was received; until then, what is shown or
  still to come answers the command whose turn it is (`InTurn`). A wait that was not cut short
  establishes this: the buffer ends with the frame received last (`Buffered`), so with nothing
  of its answer to come nothing at all is to come. It needs that what the device says
  answers a frame it has acted upon (`Spoken`), and survives the answers to the device's
  question, which go out while the frame they displace has long been acted upon. A run's
  result is the buffer at the end of its turn, and there is one for every command
  (`Answered`). The types need that the counters bound each other (`Counted`) and that the
  device asks at most once (`Staged`). With a terminal attached (`relaying`) there are no
  turns, and neither property is claimed of it.
* `FollowTypes`, `FollowTellsTruth`, `FollowBuriesForGood` and `FollowNeverGoesBack` from
  `Typed`, `Control`, `Sized`, `LastWord`, `Fresh` and `Behind`. `Control` says how far the
  print, the one membership read and the one sweep are, and which of their events can be in
  the queue. `NoResurrection` is not inductive: that a deleted id stays away needs that
  nothing still to come speaks of it and that no answer is taken for current (`LastWord`).
  The types need the numbers of the replies: what is still to be taken is newer than what is
  dirty, and that newer than what is asked (`Fresh`). That the copy never goes back needs
  all of it, and that what is on its way about a row is no older than the copy, whether it
  is a listen reply, an answer or a snapshot row (`Behind`).
* `FollowConverges` from these and from `Traced`, which follows a change from the router to
  the copy. A change that was announced is in the queue, dirty, or being asked about
  (`Owed`); the loop never waits with work that nothing under way will bring up (`Prompt`,
  `Waited`), so at rest all of it is settled; and for an id that is settled the copy is what
  the router holds (`Copied`). This last is kept because the last word on an id is true,
  whether the listen says it (`LastIsTrue`), a membership read that nothing overtook
  (`AnswerIsTrue`) or the snapshot (`Shown`), and because a sweep removes no id that came
  since it was sent (`Swept`). `Called` says that the loop is only ever aborted for good.
* `SessionTypes`, `LeavingHidesNoTrap` and `SessionImplementsCalls` from `SessionInv`. Types
  need `Room`: a call takes one tag, a stream at most one for its abort and one for its early
  end, so the tags of the model suffice. A tag belongs to one call or to a cancel (`Tagged`),
  and what is routed by it is open (`Routed`). What the router does is tied to what is on its
  way: a request not yet taken has no job (`Underway`, `Worked`), a sentence says of its
  command what is so, and `!done` is its last (`Said`). Of a call that still listens, the rows
  it has not heard are on their way, all of them and in order, and so is a trap it has not
  heard (`Unheard`); hence what it was handed are its own rows from the first (`OwnRows`), a
  trap is heard because there was one (`Warned`), and a stream that `!done` ended has heard
  everything (`Completed`). For the refinement each kind of step (`StepKinds`) is mapped by a
  lemma `Seeing...` on an action of `NativeCalls` or a stutter: the answer of a talk is its
  `Resolve` because nothing of its tag is behind the `!done` (`AnswersAll`), the end of a
  stream its `Complete` because `Completed` leaves only a command that is done (`HasItAll`),
  and of the router's steps each is that of one tag, which has one owner (`OneJob`).
* `BackupsKeepNewest` from `BackupInv`. That the newest stay is not inductive: it needs that
  the order of the names is the order in which the copies were made (`BackupsOrdered`), which
  holds while the clock is not set back because a copy is numbered past every one left of its
  stamp. Then what an overwrite may prune is older than as many copies as it keeps, each of
  another overwrite (`BackupsNamed`), so at least that many were made since.
* `LengthsComeBack`, of the codec alone: `LengthInverts` for every length that
  `encodeLength` does not refuse (`Encodable`), where a run tries those on both sides of each
  change of the prefix; `WireLengthsSurvive` says it of the run's property. The digits of a
  number (`Digits`) fit its form, and a form that is cut short announces more bytes than there
  are (`ShortAsksForMore`).
* `WireChunksDoNotMatter` from `WireInv`: what was heard, the words of the open sentence and the
  words in the bytes to come are together the words said. A chunk preserves it because
  cutting some bytes, and then what they leave over with more bytes, gives the words that
  cutting all of them at once gives (`Streaming`), and a sentence that is said preserves it
  because its bytes are cut into its words (`SentenceScans`). These are facts about what the
  recursive functions `Scan` and `EncodeSentence` compute for every input. The library's
  induction theorems cannot be used (their parameter is an operator), so the induction goes by
  the least counterexample: the set of lengths of sequences that fail has a least element
  (`Least`, `ByLength`), and a function that recurs on shorter sequences only exists and
  unfolds (`RecursionByLength`).

Only model-checked is every liveness property (`DeadHolderRecovered`, `EveryCallSettles`,
`AllReported`, `StopEnds`, `GoneRowsLeave`, `Syncs`, `EndsOnceTold`, and that MAC-Telnet's input
lands, `InputLands`): liveness under fairness is out of the prover's reach, as is ENABLED. Every
invariant and every other action property of the passing runs is proved, some under the
hypotheses named above.

## Not modelled

* CDB: bytes, encryption and the fields of a record; the retries of `rename` on Windows; the
  durability of `fsync`.
* Native API: the arithmetic of the login challenge, the wording of traps, TLS.
* `retrieve --follow`: attributes of rows, rendering of events, writes to the menu after the
  follow was aborted (nobody reads them).
* MAC-Telnet: MAC-Ping and foreign datagrams (no state of the session), the MTWEI key exchange,
  and the wrap of a counter at 4 GiB.
* Fan-out: how a selection is resolved and confirmed in detail, `transfer`'s configuration,
  `cmr-fleet`, a router without CMR, the text of envelopes.
* Transfer, `retrieve --wait` and `--sample`, and the bandwidth test are not modelled yet.
* `explain` (a third of the source), the command line, settings and resolution, the CDB's codec
  and the MCP handlers are functions from text to text with no state beyond a call: their
  correctness is a matter of strings, which their unit tests cover better than a model.
