# TLA+ verification of Alpine WebAdmin

Specifications of the two programs of this repository, `webadmin` (an
unprivileged web server) and `roothelper` (a privileged broker), and of the
packages they share.  The source is the reference: every definition is a
translation of code, and `PROJECT.json` ("map") names the lines it stands for.

- [1. The system](#1-the-system): components, their state, how they interact,
  what is hard about them, what makes them correct
- [2. Plan](#2-plan): modules, runs and theorems, done and to do
- [3. The modules](#3-the-modules): how state and actions correspond to the code
- [4. The runs](#4-the-runs): what TLC checks, within which bounds
- [5. Fairness](#5-fairness)
- [6. The proofs](#6-the-proofs): what holds for every value of the constants
- [7. Findings](#7-findings)
- [8. What is not modelled](#8-what-is-not-modelled)
- [9. Running it](#9-running-it)

## 1. The system

    browser (app.js) --HTTP, SSE, WebSocket--> webadmin --unix socket--> roothelper
                                                  |                         |
                                sessions, limiter, telemetry     apk, rc-service, files,
                                hub and collector, collectors    log followers, lbu

`webadmin` (`cmd/webadmin/main.go`) authenticates requests and either answers
them itself or forwards one envelope per request over a fresh connection to
`roothelper` (`cmd/roothelper/main.go`), with a deadline of 5 s.  `roothelper`
checks the peer and an allow list of message types, decodes the payload and
calls a handler, which runs in the connection's goroutine.

### Components

| component | state | operations | goroutines and locks |
|---|---|---|---|
| `pkg/apk` | `running`, `queue` (bounded), `history` (bounded), each operation's `State` | `Install` `Remove` `Update` `Upgrade` through `runMutating`; `GetOperation`, `FlushQueue` | `queueMu` for the book-keeping, `mu` across the apk command; one goroutine per caller, one per promoted operation |
| `pkg/configtx` | live, staged and backup files; `Engine.transactions`; `NetworkSafety.confirmCh`; what lbu has saved | `Begin` `Stage` `Validate` `Commit` `Rollback` `Confirm` `Cleanup` | `Transaction.mu`, `Engine.mu`, `NetworkSafety.mu`; one `awaitConfirm` goroutine per committed network change |
| `pkg/auth` | `Store.sessions`, `FailedLoginTracker.attempts` | create (two ways), `Get`, `GetWithRenew`, `Delete`, revoke, sweep; `IsLocked`, `RecordFailure`, `RecordSuccess`, sweep | a mutex each; every request is a goroutine |
| `pkg/security` | `Limiter.buckets` | `Allow`, `Sweep`; CSRF, `ClientIP` | one mutex |
| `cmd/webadmin` | the above, plus collector, hub and shutdown channel | about 60 routes, the sweepers, telemetry WebSocket, log SSE | one goroutine per request, two sweepers, the collector |
| `cmd/roothelper` | none of its own but the managers and log followers | dispatch, about 50 message types | one goroutine per connection |
| `pkg/ipc` | connections | client `Call` with deadline, server accept loop, length-prefixed JSON | one goroutine per connection |
| `pkg/telemetry` | previous counters; the set of connections; a wait group | `Collector.Run`, `Accept`, broadcast, remove, `Shutdown` | a read and a write goroutine per connection, the ticker |
| `pkg/ws` | the connection and whether it is closed | handshake, frames, ping | a mutex around every write |
| `cmd/roothelper/logstream.go` | the follower process of a stream | start, forward lines, stop | one goroutine per stream and end |
| `pkg/config`, `pkg/proc`, `pkg/openrc`, `pkg/log`, `pkg/version`, `pkg/testutil` | none that outlives a call | load, parse, run, print | none |

Who imports what matters for what can happen: `roothelper` uses `apk`,
`config`, `openrc` and `ipc`; `webadmin` uses `auth`, `security`, `telemetry`,
`ws`, `config` and `ipc`.  `configtx` is a library that neither program imports
yet; it is modelled with callers that use its exported operations in every
order its guards allow.  So is `telemetry.Stream`: `webadmin`'s `/ws` handler
uses the `Hub` without it.  `FlushQueue`, `GetWithRenew`, `RevokeAllForUser` and
`CreateWithLimit` are exported and tested and have no other caller; the models
include them, so that what they show also holds once they are used.

### Interactions

- `webadmin` -> `roothelper`: one connection, one request, one reply, 5 s
  (`main.go:2437-2461`).  A handler is not cancelled when its client has gone.
- `roothelper` -> `apk`: `main.go:570-628` with a context of 5 min; the reply
  carries the operation, `main.go:630-640` queries it by its ID; the browser
  polls that (`app.js:571-625`).
- login: limiter, then tracker, then an ipc call, then tracker and store, each
  under its own lock (`main.go:129-213`).
- `configtx` -> file system and services: a staged file is renamed over the live
  one, a service is restarted, and a goroutine waits for a confirmation or
  copies the backup back.
- collector -> hub -> connections: a snapshot is broadcast every tick; a client
  whose channel is full misses it, and one that blocks a write loses the
  connection at the write deadline.

### What is hard, and what makes each component correct

`PROJECT.json` ("hazards") lists the hazards at their lines.  In short:

- **apk.** A mutex for the book-keeping and another for the command, taken one
  after the other and released in a different order: hand-over between
  goroutines.  Correct if at most one apk command runs, operations settle in the
  order they were accepted, no accepted operation is forgotten, and a polling
  client finds an operation until enough younger ones have pushed it out.
- **configtx.** Live files are changed by commits, manual rollbacks, timers, the
  packaging of all of `/etc` by lbu, and restarts; a map keyed by target says
  which change is on trial; a channel is closed outside the lock.  Correct if
  there is one trial per target and it ends when its commands do, only validated
  content becomes live, the file on trial is the proposed one, and what is left
  after a trial is the change or the original.
- **sessions and login.** Check-then-act across an ipc call; lazy resets;
  sweepers by age.  Correct if a lockout lasts its time whatever else is under
  way, ended sessions stay ended, a new login ends the sessions before it, and
  memory is given back.
- **rate limiter.** Refill by elapsed time, a cap, and a sweep that forgets.
  Correct if no interval admits more than the cap plus the refill.
- **telemetry stream.** Registration, shutdown and removal race; a wait group
  is added to after an unlock.  Correct if `Shutdown` ends every connection it
  returns from, and a removed connection is closed once.
- **ipc and broker.** Replies lost to deadlines while the work goes on, handlers
  that write several places one after the other, and that run side by side
  without a lock.  Correct if what the browser is told is true, a request is
  carried out at most once, and what was saved stays and is read back whole
  unless another request under way at the same time changes the same part.
- **telemetry collector and /ws.** A cap that is read early and counted late;
  counters that are reset, devices that come and go, files that cannot be read
  for once; fields of `/proc/stat` that overlap or go back; clients that vanish
  without a word.  Correct if a snapshot accounts once and in full for what
  happened, the cap is exceeded by overlapping requests only, and a lost
  client is given up by both goroutines and the hub.
- **log stream.** Seven goroutines and a child, each of which can be the first
  to end.  Correct if lines arrive in order and complete, and if nothing of a
  stream is left in either program.
- **pure parts.** Frame lengths at 125/126/65535/65536, the limits of the
  configuration.

## 2. Plan

Order: the code that changes the system first, then who may call it, then the
channels in between, then pure computation.

| step | modules | state |
|---|---|---|
| 1 | `ApkQueue`, abstract `SerialExecutor`, `ApkQueueProofs` | modelled, checked, proved |
| 2 | `ConfigTx`, abstract `CommitConfirm`, `ConfigTxProofs` | modelled, checked, proved |
| 3 | `Sessions`, `Login` (composes store, tracker, handler), `LoginProofs` | modelled, checked, proved |
| 4 | `RateLimiter`, abstract `SlidingWindow`, `RateLimiterProofs` | modelled, checked, proved |
| 5 | `WsConn`, `Hub`, `TelemetryStream` (composes both), `TelemetryStreamProofs` | modelled, checked, proved |
| 5b | `Collector`, and `Telemetry`, which composes it with `Hub`, `WsConn` and the `/ws` handler of `webadmin`; `TelemetryProofs` | modelled, checked, proved |
| 6 | `Recipes`, `Routes`, `Forwarding` (composes the web forwarder, ipc, the broker and the machine), abstract `AtMostOnce`, `ForwardingProofs` | modelled, checked, proved |
| 7 | `LogStream`: both ends of a stream of logs; `LogStreamProofs` | modelled, checked, proved |
| 8 | pure functions: frame lengths, the limits of the configuration; operators against reference definitions | left out (section 8) |

Abstract specifications: a serial executor (1), commit-confirm trials (2), a
sliding window (4), a remote call without retries (6).  "Proved" means that every
safety property the runs check, invariant or step property, is a theorem for all
values of the constants, and so is the safety of every refinement; what rests on
fairness is model-checked only (section 6).

## 3. The modules

### ApkQueue, SerialExecutor

`ApkQueue` is `pkg/apk/apk.go`.  A member of `Ops` is one call of `Install`,
`Remove`, `Update` or `Upgrade` and the `*Operation` it makes.

| variable | code |
|---|---|
| `pc` | where the goroutine of the operation is: `runMutating` of its caller, or `runQueued` |
| `state`, `id`, `result` | `Operation.State`, `Operation.ID`, the `err` of `executeWithProgress` |
| `running`, `queue`, `history` | the fields of `Manager` |
| `mu` | the holder of `Manager.mu` |
| `clock` | what `genID` reads |
| `replied` | calls that have returned their operation |

`queueMu` is held for short sections without a blocking call, so each is a
single action: `RejectFull`, `Enqueue`, `Claim` are the outcomes of the first,
`Finish` is the closing one.  `mu` is held across the command, so `Acquire`,
`Executed`, `Finish`, `Settle` and `Return` are separate: the final `State` is
written after `queueMu` has been released and before `mu` is, and another
goroutine may run in between.  `Finish` archives `m.running` as the code does,
not `op`.

`SerialExecutor` is what callers are promised: a bounded backlog, first in first
out, one active operation, a verdict for each.  The mapping takes `mu` for the
active operation and the queue, headed by a running operation that still waits
for `mu`, for the backlog.

### ConfigTx, CommitConfirm

`ConfigTx` is `pkg/configtx/transaction.go`, `network.go` and `persistence.go`.
A transaction stands for the content it proposes, so a file's content is a
transaction, `Orig`, `Absent`, or `Torn` for anything truncated or mixed.

| variable | code |
|---|---|
| `live`, `disk`, `bak`, `staged` | files: live, saved by lbu, backups, staged |
| `status`, `known`, `slot`, `order` | `Status`, `Engine.transactions`, `BackupPath`, `CreatedAt` |
| `recent` | the transaction of each target whose `Begin` fell in the current second |
| `call` | what the engine call that holds `tx.mu` is about to do |
| `window` | the `awaitConfirm` goroutine |
| `pending`, `closed`, `grabbed` | `confirmCh`; closed channels; `Confirm` calls between the lookup and the `close` |
| `reading`, `copying` | a `copyFile` that has truncated a backup, or the live file, and not written it |
| `saving` | the lbu commands under way, each with the files it has read |
| `passed`, `touched`, `before` | history, for the properties |

Engine calls that nothing can observe half-way are one action (`Stage`,
`Validate`).  The others are split where files, services or the map are seen by
others: `Begin` (the backup is truncated) and `BeginEnd` (it is written, and the
transaction exists); `CommitNet` (status and claim), `Apply` (rename), `Arm` (the
restart has ended, the goroutine starts); `CommitLocal` (rename); `Rollback`
(truncation) and `RollbackEnd` (write).  `awaitConfirm` is `Selected` and
`OnConfirm` (which needs `tx.mu`), or `Timeout` and `TimeoutEnd`, then `Close`.
`Persist`, of a local `Commit` or of a window that was confirmed, is `StartSave`
(the reload has ended, lbu reads all live files) and `EndSave` (what it has read
is what is saved), or `NoSave` where there is nothing to run.  lbu and rc-service
are processes of their own: the lbu commands of two transactions overlap, since
no lock keeps them apart, and the one that ends last wins; and that of a process
which has died goes on.  `Confirm` is `Lookup` and `CloseChannel`, or
`DoubleClose`, a panic that ends the process.  A rename detaches restores that
are under way from the file's name, as it does on the file system.  A failing
system call leaves what the code leaves: a torn backup, a torn live file, a
claim given back.  `Crash` forgets everything in memory and, on a diskless
system whose machine restarts, brings `disk` back.

`CommitConfirm` is the promise of `network.go`: at most one trial per place,
which ends kept only if somebody asked for it.  It is a safety property; that
trials end is `WindowCloses`, as far as it is true.

### Sessions, Login

`Sessions` is the store of `pkg/auth/auth.go`, `Login` the login handler of
`cmd/webadmin/main.go:124-213` with the `FailedLoginTracker`, the sweepers
(`main.go:77-107`) and the requests of authenticated clients.  `Login` EXTENDS
`Sessions` and composes its actions; `Sessions` has no next-state relation of
its own.  A call is named by the session it creates.

`CreateWithMetadata` takes the lock twice, so `DeleteOld`, `Mint` (random bytes
and time) and `Insert` are separate; `CreateWithLimit` is `CountFirst`, `Mint`,
`Insert`.  `Admit` is `RequireAuth` letting a request through; from then on its
`Delete` may come at any time, without a second look at the store.  `IsLocked`
and `RecordFailure`/`RecordSuccess` are separate critical sections with the
verification between them; both ways of verifying, roothelper and the
configured hash, end in the same two calls, so either outcome is possible and no
more is modelled.

Time is kept as countdowns (`left`, `lock`) and ages (`idle`) that saturate one
tick beyond the comparison that reads them: `Before`, equal and `After` all
happen, and the state space is finite without a bound on time.

### TelemetryStream, Hub, WsConn

`TelemetryStream` is `pkg/telemetry/stream.go` over `Hub` (`hub.go`) and `WsConn`
(`pkg/ws/conn.go`, `ping.go`), which have no next-state relation of their own.

| variable | code |
|---|---|
| `accept`, `loop` | where the `Accept` of a connection and its two goroutines are |
| `conns`, `registered` | `Stream.conns`, `Hub.conns` |
| `sendCh` | how many messages are in a connection's `SendCh` |
| `socket`, `closed`, `writer` | the network connection; `Conn.closed`; the holder of `Conn.mu` |
| `once`, `wg` | `removeOnce`, the counter of the wait group |
| `shut`, `toClose` | where `Shutdown` is, and its copy of `conns` |
| `known` | history: what had been accepted when `Shutdown` was called |

`Accept` is `Refuse` or `Admit` (under `s.mu`), `Subscribe`, `Start`: the wait
group is added to two steps after the unlock.  `remove` is `Delete`,
`Unsubscribe`, `SayGoodbye` for the first caller and `RemovedBefore` for the
other, who waits; `Done` follows.  A write holds `Conn.mu` from `Lock` to
`Written` and may stay there; on a closed connection `WritePing` reports
success, the other writes do not.  `ClientTimeout` needs no guard but the
ticker: `ReadMessage` keeps pongs to itself, so `lastPong` is the time of the
`Accept`.  `Shutdown`, called once (a second call would close `stopCh` again), is
`Flag`, `CloseStopCh`, `ForceClose`, `Waited`; the last may also end with the
context.

### RateLimiter, SlidingWindow

`RateLimiter` is the `Limiter` of `pkg/security/security.go`.  Tokens are floats
that grow with elapsed seconds; the model counts in units of which `Cost` make a
token, and a tick refills one, so that any resolution of the clock is some
`Cost` (rounding is left out).  `AllowFirst` and `Spend` are `Allow` without and
with a bucket, one critical section each; `Sweep` forgets buckets by age.
`TtlAssumption` is what makes the sweep harmless: a bucket that is forgotten was
full.  (`webadmin` sweeps with 5 minutes, and a bucket fills up in 2 s.)

`SlidingWindow` has no buckets: a request is admitted when every interval that
ends with it stays within the burst and the rate.  `RateLimiter` implements it
in both directions, also in what it refuses.

### Forwarding, Routes, Recipes, AtMostOnce

`Recipes` has one entry for each handler of `cmd/roothelper/main.go`: the
binaries of which one must be allowed, whether the body can be refused, the
deadline, and the steps on the machine.  A step is a command that changes or
asks, or a system call on a file; `os.WriteFile` is two, the truncation and the
write.  A step says where the handler goes on after it: an error is returned, or
ignored, or leads to an alternative.  `Routes` has one entry for each route of
`cmd/webadmin/main.go` that is forwarded, with its method, its deadline and
whether its handler can refuse it; and for those that write files in webadmin
itself, with their steps.

`Forwarding` runs them.  `web` is the handler in `webadmin` (`Arrive`, `Receive`
for the return of `Client.Call`, `Expire` for its deadline), `help` the one in
`roothelper` (`Begin` reads and dispatches, `Succeed` and `Fail` take a step,
`Finish` replies), `at`, `spent` and `reply` its place, its deadline and its
answer, `host` the machine: each part holds the call that changed it last, and
`saw` what a call has read of it.  A
command that fails may have done its work before; a write that fails may have
left half a file; a longer text under a shorter one leaves its tail.  `Crash` is
the death of `roothelper`: connections break, and a command that runs goes on as
an orphan.  `AtMostOnce` is what is left as the promise of such a call: work that
begins at most once, an answer that is true for good, and "unknown", after which
the work may still begin.

### LogStream

The handler of `/api/logs` with the goroutine that closes its socket and its
scanner; `handleLogStream` of `cmd/roothelper/logstream.go` with its watcher and
its copier (the third, which drains stderr, ends with the child); and the child.
`out`, `lines`, `held`, `sock`, `carried` and `pipe` are the places where a line
can be; a line is its number.  `ctx` is the request's context, which `net/http`
cancels when the client leaves or a write fails.  `age` counts ticks of 5 s, for
the `WriteTimeout` of 10 s and the heartbeat at 15 s.

### Telemetry, Collector

`Collector` is `pkg/telemetry/collector.go`: the kernel's counters (`disk`,
`cpu`), what is remembered of them (`prevDisks`, `prevCPU`) and the last snapshot
(`rates`, `pct`).  Differences of disks are modulo `Width`, as those of `uint64`
are, and are divided by `Interval`, the configured one, whatever time has passed.
The CPU's time is of four `Kinds`: `guest`, which `Total` counts twice because
the kernel has it in the user time already, `idle` and `iowait`, which may go
back, and `busy` for the rest of the nine fields.  Where `/proc/stat` cannot be
read the snapshot shows 0 %, as the code's zero value does.  The lines of the
cores are left out.  `did` (since a disk was last shown), `lately` (since the last
snapshot), `ran` and `odd` record what really happened, and `due` what they were
when the last snapshot was made, for the properties.  `Telemetry`
runs it (`Publish` is a tick of `Collector.Run` with the broadcast) together with
the handler of `/ws`: `Check` counts, `Upgrade` and `Join` follow; the read and
the write goroutine are as in `main.go:2034-2060`; `silent` are clients that
have vanished without a packet.

## 4. The runs

Deadlock is checked in every run.  Modules whose calls come to an end have an
explicit step (`Quiet`, `Over`) for the state in which all calls have been made
and all goroutines have ended; any other state without a successor is an error.

### apk_queue (33,696 distinct states)

Four calls, a queue of two, a history of two.  Two calls that overlap are enough
for each race, a third and fourth fill the queue, are refused, and let a late
call find an idle manager while the last goroutine still holds `mu`; a history
of two evicts.

- `OneCommand`: at most one goroutine between starting a command and archiving
  it, and what it archives as `m.running` is its own operation.
- `InOrder`: while a command runs, all operations with a smaller ID are final or
  flushed, across promotions and direct claims.
- `QueueHasRunner`: a non-empty queue always has a goroutine that will promote
  from it.
- `Pollable`: `GetOperation` loses an accepted operation only to `FlushQueue` or
  to `MaxHistory` younger archived ones.
- `EveryOpSettles`, `ImplementsExecutor`: liveness, and the refinement of
  `SerialExecutor` with its fairness.

### configtx_windows (296,752)

Two transactions on one network target whose file may not exist at first,
backups that share a second, one `Confirm` each in flight (two `Confirm`s of one
window can still meet: the second finds the entry until `cleanup`), rollbacks at
any time.

- `OneWindow` (also proved, and run with failures below): `confirmCh` has an
  entry exactly while one `Commit` or one `awaitConfirm` works on the target,
  through refusals, failed renames and panics.
- `WindowShowsChange`: the live file during a window is the change on trial,
  unless somebody calls `Rollback` inside the window; in particular a restore
  that was slow does not write over a new change.
- `WindowCloses`: if the commands that are run for a target end, its windows
  do, whatever `Confirm`, `Rollback` and the timer do in them.
- `ConfirmInTime`: a `Confirm` that closed the channel before the timer fired ends
  with the change kept, on the same condition, and never with a rollback.  (One
  that comes later is accepted and undone: section 7.)
- `ImplementsCommitConfirm` (also proved).

### configtx_failures (2,031,981)

A network and a local transaction on a diskless system; staging, copies and
renames may fail, one `Cleanup` retaining one entry, one crash or restart, and the
lbu of each may overlap that of the other.

- `OneWindow`: a rename that fails, also because `Cleanup` has removed the staged
  file, gives its target back.
- `OnlyValidatedLive`: nothing that did not pass `Validate` is ever live or
  saved, and no content reaches a file it was not proposed for.
- `ConfirmedSurvives`: where lbu works, a local change reported as confirmed is
  there after a restart, if no lbu that had read the files before the change was
  live ended after the change's own.  `ConfigOverlap.cfg` shows that it is needed.

### login (464,427)

Three login requests and one `CreateWithLimit` for one user from one host, two
failures to a lockout of two ticks, a ttl of one tick, a stale age of two.  The
program has 5 failures, 15 minutes, 1 hour and 30 minutes; what matters is
their order, `Lockout <= Stale`, and that failures can be fewer than, equal to
and more than the maximum, which three parallel requests give.

- `LockCounted`, `LockoutLasts`: counter and lock agree, and only time or a
  successful login that was already under way shortens a lockout.
- `OldReplaced`: a login ends every session of the user whose creation had
  returned before it began.  (Overlapping logins leave one session each; that
  is what the code does, and a finding.)
- `NoRevival`: renewal, deletion, replacement and sweep in any order never bring
  a session back.
- `Swept`: expired sessions and stale addresses are removed.

The requests of this run come from an address without a port, the only kind
`RequireAuth` can admit; `LoginOwner.cfg` shows why.

### telemetry_stream (141,340), telemetry_lost (1,584)

Two connections for one place, so that the second is refused, waits for the
removal of the first or arrives during `Shutdown`; a send channel of one message.
Liveness is checked with one connection: connections share only `MaxConns` and
the wait group, for neither of which a goroutine of theirs waits.

- `TypeOK`: in particular `wg` is never negative, which would panic.
- `Accounted`: stream and hub know the same connections, except for an `Accept`
  or a removal that is between its two critical sections, and every connection in
  either has a goroutine that will take it out.
- `ShutdownDrains`: when `Shutdown` returns nil, a connection that had been
  accepted has no goroutine, no subscription and no open socket left.
- `LostIsGivenUp`: a connection whose network connection is lost or closed is
  given up by both goroutines and both books, wherever they were: blocked in a
  read or a write, waiting for the mutex or in `remove`.

### limiter (926,508)

Two clients, a burst of two requests of two units, seven ticks, of which a
bucket needs four to fill up and the sweep waits four: bursts, refusals,
partial refills at an odd tick, sweeps of a full bucket and of one that was
used just before.

- `BoundedRate`: between any two moments a client is admitted no more often than
  its burst and the rate allow, sweeps included.
- `WindowSpec`: the buckets implement the sliding window, so that nobody is
  refused who is within the rate either; in particular a refused request costs
  nothing.

### forwarding (172,027)

Each of the 60 routes by itself, and eight pairs that meet on a part of the
machine; every step may fail, every command hang, every deadline pass, all
but one binary be allowed, and the root helper die once.

- `AnswerIsTrue`: a browser that was told OK got the change, one that was told
  its request is not allowed or not valid changed nothing.
- `SavedStays`: what was saved stays as a whole, a hostname or a zone in both its
  places, a file with all of its text, unless another call changed the same part
  that had not ended when this one began: after it, at the same time, or before,
  if `webadmin` had given it up.  The exceptions are in the property because
  they happen: nothing serialises the handlers.
- `ReadsSaved`: whoever reads after a save that was answered OK reads what was
  saved, never half of it, but for such a rival.
- `ImplementsRpc`: no call is carried out twice, and none that was refused.
- `NothingHangs`: every forwarded request is answered by its deadline, and every
  handler whose commands have a context ends.

### log_stream (58,070)

Four lines, the last of which is too long for the scanner, and room for one in
each of pipe, socket and channel, so that all of them fill up behind a slow
browser.

- `InOrder`: no gap, no repetition, no reordering, and a stream that ended by
  itself has shown all.
- `NoChildLeft`, `HelperReleased`: whoever ends first, the child is killed and
  all of the root helper's goroutines end.
- `StreamEnds`: a browser that no longer takes what is written is noticed.  So is
  one that does, against the documentation: see section 7.
- `ScannerEnds`: the scanner goroutine ends with its handler, but for the leak of
  section 7, which the property names (`Stuck`); nothing else holds it.

### telemetry (76,476)

Two clients for one place on a machine that stands still: the handlers read
nothing of what the collector shows.

- `CapHolds`: `ws_max_conns` is exceeded by no more than the requests that were
  between `Count` and `Register` at one time, less one.
- `GoneIsGivenUp`: a client that has gone, without a word too, is given up by
  handler, goroutines and hub while the collector runs, whose messages are what
  finds out about a silent one.

### telemetry_samples (585,860)

A collector without clients, an interval of 2 s, and five events either of two
disks, which have each been at work since boot, or of the CPU; any reading may
fail.

- `RatesTrue`: the rate of a disk is all that it has done since it was last shown,
  or since it came, once and in full, over one interval, through readings that
  failed and lists of disks that change; and it is what the disk did in the last
  interval if the snapshot before showed it.  Only a disk that was reset shows
  nonsense, for its difference wraps, or one that came back while the collector
  still remembered it (an empty list is not remembered).
- `PctTrue`: the percentage of a snapshot that has read `/proc/stat` is not below
  the share of its time that the CPU was at work, unless iowait went back, and
  not above it unless a guest ran.  Idle time that went back is excepted.

### Counterexamples

Each configuration below checks one sentence of the repository that the code
contradicts, and ends in a counterexample; section 7 describes them.  The first
is a run of `PROJECT.json`, the others are kept for the findings that quote them.

| configuration | property | what happens |
|---|---|---|
| `ConfigOriginal.cfg` (run `configtx_original`) | `OriginalRestored` | a rollback brings an unconfirmed change back |
| `ConfigHang.cfg` | `TimerStarts` | the restart of the service hangs, and the timer never starts |
| `ConfigConfirm.cfg` | `ConfirmStopsRollback` | a change whose `Confirm` succeeded is rolled back |
| `ConfigUnwatched.cfg` | `UnconfirmedIsWatched` | the process dies within a window |
| `ConfigUndone.cfg` | `RolledBackStays` | a transaction that was rolled back is called confirmed |
| `ConfigOverlap.cfg` | `ConfirmedIsDurable` | an older lbu overtakes that of a confirmed change |
| `LoginOwner.cfg` | `OwnerAdmitted` | a session's own client is refused |
| `SamplesInterval.cfg` | `RatesOfInterval` | the first snapshot shows what was done since boot |
| `SamplesUnread.cfg` | `ZeroIsIdle` | an unreadable file is shown as 0 % |

### Bounds

| bound | where | why it is enough |
|---|---|---|
| `Ops`, `MaxQueue`, `MaxHistory` | `ApkQueue` | 4 > 1 + 2: the queue overflows; 4 > 2: the history evicts |
| `SameSecond` | `ConfigTx` | whether two `Begin`s of a target may fall in one second; both values are used |
| `MaxConfirms` | `ConfigTx` | `Confirm` calls per transaction that are between lookup and close at one time |
| `MaxCleanups`, `MaxCrashes` | `ConfigTx` | one of each meets every state the run reaches |
| `Retain` | `ConfigTx` | 1, so that `Cleanup` has something to delete |
| `Faults` | `ConfigTx` | system calls that may fail; a failure is possible each time one is called |
| `Fresh` | `ConfigTx` | targets whose file may be missing at first |
| `Clients`, `MaxConns`, `SendBuffer` | `TelemetryStream` | 2 > 1: one is refused or follows the other; a buffer of 1 is empty and full |
| `Horizon`, `Cost`, `Ttl` | `RateLimiter` | 7 > 4: a bucket is emptied, filled and swept, and used again; 2 units of a token: it can be half full |
| `Menus`, `Calls` | `Forwarding` | two calls: one and a rival; the pairs are one of each way to meet |
| `MaxCrashes` | `Forwarding` | each call has one handler, which can die once |
| `MaxLines`, `Room`, `Long` | `LogStream` | 4 > 1 + 1 + 1: browser, scanner and one buffer are full and there is more |
| `Width`, `Devices`, `Scenes` | `Telemetry` | 7 > 5 events and one at boot: counters do not wrap by themselves, resets make differences wrap; two disks: the list is never empty while only one of them goes and comes; disks, CPU and handlers do not read each other's state, so each scene has one of them at work |
| `Interval` | `Telemetry` | 2, as in the code: rates are rounded down |
| `Clients`, `WSMaxConns`, `SendBuffer` | `Telemetry` | 2 > 1: refused, overlapping, or one after the other |
| `TTL`, `Lockout`, `Stale`, `MaxAttempts` | `Login` | small values in the program's order; clocks saturate |

Every property of a passing run has a mutant in `PROJECT.json`: a definition
changed the way a plausible bug would change the code (a dropped guard, a missing
unlock, the wrong end of the queue), under which TLC finds the property violated.
The mutated forms are the operators marked "Mutant of" in the modules.

## 5. Fairness

- `ApkQueue`: weak fairness of each operation's goroutine.  A runnable goroutine
  runs; `Acquire` waits for a mutex that all its holders release; `Executed` is
  bounded by a context with a timeout (`roothelper/main.go:578`, `apk.go:378`).
  Calls and `FlushQueue` are under no obligation.
- `ConfigTx`: weak fairness of renames and copies under way and of the goroutine
  of a window, whose `select` has a timer.  `OnConfirm` takes `tx.mu`, for which
  manual rollbacks may compete again and again: strong fairness, because a
  `sync.Mutex` in starvation mode hands itself to the waiter.  rc-service and
  lbu are run by `exec.Command` without a context or a deadline
  (`helpers.go:8-17`, `network.go:57` and `:101`, `persistence.go:75`), so
  nothing makes them end: no fairness of `Arm`, `StartSave`, `EndSave`,
  `NoSave`, nor of the `Close` that follows a restart.  `WindowCloses` has their
  ending as a condition (`[]<>~AtCommand(x)`), and so has `ConfirmInTime`;
  `TimerStarts` fails for want of it.  `Confirm`, crashes and all other calls
  owe nothing.
- `Login`: weak fairness of time and of the two sweepers, each driven by a
  `time.Ticker` until shutdown.  No request owes anything.
- `TelemetryStream`: weak fairness of `Shutdown` once called; clients owe
  nothing.  Strong fairness of the write loop's steps, because it competes for
  `Conn.mu` with the read loop and a starved waiter is handed the mutex; writes
  of messages and pings have a deadline.  The read loop is fair only once the
  network connection is lost or closed, which ends its read and its write; before
  that a read may last, and a pong has no deadline of its own.  The write loop's
  `select` chooses at random among the ready cases, so it does not pass over
  `stopCh`, nor the ticker of a client whose read loop has ended, for ever; its
  time-out then comes because nothing updates `lastPong`.
- `Forwarding`: goroutines run, timers fire, system calls return.  A command need
  not end by itself; one whose context has expired is killed, and does (its
  descendants are taken not to keep its output open).  A browser that leaves
  does not change what is done for it.
- `LogStream`: goroutines run, signals arrive, time passes.  A `select` with
  several ready cases chooses at random, so that a case that is ready again and
  again is taken some time: strong fairness.  Neither the browser nor the source
  need do anything.  `uc.File()` is taken to leave the socket pollable, as it does
  since Go 1.21, so that a close ends a read.
- `Telemetry`: goroutines run and the ticker fires.  Strong fairness for the
  mutex of a connection, for the `select`, and for the failure of what is written
  to a peer that is gone or silent: buffers fill up, and the write deadline of
  10 s passes.

## 6. The proofs

Checked by TLAPS for every value of the constants that satisfies the
assumptions in the modules: any number of operations, transactions, targets,
requests, users and lines, any capacities and ttls, any faults, crashes and
cleanups.  Each module proves `Typing`, its type invariant, and the safety
properties of its run from one inductive invariant, which TLC was given first,
on the constants of the runs.  The type invariants of `ConfigTx` and
`TelemetryStream` are also run; those of the other modules are only proved, and
TLC need not repeat them.  A step lemma has one step per action.

**ApkQueueProofs.**  `Exclusion` (`OneCommand`), `Fifo` (`InOrder`) and
`NoLostPromotion` (`QueueHasRunner`) follow from the inductive invariant `IInv`.
None of the three is inductive.  Mutual exclusion at the command needs that `mu`
is held exactly between `Acquire` and `Return` (`MutexInv`) and that `m.running`
is the one operation before its archiving section (`RunningInv`); the order
needs that IDs grow with acceptance (`IdInv`), that the queue is sorted by ID
behind the running operation (`QueueOrder`), that whatever is older than the
running operation has left the queue (`RunningOrder`), and that goroutines beyond
`Settle` have a final state (`FinalState`); `QueueInv` ties the queue to the
goroutines.  `RefinesExecutor` uses the same invariant to map every step of the
manager to a step of `SerialExecutor` or to a stutter: the claim of an idle
manager and an enqueue are submissions, `Acquire` is a start, `Return` is the
end, a promotion moves the head of the queue to the head of the same backlog.
`Findability` (`Pollable`) needs `HistoryInv` besides: the history is sorted by ID,
and an operation past its archiving section is in it, or older than all of a full
one.  That `archiveOp` evicts the oldest is not in its code, which shifts by
place; it follows from `InOrder`, the order in which operations end.

**ConfigTxProofs.**  `SingleWindow` (`OneWindow`) needs in addition that a
transaction is not committed again while its goroutine lives (`Exclusive`).
`ValidatedFirst` (`OnlyValidatedLive`) follows from `TInv`: every content that is
live, saved, backed up or being copied came either from the administrator or from
a validated transaction of the same target, and so did each file that an lbu under
way has read (`FilesTraced`), a backup path belongs
to the target it was made for, and a transaction that is about to be renamed has
passed `Validate` (`BookTraced`).  The argument is that copies only move
contents between a file, its backups and its saved form.
`ChangeShown` (`WindowShowsChange`) and `RestartKeeps` (`ConfirmedSurvives`) join
windows and files.  `NetInv` says that only network targets have windows, that one
begins after `Validate` and is confirmed by a closed channel only; `FileInv` that
nobody writes to a file on trial unless it counts as touched (`Undisturbed`): the
rename replaces the inode that an earlier restore still writes to, and the only
later writers are a `Rollback` and the timer of the window itself, which
`OneWindow` makes the transaction's own.  What writes to a local file is a
`Rollback` (`LocalWriters`).  `Saved` is about the lbu commands that overlap: one
that is not older than a change (`before`) has read the change (`Holds`), that of
its own `Commit` has, and once the change is confirmed and no older one is left,
the change is what is saved and what every lbu under way will save.  So
`ConfirmedSurvives` needs `before[x]` to be empty and no more.
`RefinesCommitConfirm` is the whole of `ImplementsCommitConfirm`, which is a safety
property: every step is a step of `CommitConfirm` or a stutter.  `CommitNet` opens
a trial, the channel's close asks, `Close` and a failed `Apply` end it, a crash
forgets all.

**LoginProofs.**  `LockConsistent` (`LockCounted`) and `LockKept`
(`LockoutLasts`) follow from `LockInv`, whose `LockAge` relates the two clocks
of an entry: lock and age of the last failure add up to at most the lockout, so
that with `Lockout <= Stale` (15 and 30 minutes in `webadmin`) the sweeper never
meets an entry that is locked.  Drop that assumption and `LockoutLasts` fails, as
its mutant shows.  `Replaced` (`OldReplaced`) needs that the sessions a login
found are past their insertion (`EarlierReturned`).  `Ended` is `NoRevival`.

**TelemetryStreamProofs.**  `BooksAgree` (`Accounted`) and `Drains`
(`ShutdownDrains`) follow from `IInv`.  The wait group's counter is the number of
goroutines under way (`Counted`), so it is never negative and zero means that
there are none; `Life` says of each connection that it has goroutines exactly
after its `Accept` (`Started`), that at most one of them is inside `remove` and
none beyond it before the removal is done (`OnceOf`), and when it is in which
book (`BooksOf`).  Connections are independent: a step of one leaves the life of
the others alone (`LeftAlone`).  `KnownInv` carries what `Shutdown` found to its
end; a connection that is not known then may outlive the `Shutdown` (section 7).

**RateLimiterProofs.**  `Bounded` (`BoundedRate`) says nothing of buckets, and
a bucket says nothing of the past, so the invariant `IInv` joins the two: what
a client may spend at once (`Avail`: its bucket refilled, or a whole burst if
it has none) is at most what each interval that ends now leaves of the burst
(`Upper`), and is the burst or exactly what one of them leaves (`Lower`).
`Upper` makes an admission safe for every interval that ends with it; a swept
bucket was full, so `Sweep` changes `Avail` of nobody.  `Upper` and `Lower`
together make the bucket's verdict the sliding window's, which is the whole of
`Implements` (`WindowSpec`): each `Allow` is an `Admit` or a `Refuse`, `Sweep`
is a stutter.  Assumed: `RPS`, `Cost` positive, and `Cap <= Ttl` (a bucket fills
up within the ttl of 5 minutes).  `Horizon` is any number.

**ForwardingProofs.**  `Truthful` (`AnswerIsTrue`), `Lasts` (`SavedStays`),
`ReadBack` (`ReadsSaved`) and `Implements` (`ImplementsRpc`).  `Stages` relates
the two handlers of a call: what the browser was told is what the root helper
answered, and an answer OK stands behind the last step.  `Progress`: a handler
that has not failed has made every promised change that it is past; this is
where a step whose error is ignored would break an answer.  `Kept`: a part that
a call has changed holds what it left, or is being filled, or has a rival;
whoever changes it had not ended when this call began, because what has ended
changes nothing (`Ended`), and a rival once is a rival for good.  `ReadKept` is
the same of what was read.  Of the tables `Recipes` and `Routes` the proofs use
only `RecipesAssumption`: each recipe is a sequence of steps whose changes name
their part, and none of whose promised changes can be passed by, but for another
command on the same part (`WellFormed`).  It has no parameter, so that TLC's
evaluation of it, which every run of the module repeats, is complete; the
provers do not expand tables written with `:>` and `@@`.  Assumed besides: names
of calls are not contents of files.

**LogStreamProofs.**  `Ordered` (`InOrder`) and `KilledChild` (`NoChildLeft`), for
any number of lines, any capacities and any lines that are too long.  The `Way` is
all that is between the child and the browser: shown, being written, in the
channel, with the scanner, in the socket, with the copier, in the pipe.  While a
request lives, every action moves lines along it or appends the next
one (`Kept`), so it is `1, 2, ..., made` or the root helper's note (`Nothing`);
and the end of the browser's side is open.  What has been shown is a beginning of
it (`Gapless`).  The stream ends by itself only after the scanner ended, with an
empty socket whose other end is closed or before a line that is too long
(`Halted`); the root helper closes it only after its copier ended, with an empty
pipe and a dead child (`Silent`); so nothing is left on the way (`Complete`).
`Hands`, `Unbegun` and `HelperEnds` say who can hold a line and in which order the
goroutines begin and end.

**TelemetryProofs.**  `RatesRight` (`RatesTrue`) and `PctRight` (`PctTrue`), for any
disks, any width, any interval and any readings that fail: a counter is what it was
at the last sample plus what has happened since, which is what happened lately if
the disk was shown last time (`Disks`), as long as it was not reset, and a
difference that fits the width survives the subtraction modulo `Width`.  Of the
times, those that never go back are what they were plus what has run, and iowait
at most that (`Times`).  What the code computes is a share in which guests count
twice: more work and no more idle time make a share larger (`MoreWork`), which
gives both halves of `PctTrue` (`ShownShare`).  `Capped` (`CapHolds`), for any
clients and cap: whoever is let in adds himself to those between `Count` and
`Register`, of whom there have never been more than `peak` at once (`Books`); the
registered ones are those whose handler is past `Register` and not over.  Assumed:
the interval is positive, idle time and a disk's work until boot are less than
`Width` (2^64 in the code), and no disk has the name of a kind of CPU time.

Only model-checked, because the prover has neither fairness nor `ENABLED`:
`EveryOpSettles`, `WindowCloses`, `ConfirmInTime`, `Swept`, `LostIsGivenUp`,
`NothingHangs`, `ScannerEnds`, `StreamEnds`, `HelperReleased`, `GoneIsGivenUp`,
and the liveness of the serial executor.  The configurations that end in a
counterexample show what does not hold.

## 7. Findings

Places where the program does something else than its documentation or comments
say; `PROJECT.json` ("findings") quotes the lines.

1. **A session's own client is refused** (`auth.go:218`, `LoginOwner.cfg`).
   `ClientIP` has no port, `r.RemoteAddr` has one: on the TCP listener every
   authenticated request is answered 401.
2. **A rolled back change can come back for good** (`transaction.go:95`, run
   `configtx_original`).  The backup of a transaction that begins inside
   another's window is the unconfirmed content.
3. **A confirmation can succeed and be undone** (`network.go:73`,
   `ConfigConfirm.cfg`).  The entry stays in the map while the timer's restore and
   the restart are under way.  The other way round, a transaction that is rolled
   back in its window is called confirmed afterwards (`transaction.go:213`,
   `ConfigUndone.cfg`).
4. **A backup can be overwritten by the change it should undo**
   (`transaction.go:90`).  Backup names have a resolution
   of a second.
5. **The timer may never start, or be forgotten** (`network.go:57`,
   `ConfigHang.cfg`; `network.go:65`, `ConfigUnwatched.cfg`).  It starts only
   after a restart that has no deadline, and lives in the memory of the process:
   in both cases an unconfirmed change stays.
6. **A confirmed change can be lost** (`persistence.go:75`, `ConfigOverlap.cfg`).
   lbu commands of two transactions overlap, and the older image may be written
   last.
7. **Install does not return immediately** (`apk.go:337`).  The
   caller of an idle manager gets the operation when the command has ended,
   beyond `webadmin`'s 5 s.
8. **Shutdown can return before a connection starts** (`stream.go:80`).  An
   `Accept` between its unlock and `wg.Add` is not waited for.
9. Pongs do not keep a telemetry connection alive: `ReadMessage` swallows them and
   every connection ends at the first tick beyond `ClientTimeout`
   (`stream.go:106`).  The hub forgets a connection when the first of its
   goroutines ends, not after both (`stream.go:150`).
10. `Engine.Confirm` looks up a transaction ID in a map keyed by target name
   (`transaction.go:240`).  The models take the target's name.
11. Overlapping logins leave a session each (`auth.go:70`); the failed-login
   counter does not age within the lockout period (`auth.go:349`); sessions are
   not renewed by use (`main.go:265`).
12. **A log stream is cut off after its first write beyond 10 s** (`main.go:1905`):
    the heartbeat at 15 s comes after the server's `WriteTimeout`.  For the same
    reason the 60 s deadline of the package lists does not help
    (`main.go:2324`).
13. **A scanner goroutine can leak** (`main.go:1896`): it sends to a channel that
    nobody reads any more.
14. **A user cannot be removed from a group** (`main.go:877`): the route that the
    frontend calls is never recognised.
15. The connection cap is exceeded by overlapping requests (`main.go:2016`).
16. **Rates are not those of the interval** (`collector.go:191`,
    `SamplesInterval.cfg`): the growth since boot, or since several failed readings
    ago, is divided by one interval.
17. **An unreadable `/proc/stat` is shown as an idle CPU** (`collector.go:89`,
    `SamplesUnread.cfg`).
18. Guest time counts twice (`stat.go:26`), and the CPU is shown busier than it is.
19. nvme disks are taken for partitions (`diskstats.go:33`; its test expects them).
20. `docs/ipc.md` gives another message limit, another deadline and other service
    states than the code (`ipc.go:8`, `main.go:2438`, `roothelper/main.go:411`).

## 8. What is not modelled

With the reason:

- WebSocket frame lengths and the limits of the configuration: pure functions,
  without state or order, whose boundaries a unit test can reach;
- what the validators of `configtx` accept, apk's and `/proc`'s text formats:
  pure parsing that no state depends on; a verdict may come out either way;
- the parsing of `openrc`'s output: the state is the init system's;
- CSRF tokens and the parsing of client addresses: no state that changes;
- views of `webadmin` that only read `/proc`, files or a command's output, without
  a deadline of their own;
- the frontend, which polls and shows;
- logging, templates, TLS and the order in which `main` shuts down;
- `setup.sh` and `build.sh`: sequential scripts that share no state with the
  running programs.

Abstracted inside the modelled parts: apk's progress output and messages;
passwords, cookies and CSRF tokens; the user agent, which is taken to match;
service reloads, whose failures the code logs or ignores (that they may hang is
in `ConfigTx`); that lbu reads the files, and `Begin` the live file, over a time
and not in one moment, and that a machine may restart while lbu writes its
archive; the percentages of single cores, whose lists are compared by place;
fractions of a rate; the run of apk after a package request that its handler
answered as pending, which is `ApkQueue`'s and not one of `Forwarding`'s steps;
whether a dead child of a log stream has been waited for (it is not:
`logstream.go:106-158` never calls `Wait`, and leaves a zombie); the instants at
which timers fire, which may be any; pings that a lost peer has left in a
connection's buffer; `SetReadDeadline` and its instants; whether an answer still
reaches a browser (`WriteTimeout`, except in `LogStream`); a line of a log of
which only a part was copied when its socket closed; clocks' rounding.  Some
data races of the code are outside the models and listed as hazards: `op.State`
is written without the lock under which pollers find the operation
(`apk.go:366`), and progress readers likewise.  (`lastPong` is shared by two
goroutines, but no execution writes it after `Accept`.)

## 9. Running it

    tlc -config ApkQueue.cfg MCApkQueue         # and so on, see PROJECT.json "runs"
    tlapm ApkQueueProofs.tla                    # and the other *Proofs modules

The MC modules give the constants that a configuration file cannot write down
(functions from transactions to targets, from requests to addresses).
