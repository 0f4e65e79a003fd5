# Formal model of the data record server

The data record server (`src/data_record_server`) is a TCP collector. Devices
send JSON lines; every valid line is appended to the archive of the device's
current session, a session ends when its device has been silent for the idle
timeout or when the server stops, and archives are removed after a retention
time. When Web reporting is configured, a background worker tells a Web service
of every recording through a durable outbox.

This directory holds TLA+ models of that program, the TLC runs that check them
and TLAPS proofs about them. `PROJECT.json` relates every definition to the lines
it was translated from.

## The system

| Component | State it keeps | Operations | Where |
|---|---|---|---|
| Session storage | open sessions by device, archives, directories, the events file | `append_record`, `expire_sessions`, `close_all_sessions`, `cleanup_expired_files` | `storage.py` |
| Rejected-connection recorder | one diagnostic file per connection, the set of active paths | `open_rejected_connection`, `record_rejected`, `close`, `abandon` | `storage.py` |
| Stream parser | a buffer and the connection's device | `feed`, `finish` | `protocol.py` |
| Connection handler, server | open requests, shutdown flags, coordinator thread, self-pipe | `handle`, `service_actions`, `shutdown`, `server_close`, `run_server` | `server.py` |
| Reporting service | closures not yet written to the ledger, the process's lease | `register`, `closed`, `flush_closures`, `stop` | `reporting_service.py` |
| Report store | SQLite: recordings (the ledger) and outbox | `register`, `enqueue`, `mark_closed`, `recover`, `due`, `ack`, `failed`, `block_file`, `retry_blocked`, `protected_paths` | `reporting_store.py` |
| Report worker | scanners, the scan timer | `prepare`, `deliver`, `stop` | `reporting_worker.py` |
| Web client | none | `send` | `reporting_client.py` |
| File statistics, time zone | offset, counts, hash; the candidate zone | `scan`, `observe` | `reporting_models.py`, `worksite_timezone.py` |
| Maintenance tool | none of its own | `status`, `retry`, `import` | `reporting_admin.py` |
| Configuration, deployment | none | | `config.py`, `Dockerfile`, `scripts/` |

How they interact. Handler threads, one for each connection, parse and call
`append_record`, which holds `_sessions_lock` from the look-up of the session to
the flush of the record; creating a session registers it in the report store
before the archive is opened. The serve loop calls `service_actions` between
polls: it closes idle sessions under the same lock, and once a day sweeps old
archives from a snapshot of the active and the protected paths, without the
lock. Closing a session syncs and closes the archive and then hands the closure
to the reporting service, which writes it to the ledger at once or, when that
fails, from the worker later. The worker thread scans what is open or closed,
queues notifications and delivers the first unsent one of every file. Shutdown
waits for the handlers, closes the sessions and stops reporting.

What is hard here: the lock covers some of the storage's steps and not others;
every file, event and database call may fail, each leaving a different half of
the work done; the archive, the ledger, the outbox and the Web are four records
of one fact with crashes between them; an answer may be lost after it took
effect; and people repeat steps by hand. `PROJECT.json` lists these hazards line by
line with the properties that cover them.

What makes each part correct, in a sentence: a device has one open archive, which
no sweep removes and which holds every record it was counted for (storage); the
ledger calls a recording closed only when its archive is complete, and forgets no
closure (service, store); the Web learns of every recording once, in order, with
the final statistics of a sound archive, and one recording's trouble is not
another's (store, worker, client); chunk boundaries do not change what a line is
(parser); shutdown comes to its end from every moment of the start (server).

## The modules

### SessionStorage

`storage.py`'s device sessions, as the handlers and the serve loop use them, with
the part of the ledger that closing and sweeping depend on. One client's
`append_record` is a chain of actions (`AcquireLock`, `MakeDirectory`, `Register`,
`OpenFile`, `WriteStarted`, `AppendRecord` and the failures of each) held together
by `lock`, `step` and `cur`; the idle pass is `BeginExpire`, which reads the time before it
waits for the lock, `AcquireExpire`, then `CloseStream` and `ReportClosed` for each
session, and `EndClose`. The sweep is `CheckRetention`, two snapshots, one `SweepUnlink` for each
archive and `RemoveDirectories`; its snapshots go stale while sessions are created and closed.
A record is a unit of `size`, what a failed flush leaves behind is `buf`, what the
session counted is `total`. Times are a bounded wall clock.

Its inputs from the rest of the program are connections that come and go (the
parser decides what is a record), and the worker reduced to what the sweep can
see of it: `Deliver` and `BlockFile` move a recording through the ledger.

### StreamParser and Connection

`StreamParser` is `protocol.py`: `feed` over chunks of any size, one action for each turn
of its loop, and `finish`. A byte is what framing and validation tell apart: a newline,
white space, a byte that is not UTF-8, or one that stands for a whole JSON value (a
scalar, an object without a device, an object of a device, or one nested too deeply to be
decoded). `Verdict` is `_parse_line`, with the order of its checks. For a value nested too deeply it is
none of the reasons: `json.loads` raises a `RecursionError`, which leaves `feed` after the line was taken
off the buffer and with what this call had found (`LineRaises`); `before` remembers how much
had been reported, and read, when the last call of `feed` or `finish` began. The reference is a second definition that sees the whole
stream at once (`Line`, `Fitting`, `Judged`), and names a line by the place of its newline: whatever the
chunks, the parser must report the same, and lose no more than the one chunk that raised.

`Connection` extends it by `handle` and `_store_feed_result`: `recv` with its outcomes, the
records of a result before its rejections, the diagnostic recorder opened with the
first rejection, every storage call failing, the error path that closes or abandons a
recorder this result created, the finally clause and its close reason. `archive` is what
this connection's `append_record` calls stored; `file`, `total` and `events` are the diagnostic file
and what the ledger says of it. `before` remembers what had been reported when the last
read returned, which is what a failure may cost; a `feed` that raises ends the handler as a failing
storage call does.

### RejectedFiles

The diagnostic files of many connections over time: `open_rejected_connection` step by
step (the directory made, looked at, the file created in it, the started event, the active
set) with what it undoes when a step fails, the release of a recorder, and the part of
`cleanup_expired_files` that sweeps `connections/`. The directory is made and removed without a
lock, so one connection's undo may remove it under another's feet; the model says what that
may cost (`FailureHasACause`) and what it may not (`OpenFileIsLinked`). The clock
counts days. `Prompt` is an assumption: opening one file does not last as long as
the retention period.

### FileScan

What the worker learns from one file: `FileStats.scan`, which reads on from where it
was while the recording is active, the final scan from the start, `WorksiteTimezone.observe`,
which both feed with the same lines, and `_prepare_file` with what it queues and what
it keeps in the ledger for the next process. A line is its validity, its time and the
zone its position is in. Files grow, lose their end in a crash and end in a torn line;
scans, look-ups and transactions fail. `told` is the history of notifications.

### Delivery

What `ReportClient.send` makes of an answer and what `ReportWorker.deliver` stores after
it: sent, blocked, or waiting for the later of the backoff and the server's `Retry-After`.
The Web is honest; a gateway may answer in its place, with a page, with another file's
answer, with an earlier one, or with a status that does not fit. `Version(i)` is the number a
notification carries: 1 for the create, and 1 again for what is queued next, because the ledger counts from 0. The
answer to an applied create, given again, therefore passes for the first update's; `SentIsApplied`
states that one exception and no other. `deliver` itself may raise (`DeliverRaises`), when
an answer cannot be decoded or the outbox cannot be written. `retry_blocked` releases a file unless one of two errors says its task has ended.

### Ownership

Several processes on one data directory: `create_server` and `ReportingService.__init__` with
every step failing and being taken back, the lease (`collector.lock`), recovery at
start, and the finalizer that gives the ledger and the lease up after the worker. A process may be
killed anywhere. Where the worker's thread itself cannot be started, the code leaves the
port and the pipe to the exception, and so does the model (`leaked`). The finalizer's thread may not
start either, most likely where the worker's just did not: `stop` then raises, `server_close` goes on to its next
step, `create_server` ends, and lease and ledger stay with the process until it exits, because the
thread object is set and a second `stop` only waits (`unstarted`). Signals and
interrupts are `Lifecycle`'s.

### Outbox and ReportingPromise

`Outbox` models Web reporting: the store's transactions, the worker, the exchange
with the Web, the process (start with recovery, ordered stop with the finalizer's
own pass, crash) and the maintenance tool. Each transaction, scan and exchange is a
step. `work`, `rows`, `list`, `cur` and `result` are the worker's local state:
`rows` are the rows `prepare` read at its start, so that a closure written during a
scan is not seen before the next pass, and `list` is what `due` returned. `fresh`
is the loop's `next_scan`: a process delivers nothing before one of its own
`prepare` calls has come to its end. Only the unsent notifications of a file are
kept, in `queue`; the sent ones are a prefix of what was ever queued.

The archive is modelled by its number of complete lines and whether a final scan
would reject it (`flawed`). A crash may tear the last line of an archive being written
and, with `PowerLoss`, take lines that were never synced. The Web is external: it
applies an idempotency key once, applies whatever else it is sent, and may end a
task by its own timeout. That the sender never makes it go back is for the model
to show, not for the Web to prevent.

`ReportingPromise` states what all this is for, with no queue, worker or process in
it: the Web is told of a recording once, sees it only grow, never beyond what is
stored, and learns of its end once, after the archive is final, with its final
size. `Outbox!ImplementsPromise` is that specification under a refinement mapping: `told`
and `known` are read off what the Web holds, so an answer that was lost is a step of
the promise all the same, and its repetition is a stutter.

### Handover

The life of one recording as the storage and Web reporting share it: entered in the
ledger before its archive has a byte, written, ended, closed once with a reason and only when it
can grow no more, then reported or given up, and removed only after that. A step of the
program can be a step in many lives, as a crash is or a restart, so `Next` asks of every file
that it makes a step of its own or none. `SessionStorage!ImplementsHandover` maps the stream and the
directory entry of an archive to its state there (`held`), `Outbox!ImplementsHandover` its
own `archive` and the ledger, where `FINALIZED` is still `CLOSED` (`ledger`). `SessionStorage` has the
real storage with a worker reduced to what it does to the ledger, `Outbox` the real worker, store and
maintenance tool with a storage reduced to what it does to the archive; that both
implement one `Handover` is what makes each reduction fit the other.

### Lifecycle

One life of the process from `run_server` to the end of `server_close`. `main` and
`coord` name the next statement of the main thread and of the shutdown coordinator;
each critical section of a condition is one step, and what it waits for is the
step's guard, because every change of the condition is followed by `notify_all`
under its lock. The flags are the code's: `ready`, `completed`, `cancelled` of the
coordinator's condition, `request` and `isShutDown` of `socketserver.BaseServer`, `active`
and `asked` for `_active_requests` and `_shutdown_requests`, `claimed` for `_sessions_closed`.
`workers` are the requests whose thread runs. `Then` gives the statement that follows
a step and `Raised` where the main thread goes when the step raises: run_server's
except clause, or the next of `server_close`'s clean-up steps. `Signal` is a signal
whose handler is the server's, `Interrupt` a Ctrl-C that reaches Python's own
handler, before the handlers are installed or after they are restored, and raises
in the stage it hits; `interrupted` remembers the stages so cut short. What workers
do to sessions is reduced to opening one; `SessionStorage` has the rest.

A second Ctrl-C is left out of the runs. The coordinator started by a start-up that
an interrupt cut short is released by `cancel_shutdown_coordinator` in `server_close`; an
interrupt that cuts that call short too leaves it waiting for a byte, and the join
after it waits until yet another Ctrl-C. The safety theorems hold for any number.

### How the models meet

The modules cut the program where it talks to itself through few values. `Connection`
takes `append_record` and `open_rejected_connection` as calls that return or raise;
`SessionStorage` and `RejectedFiles` are what they do. `SessionStorage` ends where a closure is
written to the ledger; `Outbox` begins there. `Outbox` takes a scan by its outcome and an exchange by
what becomes of the notification; `FileScan` and `Delivery` are what decides them.
`Lifecycle` begins with a server that is constructed; `Ownership` has its construction. `Outbox` implements `ReportingPromise` by refinement. There is no module that joins storage and outbox in one state
space: the product of their interleavings would exceed a run. What crosses the border is
`Handover`, which both implement.

## The runs

| Run | What it shows | Bounds |
|---|---|---|
| `storage_sharing` | two connections of one device, the idle pass, the sweep and shutdown interleave, with failures: one open archive for a device, active archives and directories survive, counted records are stored, nothing is stored after the last close | 2 clients, 1 device, 2 archive names, 2 records, clock to 3 |
| `storage_ledger` | the ledger against the archives with failures, crashes and restarts: every recording lives the life of `Handover` (what is closed is complete, no state is taken back), an idle close loses nothing, the sweep spares what was not reported | 1 client, 2 names, 2 records, all sent before the clock moves, clock to 2 |
| `storage_idle` | sessions close when and only when their device was silent | 2 devices, 1 record each, clock to 3 with a timeout of 2 |
| `storage_invalid_session` (violation) | a first append that fails leaves a session nothing expires | 1 client, 2 names, 2 records, no crashes |
| `connection` | records and rejections do not depend on the chunks, the buffer is bounded, a failure costs at most one read, the diagnostic ledger is true; a `feed` that raises takes its own read with it and nothing else | 2 devices, a value nested too deeply, lines of 2 bytes, chunks of 3, streams of 5 |
| `rejected_files` | an open diagnostic file keeps its name, the active set is exact, a connection is dropped only for a failed call, the sweep takes only old and closed files | 2 connections, 4 days, 1 day of retention |
| `scan_faults` | what the Web is told is true of the file, never smaller than before, names one zone and only on evidence | 4 lines of 2 zones |
| `delivery` | what counts as sent was applied (or is the first update, with the create's number, after the create), a refusal is final, a wait is as long as asked for | 4 notifications, 3 statuses, backoff to 4 |
| `outbox_faults` | one recording, live or from before reporting, with everything that can go wrong: order, acknowledgement, the promise to the Web, and the storage's `Handover` | 1 file, 3 lines |
| `outbox_live` | every closed recording is reported unless it needs the operator itself | 2 files, 1 line, no restarts |
| `lifecycle` | start-up, its failures, signals at any moment, a Ctrl-C for Python's own handler, a failing loop and the shutdown: everything is taken down in order whatever is cut short, who waits waits for a thread that can go on, every shutdown ends | 2 connections, 2 devices, 3 signals, 1 interrupt, a pipe of 2 bytes |
| `ownership` | two processes started, stopped and killed in turn: only the lease's holder touches the ledger, a failed start is undone, a stop gives the lease back, unless no thread could be started for the finalizer | 2 processes, 2 recordings |

Why the bounds are enough. Two connections are the least that compete for a session
or for the directory of diagnostic files, and a third only repeats the second. Two archive names
let a device have a second session, or two devices one each, beside a stale snapshot of the
first. Two records separate the first append of a session from the later ones and let a failed flush
be followed by a successful one. Retention, day and timeout are one clock unit
in the runs where every order of them matters, so the clock's bound spans more than one sweep.
In `storage_ledger` a device's second session follows a crash, a failed creation or a restart at time 0, and both its archives
are closed and swept as the clock goes on; a second session after an idle close is in `storage_sharing`.
`IdleTimeout` is 2 in `storage_idle`, where "not yet" and "just now" must differ. `MaxLine` is 2 and
`MaxChunk` one more, so that one chunk can hold a whole line, parts of two, or more than a
line may have; with `MaxSent` 5 a stream has two full lines and an unfinished one, or three lines of which one is
empty, in all chunkings.
`MaxLines` 4 leaves a zone's three samples one line that contradicts them, and `MaxAgain` caps
the conflicts counted again when a failed transaction is repeated. In `delivery` `BackoffCap` and `MaxShift` stand
for the code's 60 and 6: the cap cuts the last exponents off in both, and the values of `RetryAfters`
lie at 0, below and above it. Three lines let
`Outbox` queue an update, hold it back while a second is due, and close after it.
Notifications of different files share only the pass of the worker, which two
files exercise. Two connections let `Lifecycle` end one while another is accepted, and three signals
fill a pipe of two bytes while one is being served. Two processes are the least that want
one lease. The bounds are constants, named in their modules, and the proofs do not use
their values.

Symmetry is used for clients, devices and names of the storage in runs without liveness.
Deadlock is checked but in `connection`, `scan_faults`, `delivery` and `lifecycle`, whose systems end:
one connection, one recording, one file's notifications, one life of a process. There
`CleanEndIsComplete` and `ShutdownEnds` say in what state they may.

### Fairness

`SessionStorage!FairSpec` assumes that the serve loop and a handler that holds the
lock go on, and that time passes: both are threads whose calls return, and a lock
holder is never waiting for another lock. It assumes nothing of clients. `Outbox!FairSpec` assumes that the worker's
loop and its exchanges go on (each has a finite timeout), that `prepare` is due again
and again (`update_interval`), that a backoff elapses, and that a Web asked for ever answers at some
time (strong fairness of one successful or final answer for each file). It assumes neither
that the process restarts nor that an operator acts: `ClosedIsReported` ends with "or the process
is not up", and a blocked notification counts as settled.
`Lifecycle!FairSpec` assumes that the main thread and the coordinator run whenever they can, and that a
worker ends once its socket was shut down, when its `recv` returns. A worker whose client goes on
sending need never end by itself. `Ownership!FairSpec` assumes that a process's main thread and
its finalizer run; that a process is stopped, or exits, is not assumed, so that `LeaseIsReturned`
says "or its finalizer's thread could not be started".
In `outbox_live` local transactions do not fail: a disk that fails for ever stops every report.

## Proofs

Eight modules prove the safety and action properties of the runs for all values of the
constants: any number of clients, devices, files, processes and lines, any limit,
timeout and delay, with faults and crashes or without. Each has one inductive invariant, most of it facts that hold between the
properties' own, and one step of the proof for each action. The
assumptions are the named `ASSUME`s of the modules: sentinels that are not members of
the sets they stand beside, and the ranges `config.py` requires of its numbers.

`SessionStorageProofs`. That a device has one open
archive needs to know that every open stream is the mapped session's or the one
the lock holder is creating, and that a creation happens only while the device
has none. That the sweep spares active archives, although it works from a stale
snapshot, needs that a name is used once, that what was created after the snapshot is younger
than the cutoff, and that what was active at the snapshot is in it. That a
closed recording is complete needs that pending closures and ledger rows name
only closed streams; that it has lost nothing when it was closed for idleness, that each closure on its way
to the ledger says so of what it closes (`ClosureIsFaithful`). `HandoverKept` is the refinement of
`Handover`: one lemma says what the mapping makes of an archive (`LifeMapping`), one
of a step that ends an archive, closes an entry, or does neither or both (`StaysOrCloses`),
one what a flush can do, whatever part of it fails (`FlushFacts`), and `LifeStep` takes the actions one by one.

`OutboxProofs`. For each file the invariant relates the ledger to the archive (`LedgerInv`), what the
pass has read to what is still true (`ScanInv`), the queue to the ledger (`QueueInv`: consecutive numbers, growing
sizes, a create first and a close last, one update at most), what the Web holds to the
head of the queue (`WebInv`: the Web misses exactly the head, or holds it already because an answer was lost),
and an exchange's result to the Web (`Delivered`). `StepMoves` classifies what a step can do to
a file: leave it, enter it in the ledger, grow it, close it, send for it, acknowledge it, or let
the Web time out. The refinement follows: an apply is `Begin`, `Update` or `End` of the promise, everything else
is a step of the archive or a stutter (`PromiseKept`). `HandoverKept` is the other refinement, of the life the
storage shares; it adds to the invariant that an archive is created only for a
recording the ledger has.

`ConnectionProofs`. Of the parser: what was read and has left the buffer ends on a line boundary and
contains no line that is too long (`Framed`), hence a stream ends in `finished` exactly when it has
none. What it has reported is compared with the reference through the places of line
ends: the lines that have left the buffer are the reference's, the n-th record or rejection is the one whose line end has
rank n among the reference's records or rejections (`Rank`), and the device is that
of the first valid line (`Owner`) as soon as that has been read (`ParserInvariance`). During a feed the same is
known of what had been reported when it began, against the stream as it was then (`Faithful`): that is what remains
when a line raises (`RaisedAt`), and no line read before raised. From it follows that no report depends on the chunks (`ChunksInvisible`).
Of the handler: at each of its statements, how much of what the parser reported is
stored, and which events were written (`Counts`, `Stored`, `Recording`, `Told`); between two reads it has
passed all of it, so that a feed that raises takes back nothing it has stored (`Passed`).

`FileScanProofs`. What a scanner holds is what the lines it has read say, whatever the file
has become since; a zone's candidate has its samples among them; the ledger's zone is that of
every notification since it was first named.

`RejectedFilesProofs`. Who holds which file at each step of its opening, that a path is active exactly while its
recorder is in use, that the sweep's list excludes what is active or younger than the cutoff; `Prompt` is needed for a file
that is opened but not yet active.

`DeliveryProofs`. Every answer the Web has given to this file tells a state it was in and a number
it had applied, so that a foreign answer never passes for the one that is waited for, and an old
one only where the numbers are equal, which they are for the create and the first update.

`OwnershipProofs`. What a process has acquired at each step of its start, stop and
finalizer, and that whatever belongs to the ledger belongs to the lease's holder. A process whose finalizer
could not be started keeps both, and only together.

`LifecycleProofs`. That
sessions are closed only when no request is left needs that the coordinator passes
`isShutDown` only after the main thread has left the loop for good (`LoopLeft`), and that only the
loop adds a request; that reporting stops after the sessions needs that the
coordinator, which may have claimed them, has ended by then (`CoordinatorGone`), which in turn needs
that a coordinator that can get as far as `shutdown` is one the main thread tracks
(`CoordinatorStarted`). `NobodyIsStuck` is the safety `ShutdownEnds` rests on, and what can be proved of it:
the byte, the condition and the event the coordinator waits for are there or on their way
(`CoordinatorServed`, `CoordinatorReleased`), and every request that is waited for has a worker whose socket was
shut down (`RequestsAsked`), so that no two threads wait for each other.

| Module | Theorem | States |
|---|---|---|
| `SessionStorageProofs` | `Invariant` | the inductive invariant |
|  | `TypeCorrect` | `TypeOK` |
|  | `OneStream` | `OneStreamPerDevice` |
|  | `ActiveArchiveSafe` | `ActiveArchiveOnDisk` |
|  | `DirectorySafe` | `CreationKeepsDirectory` |
|  | `ClosedComplete` | `ClosedIsComplete` |
|  | `IdleCloseLossless` | `IdleCloseLosesNothing` |
|  | `CountedStored` | `CountedRecordsInFile` |
|  | `SweepSafe` | `SweepSparesUnreported` |
|  | `IdleCloseJustified` | `StreamClosedOnlyWhenIdle` |
|  | `LedgerForward` | `LedgerMovesForward` |
|  | `HandoverKept` | `ImplementsHandover` |
|  | `ShutdownIsFinal` | `NothingStoredAfterCloseAll` |
| `OutboxProofs` | `Invariance` | the inductive invariant |
|  | `TypeCorrect` | `TypeOK` |
|  | `QueueInOrder` | `QueueOrdered` |
|  | `NextMissing` | `NextIsMissing` |
|  | `NoneDropped` | `NothingDropped` |
|  | `ReadySound` | `ReadyIsSound` |
|  | `AcknowledgedApplied` | `AcknowledgedIsApplied` |
|  | `TerminalFinal` | `TerminalIsFinal` |
|  | `PromiseKept` | `ImplementsPromise` |
|  | `HandoverKept` | `ImplementsHandover` |
| `ConnectionProofs` | `Invariance` | the inductive invariant |
|  | `TypeCorrect` | `TypeOK` |
|  | `Bounded` | `BufferBounded` |
|  | `OneReadLost` | `LossIsOneRead` |
|  | `CleanEndComplete` | `CleanEndIsComplete` |
|  | `LedgerTrue` | `LedgerIsTrue` |
|  | `ParserInvariance` | the inductive invariant of the parser against the reference |
|  | `ReadsByItsParser` | a connection's reads are steps of the parser |
|  | `ChunksInvisible` | `ChunkingIsInvisible` |
| `FileScanProofs` | `Invariance` | the inductive invariant |
|  | `TypeCorrect` | `TypeOK` |
|  | `ToldTrue` | `ToldIsTrue` |
|  | `ToldGrows` | `ToldOnlyGrows` |
|  | `ZoneIsOne` | `OneZone` |
|  | `ZoneWitnessed` | `ZoneIsWitnessed` |
|  | `AuditGrows` | `AuditOnlyGrows` |
| `RejectedFilesProofs` | `Invariance` | the inductive invariant |
|  | `TypeCorrect` | `TypeOK` |
|  | `OpenFilesKept` | `OpenFileIsLinked` |
|  | `ActiveSetExact` | `ActiveIsInUse` |
|  | `FailuresCaused` | `FailureHasACause` |
|  | `SweepIsCareful` | `SweptIsOldAndClosed` |
| `DeliveryProofs` | `Invariance` | the inductive invariant |
|  | `TypeCorrect` | `TypeOK` |
|  | `SentApplied` | `SentIsApplied` |
|  | `RefusalFinal` | `RefusalIsFinal` |
|  | `WaitJustified` | `WaitIsJustified` |
| `OwnershipProofs` | `Invariance` | the inductive invariant |
|  | `TypeCorrect` | `TypeOK` |
|  | `LedgerOwned` | `LedgerIsOwned` |
|  | `StartUndone` | `FailedStartIsUndone` |
| `LifecycleProofs` | `Invariance` | the inductive invariant |
|  | `TypeCorrect` | `TypeOK` |
|  | `RequestsHaveThreads` | `EveryRequestServed` |
|  | `TeardownIsOrdered` | `TeardownOrder` |
|  | `EverythingReleased` | `ReleasedWhateverFails` |
|  | `SessionsStayClosed` | `NoSessionAfterClosing` |
|  | `NobodyIsStuck` | `WaitsAreAnswered` |

Properties that have a theorem but no run of their own are the type invariants, and
those that a property of a run implies or would only repeat: `ClosedIsComplete` and `LedgerMovesForward` of
`SessionStorage`, which `ImplementsHandover` contains, `QueueOrdered` and `TerminalIsFinal` of `Outbox`,
`EveryRequestServed` and `NoSessionAfterClosing` of `Lifecycle`, `AuditOnlyGrows` of `FileScan`.

Only model-checked are the four liveness properties, `OverdueSessionCloses`, `ClosedIsReported`,
`ShutdownEnds` and `LeaseIsReturned`: the prover has no support for fairness and ENABLED. `ChunksInvisible`, which
is about what a loop makes of a whole stream, avoids an induction over the stream (the induction theorems
take an operator, which the prover's backends cannot instantiate): the reference is not
recursive, it names each line by the place of its newline.

## Where the code and its documents differ

The first is a run of its own; the others came up while the models were written.

- `storage.py:281` puts a new session into `_sessions` before its first append. When that
  append fails, the session stays with no valid record, and the idle pass, which
  compares with the last one, never closes it. The design of device sessions asks
  that no invalid mapping be left behind (`storage_invalid_session`).
- A record whose flush fails after the write stays in the stream's buffer and
  reaches the file later, but is never counted: the total of `session_closed` is then
  not the final size the design of device sessions speaks of (its line 37).
- `reporting_admin.py:66` closes an imported recording in a transaction after its
  registration. After a crash between the two, the next start recovers it as ended by a
  shutdown at that moment, and no repeated import corrects it, while the operations
  document (line 83) forbids made-up event times.
- A connection that is reset, rather than closed or timed out, drops the unfinished line
  without a rejection (`server.py:54`), while the design of rejected connections (line 82) has
  unfinished bytes recorded when a connection ends.
- The scan after closing starts at the first byte with the time zone's state of the scans before it
  (`reporting_worker.py:60`). The first record it reads is then older than the last sample, so it resets a
  candidate and is itself not counted: of three agreeing samples, two of them seen while the file was active,
  no zone comes, though `worksite_timezone.py:19` and the design of Web reporting (line 69) ask for three;
  and a conflict already counted is counted again. A zone that was named stays (`OneZone`), and one is named only on three
  samples (`ZoneIsWitnessed`).
- `protocol.py:99` catches what `json.loads` raises as a `ValueError`. A line within the length limit
  that is nested too deeply raises a `RecursionError` instead, which only `handle` catches: the connection ends with
  `handler_error`, the line is neither accepted nor rejected, and the records and rejections found before
  it in the same chunk are lost, which they are not when they come in a chunk of their own. The design of rejected
  connections (line 23) has `invalid_json` captured like every other reason. `ChunkingIsInvisible` says exactly what is lost.
- `reporting_service.py:79-80` sets `_finalizer` before its thread is started. When that fails, `stop`
  raises with lease and ledger held, and a second `stop` only waits for a finalizer that never ran: until the process
  exits no other can take the data directory over (`FailedStartIsUndone`, `LeaseIsReturned`).
- `reporting_store.py:78` gives the create the sequence 1 and `:101` the first update the same. The
  client takes an update as confirmed by an `acceptedSequence` not below its own
  (`reporting_client.py:102-105`), and the Web of the integration test answers a create with 1
  (`tests/test_reporting_integration.py:43`): that answer given again, by whatever stands between, confirms an update the Web may not
  have. Later updates and the close cannot be confirmed by an earlier answer (`SentIsApplied`). What such an update
  held reaches the Web with the next one or with the close.

## What is not modelled

- Bytes, JSON, hashes, time formats and log lines: a record is a unit, a name a value.
- Configuration parsing, the image and the operator scripts: they keep no state.
- The parsing of a `Retry-After` date, which becomes a number of seconds; how a polygon is found for a position.
- The summary the worker logs once a minute; `Storage.record_rejected`, which nothing calls.
- An archive storage error that is a `TimeoutError`: it is the same class as `socket.timeout`, so `handle` would end
  with that reason. The storage errors of `Connection` are the others.
- Whether a started event that failed was written all the same: it counts as not written.
- A lack of memory, and a `RecursionError` elsewhere than in the parser and in `deliver`: `FileStats.scan` decodes
  lines the parser has accepted, and from a shallower stack; an import that raises one has registered nothing yet.
- The exchange in which a create's answer confirms the first update: `Outbox` takes an exchange by its outcome and
  has every acknowledged notification applied. The case is `Delivery`'s alone.
- The state `ERROR` of a recording in `Ownership`, whose ledger only tells open from closed; `Outbox` and `SessionStorage` have it.
- A `block_file` that fails in `FileScan`; `Outbox` has a worker's pass that ends with any transaction's error.
- An interrupt between two steps of `server_close` (`server.py:329-363`): in `Lifecycle` it hits a step.
- A session without a valid record in `OverdueSessionCloses`, which is about sessions that have one; that there is
  one without is what `NoInvalidSession` refutes.
- The clock stepping back: retention and idle times assume a wall clock that does not.
- A signal whose default action kills the process, which any behaviour of `Lifecycle` may stop short for.
- A second Ctrl-C during the shutdown, for the reason given with `Lifecycle`; its safety is proved for any number.

## Running the checks

`tlc -config <run>.cfg <module>` checks a run (`PROJECT.json` names the module of each
`.cfg`), and `tlapm <module>Proofs.tla` checks the proofs about a module: `SessionStorageProofs`, `OutboxProofs`,
`ConnectionProofs`, `FileScanProofs`, `RejectedFilesProofs`, `DeliveryProofs`, `OwnershipProofs` and
`LifecycleProofs`. The mutants in
`PROJECT.json` are definitions named `Bug...` beside the ones they replace: each is a
plausible mistake in the code that a property must notice.
