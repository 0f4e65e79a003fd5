--------------------------- MODULE SessionStorage ---------------------------
(***************************************************************************)
(* The session storage of the collector: storage.py (Storage and           *)
(* DeviceSession) as the connection handlers and the serve loop of         *)
(* server.py use it, and the part of the reporting ledger                  *)
(* (reporting_service.py, reporting_store.py) that closing a session and   *)
(* sparing an archive from retention depend on.                            *)
(*                                                                         *)
(* Threads: one handler per connected client, which appends under          *)
(* _sessions_lock; the serve loop, which between polls closes idle         *)
(* sessions under that lock and once a day sweeps old archives, for the    *)
(* most part without it; the reporting worker, which retries closures and  *)
(* moves a recording through the ledger. A step of an action is what one   *)
(* thread does between two points where another thread can see the        *)
(* difference: a lock, a file-system call, a database transaction.         *)
(***************************************************************************)
EXTENDS Integers, FiniteSets

CONSTANTS
  Clients,        \* connections the collector may hold at one time
  Devices,        \* device identifiers
  Files,          \* archive names (timestamp and uuid: a name is used once)
  NoDevice,       \* the owner of a name that has not been used
  NoFile,         \* the absence of a session
  Reporting,      \* TRUE when Web reporting is configured
  Faults,         \* TRUE when file-system and database calls may fail
  Crashes,        \* TRUE when the process may be killed
  IdleTimeout,    \* idle_timeout_seconds, in clock units
  DayLength,      \* clock units of one day
  RetentionDays,  \* device_retention_days
  MaxTime,        \* bound: the clock stops here
  QuietAfter,     \* bound: no device sends a record after this time
  MaxRecords      \* bound: records handed to one archive's stream

ASSUME SentinelAssumption ==
  /\ NoDevice \notin Devices
  /\ NoFile \notin Files
  /\ {"free", "loop"} \cap Clients = {}
ASSUME ParameterAssumption ==
  /\ {Reporting, Faults, Crashes} \subseteq BOOLEAN
  /\ {IdleTimeout, DayLength, RetentionDays} \subseteq Nat \ {0}
  /\ {MaxTime, QuietAfter, MaxRecords} \subseteq Nat

VARIABLES
  clock,       \* the wall clock, which never steps back
  conn,        \* clients with an open connection
  lock,        \* holder of _sessions_lock: "free", "loop" or a client
  step,        \* where the handler holding the lock is in append_record
  cur,         \* the archive that handler creates or appends to
  sessions,    \* Storage._sessions: the archive of a device's session
  owner,       \* the device whose directory an archive name is in
  stream,      \* state of an archive's output stream
  onDisk,      \* archives that exist in the file system
  dirs,        \* devices whose directory exists
  mtime,       \* modification time of an archive
  last,        \* DeviceSession._last_valid_record_at, or Never
  size,        \* records in the file
  total,       \* records counted by DeviceSession._total_bytes
  buf,         \* records left in the stream's buffer by a failed flush
  rec,         \* recordings.state of an archive, "none" when not registered
  reason,      \* recordings.close_reason
  pending,     \* ReportingService._pending: closures not yet in the ledger
  loop,        \* where the serve loop is
  now,         \* the time the serve loop read for its current pass
  todo,        \* sessions the loop still has to close while it holds the lock
  closing,     \* the archive whose stream the loop has just closed, or NoFile
  cause,       \* why the loop closes: "IDLE_TIMEOUT" or "SERVER_SHUTDOWN"
  outcome,     \* the reason the closed stream is reported with
  failed,      \* TRUE when a close of this pass raised
  spared,      \* active_paths: archives this sweep must not touch
  skipped,     \* archives this sweep failed to unlink
  lastCleanup  \* _last_retention_cleanup_date, or Never

threadVars  == <<conn, lock, step, cur, sessions>>
archiveVars == <<owner, stream, onDisk, dirs, mtime, last, size, total, buf>>
ledgerVars  == <<rec, reason, pending>>
closeVars   == <<todo, closing, cause, outcome, failed>>
sweepVars   == <<spared, skipped, lastCleanup>>
loopVars    == <<loop, now, closeVars, sweepVars>>
vars == <<clock, threadVars, archiveVars, ledgerVars, loopVars>>

Never       == -1
RecStates   == {"none", "OPEN", "CLOSED", "DONE", "ERROR"}
WebReasons  == {"IDLE_TIMEOUT", "SERVER_SHUTDOWN", "ABORTED"}
Reasons     == WebReasons \cup {"none"}
CreateSteps == {"mkdir", "register", "open", "started"}
LoopSteps   == {"poll", "expire", "close", "retention", "snapshot", "protect",
                "sweep", "rmdir", "stopping", "stopped", "off"}

TypeOK ==
  /\ clock \in Nat
  /\ conn \subseteq Clients
  /\ lock \in Clients \cup {"free", "loop"}
  /\ step \in CreateSteps \cup {"none", "write"}
  /\ cur \in Files \cup {NoFile}
  /\ sessions \in [Devices -> Files \cup {NoFile}]
  /\ owner \in [Files -> Devices \cup {NoDevice}]
  /\ stream \in [Files -> {"unused", "open", "closed"}]
  /\ onDisk \subseteq Files
  /\ dirs \subseteq Devices
  /\ mtime \in [Files -> Nat]
  /\ last \in [Files -> Nat \cup {Never}]
  /\ size \in [Files -> Nat]
  /\ total \in [Files -> Nat]
  /\ buf \in [Files -> Nat]
  /\ rec \in [Files -> RecStates]
  /\ reason \in [Files -> Reasons]
  /\ pending \in [Files -> Reasons]
  /\ loop \in LoopSteps
  /\ now \in Nat
  /\ todo \subseteq Files
  /\ closing \in Files \cup {NoFile}
  /\ cause \in WebReasons
  /\ outcome \in Reasons
  /\ failed \in BOOLEAN
  /\ spared \subseteq Files
  /\ skipped \subseteq Files
  /\ lastCleanup \in Nat \cup {Never}

Init ==
  /\ clock = 0
  /\ conn = {} /\ lock = "free" /\ step = "none" /\ cur = NoFile
  /\ sessions = [d \in Devices |-> NoFile]
  /\ owner = [f \in Files |-> NoDevice]
  /\ stream = [f \in Files |-> "unused"]
  /\ onDisk = {} /\ dirs = {}
  /\ mtime = [f \in Files |-> 0]
  /\ last = [f \in Files |-> Never]
  /\ size = [f \in Files |-> 0]
  /\ total = [f \in Files |-> 0]
  /\ buf = [f \in Files |-> 0]
  /\ rec = [f \in Files |-> "none"]
  /\ reason = [f \in Files |-> "none"]
  /\ pending = [f \in Files |-> "none"]
  /\ loop = "poll" /\ now = 0
  /\ todo = {} /\ closing = NoFile /\ failed = FALSE
  /\ cause = "IDLE_TIMEOUT" /\ outcome = "none"
  /\ spared = {} /\ skipped = {} /\ lastCleanup = Never

-----------------------------------------------------------------------------
(* State formulas named for what they mean. *)

Mapped == {f \in Files : \E d \in Devices : sessions[d] = f}
Day(t) == t \div DayLength
InDirectory(d) == {f \in onDisk : owner[f] = d}

\* Mutant: protected_paths lists the recordings that are still open.
BugProtected == {f \in Files : rec[f] = "OPEN"}

(* Archives whose registration the ledger still has to finish delivering. *)
Protected == {f \in Files : rec[f] \notin {"none", "DONE"}}

-----------------------------------------------------------------------------
(* Connections (CollectorServer.process_request, handle). *)

Connect(c) ==
  /\ loop = "poll" /\ c \notin conn
  /\ conn' = conn \cup {c}
  /\ UNCHANGED <<clock, lock, step, cur, sessions, archiveVars, ledgerVars, loopVars>>

(* End of stream, socket timeout or an error: the handler returns. *)
Disconnect(c) ==
  /\ c \in conn /\ lock # c
  /\ conn' = conn \ {c}
  /\ UNCHANGED <<clock, lock, step, cur, sessions, archiveVars, ledgerVars, loopVars>>

-----------------------------------------------------------------------------
(* Storage.append_record: the handler of client c has parsed a record of     *)
(* device d. It takes the lock, then finds the session or starts to create   *)
(* one; cur is the name chosen for it.                                       *)

\* Mutant: append_record does not exclude other handlers and the serve loop.
BugMayAppend(c) == c \in conn /\ lock # c

MayAppend(c) == c \in conn /\ lock = "free"

AcquireLock(c, d) ==
  /\ MayAppend(c) /\ clock <= QuietAfter
  /\ lock' = c
  /\ \/ /\ sessions[d] # NoFile
        /\ size[sessions[d]] + buf[sessions[d]] < MaxRecords
        /\ cur' = sessions[d] /\ step' = "write"
        /\ UNCHANGED owner
     \/ /\ sessions[d] = NoFile
        /\ \E f \in Files :
             /\ owner[f] = NoDevice
             /\ owner' = [owner EXCEPT ![f] = d]
             /\ cur' = f
        /\ step' = "mkdir"
  /\ UNCHANGED <<clock, conn, sessions, stream, onDisk, dirs, mtime, last, size,
                 total, buf, ledgerVars, loopVars>>

(* The handler leaves append_record by an exception: handle() logs it and    *)
(* ends the connection.                                                      *)
HandlerRaises ==
  /\ conn' = conn \ {lock}
  /\ lock' = "free" /\ step' = "none" /\ cur' = NoFile

MakeDirectory ==
  /\ step = "mkdir"
  /\ dirs' = dirs \cup {owner[cur]}
  /\ step' = "register"
  /\ UNCHANGED <<clock, conn, lock, cur, sessions, owner, stream, onDisk, mtime, last,
                 size, total, buf, ledgerVars, loopVars>>

(* ReportingService.register commits before the file exists. *)
Register ==
  /\ step = "register"
  /\ rec' = IF Reporting THEN [rec EXCEPT ![cur] = "OPEN"] ELSE rec
  /\ step' = "open"
  /\ UNCHANGED <<clock, conn, lock, cur, sessions, archiveVars, reason, pending, loopVars>>

OpenFile ==
  /\ step = "open" /\ owner[cur] \in dirs
  /\ stream' = [stream EXCEPT ![cur] = "open"]
  /\ onDisk' = onDisk \cup {cur}
  /\ mtime' = [mtime EXCEPT ![cur] = clock]
  /\ step' = "started"
  /\ UNCHANGED <<clock, conn, lock, cur, sessions, owner, dirs, last, size, total, buf,
                 ledgerVars, loopVars>>

(* mkdir, register or open raises: nothing the earlier steps did is undone.  *)
(* A name that reached neither the ledger nor the disk may be drawn again.   *)
CreateFails ==
  /\ Faults /\ step \in {"mkdir", "register", "open"}
  /\ HandlerRaises
  /\ owner' = IF rec[cur] = "none" THEN [owner EXCEPT ![cur] = NoDevice] ELSE owner
  /\ UNCHANGED <<clock, sessions, stream, onDisk, dirs, mtime, last, size, total, buf,
                 ledgerVars, loopVars>>

(* The session_started event is written and the session enters the map. *)
WriteStarted ==
  /\ step = "started"
  /\ sessions' = [sessions EXCEPT ![owner[cur]] = cur]
  /\ step' = "write"
  /\ UNCHANGED <<clock, conn, lock, cur, archiveVars, ledgerVars, loopVars>>

(* The event cannot be written: the stream is abandoned, the file unlinked   *)
(* if that works, its directory removed if that leaves it empty.             *)
StartedFails ==
  /\ Faults /\ step = "started"
  /\ HandlerRaises
  /\ stream' = [stream EXCEPT ![cur] = "closed"]
  /\ onDisk' \in {onDisk, onDisk \ {cur}}
  /\ dirs' = IF \A f \in onDisk' : owner[f] # owner[cur] THEN dirs \ {owner[cur]} ELSE dirs
  /\ UNCHANGED <<clock, sessions, owner, mtime, last, size, total, buf, ledgerVars, loopVars>>

-----------------------------------------------------------------------------
(* DeviceSession.append, called with _sessions_lock held. *)

\* Mutant: append counts the record before it is flushed.
BugAppendFails ==
  /\ Faults /\ step = "write"
  /\ HandlerRaises
  /\ buf' \in {buf, [buf EXCEPT ![cur] = @ + 1]}
  /\ total' = [total EXCEPT ![cur] = @ + 1]
  /\ UNCHANGED <<clock, sessions, owner, stream, onDisk, dirs, mtime, last, size,
                 ledgerVars, loopVars>>

AppendRecord ==
  /\ step = "write"
  /\ size' = [size EXCEPT ![cur] = @ + buf[cur] + 1]
  /\ buf' = [buf EXCEPT ![cur] = 0]
  /\ total' = [total EXCEPT ![cur] = @ + 1]
  /\ mtime' = [mtime EXCEPT ![cur] = clock]
  /\ last' = [last EXCEPT ![cur] = clock]
  /\ lock' = "free" /\ step' = "none" /\ cur' = NoFile
  /\ UNCHANGED <<clock, conn, sessions, owner, stream, onDisk, dirs, ledgerVars, loopVars>>

(* The attach event, the write or the flush raises. The session stays in the *)
(* map; a record that had reached the stream's buffer stays there and goes   *)
(* out with the next flush that works, though it was never counted.          *)
AppendFails ==
  /\ Faults /\ step = "write"
  /\ HandlerRaises
  /\ buf' \in {buf, [buf EXCEPT ![cur] = @ + 1]}
  /\ UNCHANGED <<clock, sessions, owner, stream, onDisk, dirs, mtime, last, size, total,
                 ledgerVars, loopVars>>

-----------------------------------------------------------------------------
(* ReportingService: _pending_lock is held from storing a closure to the end *)
(* of the flush, and a closure whose transaction fails is kept for later.    *)

PendingIn(p) == {f \in Files : p[f] # "none"}
Failing(p)   == IF Faults THEN SUBSET PendingIn(p) ELSE {{}}

\* Mutant: mark_closed without "AND state='OPEN'".
BugClosable(f) == rec[f] # "none"

Closable(f) == rec[f] = "OPEN"

(* ReportStore.mark_closed on every pending closure but those in kept. *)
FlushClosures(p, kept) ==
  LET settled == PendingIn(p) \ kept
      opened  == {f \in settled : Closable(f)} IN
  /\ rec' = [f \in Files |-> IF f \in opened THEN "CLOSED" ELSE rec[f]]
  /\ reason' = [f \in Files |-> IF f \in opened THEN p[f] ELSE reason[f]]
  /\ pending' = [f \in Files |-> IF f \in settled THEN "none" ELSE p[f]]

(* The reporting worker retries before each scan (before_prepare). *)
RetryClosures ==
  /\ loop # "off" /\ PendingIn(pending) # {}
  /\ \E kept \in Failing(pending) : FlushClosures(pending, kept)
  /\ UNCHANGED <<clock, threadVars, archiveVars, loopVars>>

(* The rest of the worker, as far as retention sees it: a closed recording   *)
(* is scanned, its closure delivered and acknowledged; a file the scan        *)
(* refuses is blocked.                                                        *)
Deliver(f) ==
  /\ loop # "off" /\ rec[f] = "CLOSED" /\ f \in onDisk
  /\ rec' = [rec EXCEPT ![f] = "DONE"]
  /\ UNCHANGED <<clock, threadVars, archiveVars, reason, pending, loopVars>>

BlockFile(f) ==
  /\ loop # "off" /\ Faults /\ rec[f] \in {"OPEN", "CLOSED"}
  /\ rec' = [rec EXCEPT ![f] = "ERROR"]
  /\ UNCHANGED <<clock, threadVars, archiveVars, reason, pending, loopVars>>

-----------------------------------------------------------------------------
(* service_actions, first half: Storage.expire_sessions. The time is read    *)
(* before the lock is taken.                                                 *)

BeginExpire ==
  /\ loop = "poll"
  /\ now' = clock /\ loop' = "expire"
  /\ UNCHANGED <<clock, threadVars, archiveVars, ledgerVars, closeVars, sweepVars>>

\* Mutant: a session that has stored no record yet is idle as well.
BugExpired == {f \in Mapped : now - last[f] >= IdleTimeout}
\* Mutant: the comparison with the timeout is strict.
BugLateExpired == {f \in Mapped : last[f] # Never /\ now - last[f] > IdleTimeout}

(* DeviceSession.close_if_expired, its decision. *)
Expired == {f \in Mapped : last[f] # Never /\ now - last[f] >= IdleTimeout}

AcquireExpire ==
  /\ loop = "expire" /\ lock = "free"
  /\ lock' = "loop" /\ loop' = "close"
  /\ todo' = Expired /\ cause' = "IDLE_TIMEOUT" /\ failed' = FALSE
  /\ UNCHANGED <<clock, conn, step, cur, sessions, archiveVars, ledgerVars, now,
                 closing, outcome, sweepVars>>

\* Mutant: the ledger gets the reason of the pass although the close failed.
BugReportedReason(raised) == cause

ReportedReason(raised) == IF raised THEN "ABORTED" ELSE cause

(* DeviceSession._close_locked up to the call of reporting.closed: flush,    *)
(* fsync and close, with whatever the buffer held written or lost. An error  *)
(* turns the reported reason into an abnormal one.                           *)
CloseStream(f) ==
  /\ loop = "close" /\ closing = NoFile /\ f \in todo
  /\ \E raised \in {FALSE, Faults} : \E lost \in IF raised THEN {0, buf[f]} ELSE {0} :
       /\ size' = [size EXCEPT ![f] = @ + buf[f] - lost]
       /\ buf' = [buf EXCEPT ![f] = lost]
       /\ mtime' = [mtime EXCEPT ![f] = IF buf[f] > lost THEN clock ELSE @]
       /\ outcome' = ReportedReason(raised)
       /\ failed' = (failed \/ raised)
  /\ stream' = [stream EXCEPT ![f] = "closed"]
  /\ closing' = f /\ todo' = todo \ {f}
  /\ UNCHANGED <<clock, threadVars, owner, onDisk, dirs, last, total, ledgerVars,
                 loop, now, cause, sweepVars>>

(* The rest of _close_locked: reporting.closed, which records the closure    *)
(* and flushes all pending ones, then the session_closed event. The events   *)
(* (this one and session_idle_timeout) may fail too; that only raises.       *)
ReportClosed ==
  /\ loop = "close" /\ closing # NoFile
  /\ IF Reporting
     THEN LET p == [pending EXCEPT ![closing] = outcome] IN
          \E kept \in Failing(p) : FlushClosures(p, kept)
     ELSE UNCHANGED ledgerVars
  /\ failed' \in {failed, failed \/ Faults}
  /\ closing' = NoFile /\ outcome' = "none"
  /\ UNCHANGED <<clock, threadVars, archiveVars, loop, now, todo, cause, sweepVars>>

(* The closed sessions leave the map (all of them at shutdown) and the lock  *)
(* is released. An error ends the serve loop.                                *)
EndClose ==
  /\ loop = "close" /\ closing = NoFile /\ todo = {}
  /\ sessions' = [d \in Devices |->
       IF sessions[d] \in Files /\ stream[sessions[d]] = "open" /\ cause = "IDLE_TIMEOUT"
       THEN sessions[d] ELSE NoFile]
  /\ lock' = "free"
  /\ loop' = IF cause # "IDLE_TIMEOUT" THEN "stopped"
             ELSE IF failed THEN "stopping" ELSE "retention"
  /\ failed' = FALSE
  /\ UNCHANGED <<clock, conn, step, cur, archiveVars, ledgerVars, now, todo, closing,
                 cause, outcome, sweepVars>>

-----------------------------------------------------------------------------
(* service_actions, second half: once per date, the retention sweep          *)
(* (cleanup_expired_files). Only its two short sections hold the lock.       *)

CheckRetention ==
  /\ loop = "retention"
  /\ IF lastCleanup = Day(clock)
     THEN loop' = "poll" /\ now' = 0
     ELSE loop' = "snapshot" /\ now' = clock
  /\ UNCHANGED <<clock, threadVars, archiveVars, ledgerVars, closeVars, sweepVars>>

\* Mutant: only the ledger decides which archives a sweep spares.
BugActivePaths == {}

ActivePaths == Mapped

SnapshotActive ==
  /\ loop = "snapshot" /\ lock = "free"
  /\ spared' = ActivePaths /\ skipped' = {}
  /\ loop' = IF Reporting THEN "protect" ELSE "sweep"
  /\ UNCHANGED <<clock, threadVars, archiveVars, ledgerVars, now, closeVars, lastCleanup>>

(* ReportStore.protected_paths; a database error ends the serve loop. *)
SnapshotProtected ==
  /\ loop = "protect"
  /\ \/ spared' = spared \cup Protected /\ loop' = "sweep"
     \/ Faults /\ spared' = {} /\ loop' = "stopping"
  /\ UNCHANGED <<clock, threadVars, archiveVars, ledgerVars, now, closeVars,
                 skipped, lastCleanup>>

Candidates == {f \in onDisk \ (spared \cup skipped) :
                 mtime[f] < now - RetentionDays * DayLength}

(* _unlink_expired_files, for one path of the listing. *)
SweepUnlink(f) ==
  /\ loop = "sweep" /\ f \in Candidates
  /\ \/ onDisk' = onDisk \ {f} /\ UNCHANGED skipped
     \/ Faults /\ skipped' = skipped \cup {f} /\ UNCHANGED onDisk
  /\ UNCHANGED <<clock, threadVars, owner, stream, dirs, mtime, last, size, total, buf,
                 ledgerVars, loop, now, closeVars, spared, lastCleanup>>

SweepEnds ==
  /\ loop = "sweep" /\ Candidates = {}
  /\ loop' = "rmdir" /\ spared' = {} /\ skipped' = {}
  /\ UNCHANGED <<clock, threadVars, archiveVars, ledgerVars, now, closeVars, lastCleanup>>

\* Mutant: empty directories are removed without holding _sessions_lock.
BugMayRemove == TRUE

MayRemove == lock = "free"

(* Empty directories are removed under the lock; then the cleanup event is   *)
(* written, and only then does the date count as cleaned.                    *)
RemoveDirectories ==
  /\ loop = "rmdir" /\ MayRemove
  /\ dirs' = {d \in dirs : InDirectory(d) # {}}
  /\ \/ lastCleanup' = Day(now) /\ loop' = "poll"
     \/ Faults /\ UNCHANGED lastCleanup /\ loop' = "stopping"
  /\ now' = 0
  /\ UNCHANGED <<clock, threadVars, owner, stream, onDisk, mtime, last, size, total, buf,
                 ledgerVars, closeVars, spared, skipped>>

-----------------------------------------------------------------------------
(* The end of the process and its restart. *)

(* A signal ends the serve loop between two polls. *)
RequestShutdown ==
  /\ loop = "poll"
  /\ loop' = "stopping"
  /\ UNCHANGED <<clock, threadVars, archiveVars, ledgerVars, now, closeVars, sweepVars>>

\* Mutant: shutdown does not wait for the connection handlers.
BugHandlersDone == TRUE

HandlersDone == conn = {}

(* Storage.close_all_sessions, once every handler has returned. *)
CloseAll ==
  /\ loop = "stopping" /\ HandlersDone /\ lock = "free"
  /\ lock' = "loop" /\ loop' = "close" /\ cause' = "SERVER_SHUTDOWN"
  /\ todo' = Mapped /\ now' = 0
  /\ UNCHANGED <<clock, conn, step, cur, sessions, archiveVars, ledgerVars, closing,
                 outcome, failed, sweepVars>>

(* ReportingService._finish: a last flush, then the lease is released. What  *)
(* could not be flushed is lost with the process.                            *)
StopReporting ==
  /\ loop = "stopped"
  /\ \E kept \in Failing(pending) :
       LET settled == PendingIn(pending) \ kept IN
       /\ FlushClosures([f \in Files |-> IF f \in settled THEN pending[f] ELSE "none"], {})
  /\ loop' = "off" /\ cause' = "IDLE_TIMEOUT" /\ lastCleanup' = Never
  /\ UNCHANGED <<clock, threadVars, archiveVars, now, todo, closing, outcome, failed,
                 spared, skipped>>

(* The process is killed. The file system and the ledger survive; a record   *)
(* still in a buffer does not.                                               *)
Crash ==
  /\ Crashes /\ loop # "off"
  /\ conn' = {} /\ lock' = "free" /\ step' = "none" /\ cur' = NoFile
  /\ sessions' = [d \in Devices |-> NoFile]
  /\ stream' = [f \in Files |-> IF stream[f] = "open" THEN "closed" ELSE stream[f]]
  /\ pending' = [f \in Files |-> "none"]
  /\ loop' = "off" /\ now' = 0
  /\ todo' = {} /\ closing' = NoFile /\ failed' = FALSE
  /\ cause' = "IDLE_TIMEOUT" /\ outcome' = "none"
  /\ spared' = {} /\ skipped' = {} /\ lastCleanup' = Never
  /\ UNCHANGED <<clock, owner, onDisk, dirs, mtime, last, size, total, buf, rec, reason>>

(* A new process: ReportStore.recover closes what the old one left open. *)
Restart ==
  /\ loop = "off"
  /\ rec' = [f \in Files |-> IF rec[f] = "OPEN" THEN "CLOSED" ELSE rec[f]]
  /\ reason' = [f \in Files |-> IF rec[f] = "OPEN" THEN "SERVER_SHUTDOWN" ELSE reason[f]]
  /\ loop' = "poll"
  /\ UNCHANGED <<clock, threadVars, archiveVars, pending, now, closeVars, sweepVars>>

Tick ==
  /\ clock < MaxTime
  /\ clock' = clock + 1
  /\ UNCHANGED <<threadVars, archiveVars, ledgerVars, loopVars>>

-----------------------------------------------------------------------------
HandlerStep ==
  \/ MakeDirectory \/ Register \/ OpenFile \/ CreateFails
  \/ WriteStarted \/ StartedFails \/ AppendRecord \/ AppendFails

LoopStep ==
  \/ BeginExpire \/ AcquireExpire \/ ReportClosed \/ EndClose
  \/ \E f \in Files : CloseStream(f) \/ SweepUnlink(f)
  \/ CheckRetention \/ SnapshotActive \/ SnapshotProtected \/ SweepEnds
  \/ RemoveDirectories \/ CloseAll \/ StopReporting

WorkerStep == RetryClosures \/ \E f \in Files : Deliver(f) \/ BlockFile(f)

Next ==
  \/ \E c \in Clients : Connect(c) \/ Disconnect(c) \/ \E d \in Devices : AcquireLock(c, d)
  \/ HandlerStep \/ LoopStep \/ WorkerStep
  \/ RequestShutdown \/ Crash \/ Restart \/ Tick

Spec == Init /\ [][Next]_vars

(* Scheduling: the handler holding the lock and the serve loop keep running, *)
(* time passes, and a connection shut down by the server ends.               *)
FairSpec ==
  /\ Spec
  /\ WF_vars(HandlerStep) /\ WF_vars(LoopStep) /\ WF_vars(Tick)
  /\ \A c \in Clients : WF_vars(loop = "stopping" /\ Disconnect(c))

-----------------------------------------------------------------------------
(* Safety. *)

(* storage.py:278-283: however handlers, idle expiry, failures and restarts  *)
(* interleave, a device never has two archives being written.                *)
OneStreamPerDevice ==
  \A f, g \in Files :
    stream[f] = "open" /\ stream[g] = "open" /\ owner[f] = owner[g] => f = g

(* storage.py:396-404: the sweep works from a snapshot of the active paths   *)
(* and from file times, without the lock, and still never unlinks the        *)
(* archive of a device session, not even of one created since the snapshot.  *)
ActiveArchiveOnDisk ==
  \A d \in Devices : sessions[d] # NoFile => sessions[d] \in onDisk

(* storage.py:423-425: a directory does not disappear between the mkdir of a *)
(* session creation and the open of its file, nor under a stored archive.    *)
CreationKeepsDirectory ==
  /\ step \in {"register", "open"} => owner[cur] \in dirs
  /\ \A f \in onDisk : owner[f] \in dirs

(* storage.py:142-155: the ledger calls a recording closed only when nothing *)
(* can be written to its archive any more, across failed closures, retries   *)
(* by the worker, crashes and recovery.                                      *)
ClosedIsComplete ==
  \A f \in Files : rec[f] \in {"CLOSED", "DONE"} => stream[f] # "open"

(* storage.py:138-155: a recording closed for idleness has lost no record:   *)
(* whatever an earlier failed flush left in the buffer is in the file, or    *)
(* the reported reason is ABORTED.                                           *)
IdleCloseLosesNothing ==
  \A f \in Files : rec[f] = "CLOSED" /\ reason[f] = "IDLE_TIMEOUT" => buf[f] = 0

(* storage.py:84-87: every record counted as stored is in the file, whatever *)
(* appends failed before it and however the session ended.                   *)
CountedRecordsInFile == \A f \in Files : total[f] <= size[f]

-----------------------------------------------------------------------------
(* Action properties. *)

(* storage.py:403-404: a sweep removes an archive only when the ledger is    *)
(* through with it; otherwise only the failing creation that made it may.    *)
SweepSpares ==
  \A f \in onDisk \ onDisk' : rec[f] \in {"none", "DONE"} \/ (f = cur /\ step = "started")
SweepSparesUnreported == [][SweepSpares]_vars

(* storage.py:354-368: while the server runs, a device's stream is closed    *)
(* only after a whole idle timeout without a stored record, even though the  *)
(* loop decides with a time it read before it got the lock.                  *)
ClosedWhenIdle ==
  (cause = "IDLE_TIMEOUT" /\ step # "started" /\ loop' # "off") =>
    \A f \in Files : stream[f] = "open" /\ stream'[f] = "closed"
                    => last[f] # Never /\ clock - last[f] >= IdleTimeout
StreamClosedOnlyWhenIdle == [][ClosedWhenIdle]_vars

(* reporting_store.py:110-118: a recording moves forward only; a late        *)
(* closure, a retry or a recovery never reopens it or takes back DONE or     *)
(* ERROR, and the first reason recorded stays.                               *)
MovesForward ==
  \A f \in Files :
    /\ rec[f] \in {"DONE", "ERROR"} => rec'[f] = rec[f]
    /\ rec[f] = "CLOSED" => rec'[f] # "OPEN" /\ reason'[f] = reason[f]
LedgerMovesForward == [][MovesForward]_vars

(* storage.py, reporting_store.py: with the ledger the storage keeps each    *)
(* recording on its way: registered before its archive is written, closed    *)
(* once, with the first reason and when it can grow no more, and removed     *)
(* only when it is reported.                                                 *)
held == [f \in Files |-> CASE stream[f] = "unused" -> "absent"
                           [] stream[f] = "open"   -> "writing"
                           [] OTHER                -> IF f \in onDisk THEN "final" ELSE "gone"]

Life == INSTANCE Handover WITH archive <- held

ImplementsHandover == Life!Spec

(* server.py:178-197: once all sessions are closed for shutdown, no record   *)
(* is stored until a new process serves: no handler outlives the close.      *)
NothingStored ==
  loop \in {"stopped", "off"} => size' = size /\ onDisk' = onDisk /\ sessions' = sessions
NothingStoredAfterCloseAll == [][NothingStored]_vars

-----------------------------------------------------------------------------
(* Liveness. *)

(* storage.py:89-120, server.py:199-201: a session that has stored a record  *)
(* does not stay open past its timeout: it is closed (by the idle pass, the  *)
(* shutdown or the death of the process, whatever fails on the way) or its   *)
(* device sends again.                                                       *)
Overdue(f) == stream[f] = "open" /\ last[f] # Never /\ clock - last[f] >= IdleTimeout
OverdueSessionCloses == \A f \in Files : Overdue(f) ~> ~Overdue(f)

-----------------------------------------------------------------------------
(* Why the safety properties hold: what each thread may rely on between its  *)
(* steps. IndInv is preserved by every step (SessionStorageProofs).           *)

(* The lock tells who is where. *)
LockDiscipline ==
  /\ lock \in Clients <=> step # "none"
  /\ lock = "loop" <=> loop = "close"
  /\ lock \in Clients => lock \in conn
  /\ now <= clock

(* A creation works on a name nobody else knows, of a device that has no     *)
(* session; a write works on the session of its device.                      *)
CreationIsPrivate ==
  /\ step # "none" => cur \in Files /\ owner[cur] \in Devices
  /\ step \in CreateSteps => sessions[owner[cur]] = NoFile
  /\ step \in {"mkdir", "register"} => rec[cur] = "none"
  /\ step \in {"mkdir", "register", "open"} => stream[cur] = "unused"
  /\ step = "open" => rec[cur] \notin {"CLOSED", "DONE"} /\ (Reporting => rec[cur] # "none")
  /\ step = "started" => cur \in onDisk /\ stream[cur] = "open"
  /\ step = "write" => sessions[owner[cur]] = cur

(* What an archive's name, stream, file and ledger entry say of each other. *)
ArchiveConsistent ==
  \A f \in Files :
    /\ owner[f] = NoDevice => stream[f] = "unused" /\ rec[f] = "none"
    /\ stream[f] = "unused" => f \notin onDisk
    /\ stream[f] = "open" => sessions[owner[f]] = f \/ (step = "started" /\ cur = f)
    /\ pending[f] # "none" => stream[f] = "closed"
    /\ rec[f] # "none" => Reporting

(* A mapped session is the open stream of its device, except while the loop  *)
(* closes; at shutdown the loop has every open stream on its list.           *)
SessionConsistent ==
  /\ \A d \in Devices : sessions[d] # NoFile =>
       /\ owner[sessions[d]] = d
       /\ stream[sessions[d]] = "open" \/ (loop = "close" /\ stream[sessions[d]] = "closed")
  /\ \A f \in todo : loop = "close" /\ stream[f] = "open"
  /\ closing # NoFile => stream[closing] = "closed"
  /\ loop = "close" /\ cause # "IDLE_TIMEOUT" =>
       /\ conn = {}
       /\ \A d \in Devices : sessions[d] # NoFile /\ stream[sessions[d]] = "open"
                              => sessions[d] \in todo
  /\ loop \in {"stopped", "off"} => conn = {} /\ \A f \in Files : stream[f] # "open"

(* What makes the snapshots of the sweep safe although they grow stale: an   *)
(* archive they do not list is younger than the sweep.                       *)
SnapshotSafe ==
  /\ loop \in {"protect", "sweep"} =>
       \A f \in Files : stream[f] = "open" => f \in spared \/ mtime[f] >= now
  /\ loop = "sweep" =>
       \A f \in onDisk \ spared : rec[f] \in {"none", "DONE"} \/ mtime[f] >= now

IndInv ==
  /\ LockDiscipline /\ CreationIsPrivate /\ ArchiveConsistent
  /\ SessionConsistent /\ SnapshotSafe
  /\ ActiveArchiveOnDisk /\ CreationKeepsDirectory /\ ClosedIsComplete

(* On top of it: a closure on its way to the ledger as IDLE_TIMEOUT is of an *)
(* archive that lost nothing, and the sessions on the loop's list are idle.  *)
ClosureIsFaithful ==
  /\ \A f \in Files : pending[f] = "IDLE_TIMEOUT" => buf[f] = 0
  /\ closing # NoFile /\ outcome = "IDLE_TIMEOUT" => buf[closing] = 0
  /\ loop = "close" /\ cause = "IDLE_TIMEOUT" =>
       \A f \in todo : last[f] # Never /\ now - last[f] >= IdleTimeout
  /\ IdleCloseLosesNothing /\ CountedRecordsInFile

-----------------------------------------------------------------------------
(* What the design says and the code does not do. *)

(* docs/superpowers/specs/2026-08-25-device-session-recording-design.md:43:  *)
(* a failed open or write leaves no invalid active session in the map.       *)
NoInvalidSession ==
  lock = "free" => \A d \in Devices : sessions[d] # NoFile => last[sessions[d]] # Never
=============================================================================
