--------------------------- MODULE RejectedFiles ---------------------------
(***************************************************************************)
(* The diagnostic files of storage.py: open_rejected_connection, the       *)
(* recorder's file as it is written, closed and released, and the sweep of *)
(* connections/ by cleanup_expired_files. Each connection's handler is a   *)
(* thread; the serve loop sweeps. They share the directory, which nothing  *)
(* locks, and the set of active paths, which _rejected_paths_lock guards   *)
(* one access at a time. What is written to a file is Connection's.        *)
(*                                                                         *)
(* The clock counts days; a file's name is used once, so it is identified  *)
(* with the connection that opens it.                                      *)
(***************************************************************************)
EXTENDS Integers, FiniteSets

CONSTANTS
  Conns,          \* client connections that will reject a record
  Faults,         \* TRUE when file-system calls and events may fail
  Crashes,        \* TRUE when the process may be killed
  RetentionDays,  \* connection_retention_days
  MaxTime         \* bound: the clock stops here

ASSUME Assumption ==
  /\ {Faults, Crashes} \subseteq BOOLEAN
  /\ RetentionDays \in Nat \ {0}
  /\ MaxTime \in Nat

VARIABLES
  clock,        \* the date
  pc,           \* where a connection's handler is with its diagnostic file
  dir,          \* connections/ exists
  onDisk,       \* diagnostic files that exist
  mtime,        \* their modification times
  stream,       \* state of a diagnostic file's output stream
  active,       \* _active_rejected_paths
  faulted,      \* history: some call has failed for a reason of its own
  loop,         \* where the serve loop is
  now,          \* the time its sweep goes by
  spared,       \* active_paths of its sweep
  todo,         \* files its sweep has still to look at
  lastCleanup   \* _last_retention_cleanup_date, or Never

fileVars == <<dir, onDisk, mtime, stream>>
loopVars == <<loop, now, spared, todo, lastCleanup>>
vars == <<clock, pc, fileVars, active, faulted, loopVars>>

Never   == -1
Opening == {"started", "activate"}
Steps   == {"idle", "mkdir", "isdir", "open", "recording", "closing", "release",
            "unlink", "rmdir", "done", "failed"} \cup Opening

TypeOK ==
  /\ clock \in Nat
  /\ pc \in [Conns -> Steps]
  /\ dir \in BOOLEAN /\ faulted \in BOOLEAN
  /\ onDisk \subseteq Conns /\ active \subseteq Conns
  /\ mtime \in [Conns -> Nat]
  /\ stream \in [Conns -> {"unused", "open", "closed"}]
  /\ loop \in {"poll", "snapshot", "list", "sweep"}
  /\ now \in Nat
  /\ spared \subseteq Conns /\ todo \subseteq Conns
  /\ lastCleanup \in Nat \cup {Never}

Init ==
  /\ clock = 0 /\ pc = [c \in Conns |-> "idle"]
  /\ dir = FALSE /\ onDisk = {} /\ mtime = [c \in Conns |-> 0]
  /\ stream = [c \in Conns |-> "unused"]
  /\ active = {} /\ faulted = FALSE
  /\ loop = "poll" /\ now = 0 /\ spared = {} /\ todo = {} /\ lastCleanup = Never

Go(c, step) == pc' = [pc EXCEPT ![c] = step]
Raises(c)   == Faults /\ Go(c, "failed") /\ faulted' = TRUE

-----------------------------------------------------------------------------
(* open_rejected_connection. *)

Begin(c) ==
  /\ pc[c] = "idle" /\ Go(c, "mkdir")
  /\ UNCHANGED <<clock, fileVars, active, faulted, loopVars>>

(* Path.mkdir with exist_ok: when the directory exists the call fails inside *)
(* and is forgiven if the path is still a directory at a second look.        *)
MakeDirectory(c) ==
  /\ pc[c] = "mkdir"
  /\ Go(c, IF dir THEN "isdir" ELSE "open")
  /\ dir' = TRUE
  /\ UNCHANGED <<clock, onDisk, mtime, stream, active, faulted, loopVars>>

IsDirectory(c) ==
  /\ pc[c] = "isdir"
  /\ Go(c, IF dir THEN "open" ELSE "failed")
  /\ UNCHANGED <<clock, fileVars, active, faulted, loopVars>>

OpenFile(c) ==
  /\ pc[c] = "open"
  /\ IF dir
     THEN /\ Go(c, "started")
          /\ onDisk' = onDisk \cup {c}
          /\ mtime' = [mtime EXCEPT ![c] = clock]
          /\ stream' = [stream EXCEPT ![c] = "open"]
     ELSE Go(c, "failed") /\ UNCHANGED <<onDisk, mtime, stream>>
  /\ UNCHANGED <<clock, dir, active, faulted, loopVars>>

CreateFails(c) ==
  /\ pc[c] \in {"mkdir", "open"} /\ Raises(c)
  /\ UNCHANGED <<clock, fileVars, active, loopVars>>

WriteStarted(c) ==
  /\ pc[c] = "started" /\ Go(c, "activate")
  /\ UNCHANGED <<clock, fileVars, active, faulted, loopVars>>

Activate(c) ==
  /\ pc[c] = "activate" /\ Go(c, "recording")
  /\ active' = active \cup {c}
  /\ UNCHANGED <<clock, fileVars, faulted, loopVars>>

(* The started event cannot be written: the stream is abandoned, the file    *)
(* unlinked if that works, the directory removed if that leaves it empty.    *)
StartedFails(c) ==
  /\ pc[c] = "started" /\ Faults /\ faulted' = TRUE
  /\ stream' = [stream EXCEPT ![c] = "closed"]
  /\ active' = active \ {c}
  /\ Go(c, "unlink")
  /\ UNCHANGED <<clock, dir, onDisk, mtime, loopVars>>

UndoFile(c) ==
  /\ pc[c] = "unlink" /\ Go(c, "rmdir")
  /\ onDisk' \in {onDisk, onDisk \ {c}}
  /\ UNCHANGED <<clock, dir, mtime, stream, active, faulted, loopVars>>

\* Mutant: the directory is removed with what it holds.
BugUndoDirectory(c) ==
  /\ pc[c] = "rmdir" /\ Go(c, "failed")
  /\ dir' = FALSE /\ onDisk' = {}
  /\ UNCHANGED <<clock, mtime, stream, active, faulted, loopVars>>

UndoDirectory(c) ==
  /\ pc[c] = "rmdir" /\ Go(c, "failed")
  /\ dir' \in {dir, dir /\ onDisk # {}}
  /\ UNCHANGED <<clock, onDisk, mtime, stream, active, faulted, loopVars>>

-----------------------------------------------------------------------------
(* RejectedConnectionRecorder. *)

RecordRejected(c) ==
  /\ pc[c] = "recording"
  /\ mtime' = [mtime EXCEPT ![c] = clock]
  /\ UNCHANGED <<clock, pc, dir, onDisk, stream, active, faulted, loopVars>>

(* close or abandon: the stream is closed; then, whatever failed, the path   *)
(* leaves the active set.                                                    *)
CloseStream(c) ==
  /\ pc[c] = "recording" /\ Go(c, "release")
  /\ stream' = [stream EXCEPT ![c] = "closed"]
  /\ UNCHANGED <<clock, dir, onDisk, mtime, active, faulted, loopVars>>

\* Mutant: an error while closing skips on_close.
BugRelease(c) ==
  /\ pc[c] = "release" /\ Go(c, "done")
  /\ active' \in {active, active \ {c}}
  /\ UNCHANGED <<clock, fileVars, faulted, loopVars>>

Release(c) ==
  /\ pc[c] = "release" /\ Go(c, "done")
  /\ active' = active \ {c}
  /\ UNCHANGED <<clock, fileVars, faulted, loopVars>>

-----------------------------------------------------------------------------
(* service_actions and cleanup_expired_files, for connections/. *)

BeginSweep ==
  /\ loop = "poll" /\ lastCleanup # clock
  /\ loop' = "snapshot" /\ now' = clock
  /\ UNCHANGED <<clock, pc, fileVars, active, faulted, spared, todo, lastCleanup>>

Snapshot ==
  /\ loop = "snapshot"
  /\ spared' = active /\ loop' = "list"
  /\ UNCHANGED <<clock, pc, fileVars, active, faulted, now, todo, lastCleanup>>

(* _connection_archive_paths, after the device archives have been swept. *)
List ==
  /\ loop = "list"
  /\ todo' = onDisk \ spared /\ loop' = "sweep"
  /\ UNCHANGED <<clock, pc, fileVars, active, faulted, now, spared, lastCleanup>>

\* Mutant: a file written on the cutoff's own day is old.
BugOld(c) == mtime[c] <= now - RetentionDays + 1

Old(c) == mtime[c] < now - RetentionDays

(* lstat, the comparison with the cutoff and unlink; an error skips a file. *)
SweepFile(c) ==
  /\ loop = "sweep" /\ c \in todo
  /\ todo' = todo \ {c}
  /\ onDisk' \in IF Old(c) THEN {onDisk \ {c}} \cup (IF Faults THEN {onDisk} ELSE {})
                 ELSE {onDisk}
  /\ UNCHANGED <<clock, pc, dir, mtime, stream, active, faulted, loop, now, spared,
                 lastCleanup>>

\* Mutant: the sweep removes the directory it has emptied, as it does for the
\* directories of devices.
BugEndSweep ==
  /\ loop = "sweep" /\ todo = {}
  /\ loop' = "poll" /\ lastCleanup' = now /\ spared' = {} /\ now' = 0
  /\ dir' = (dir /\ onDisk # {})
  /\ UNCHANGED <<clock, pc, onDisk, mtime, stream, active, faulted, todo>>

EndSweep ==
  /\ loop = "sweep" /\ todo = {}
  /\ loop' = "poll" /\ lastCleanup' = now /\ spared' = {} /\ now' = 0
  /\ UNCHANGED <<clock, pc, fileVars, active, faulted, todo>>

-----------------------------------------------------------------------------
(* Environment. A kill ends every thread and closes every stream; the new    *)
(* process starts with an empty active set and a sweep.                      *)
Crash ==
  /\ Crashes
  /\ pc' = [c \in Conns |-> IF pc[c] = "idle" THEN "idle" ELSE "done"]
  /\ stream' = [c \in Conns |-> IF stream[c] = "open" THEN "closed" ELSE stream[c]]
  /\ active' = {} /\ spared' = {} /\ todo' = {}
  /\ loop' = "poll" /\ now' = 0 /\ lastCleanup' = Never
  /\ UNCHANGED <<clock, dir, onDisk, mtime, faulted>>

(* Opening a diagnostic file takes less than the retention period: writing   *)
(* one event is not delayed for days.                                        *)
Prompt == \A c \in Conns : pc[c] \in Opening => clock - mtime[c] < RetentionDays

Tick ==
  /\ clock < MaxTime /\ Prompt
  /\ clock' = clock + 1
  /\ UNCHANGED <<pc, fileVars, active, faulted, loopVars>>

Handler(c) ==
  \/ Begin(c) \/ MakeDirectory(c) \/ IsDirectory(c) \/ OpenFile(c) \/ CreateFails(c)
  \/ WriteStarted(c) \/ Activate(c) \/ StartedFails(c) \/ UndoFile(c) \/ UndoDirectory(c)
  \/ RecordRejected(c) \/ CloseStream(c) \/ Release(c)

Sweeper == BeginSweep \/ Snapshot \/ List \/ (\E c \in Conns : SweepFile(c)) \/ EndSweep

Next == (\E c \in Conns : Handler(c)) \/ Sweeper \/ Crash \/ Tick

Spec == Init /\ [][Next]_vars

-----------------------------------------------------------------------------
(* While a recorder writes to its stream, its file has a name: neither a     *)
(* sweep nor another connection that undoes its own failed start takes it    *)
(* away. Otherwise the rejected bytes, already acknowledged in the ledger,    *)
(* would be lost at close.                                                   *)
OpenFileIsLinked ==
  \A c \in Conns : stream[c] = "open" => c \in onDisk /\ dir

(* The active set holds the files of the recorders in use and of no others:  *)
(* a path left behind would keep its file from retention until a restart.    *)
ActiveIsInUse ==
  \A c \in Conns : /\ c \in active => pc[c] \in {"recording", "release"}
                   /\ pc[c] = "recording" => c \in active

(* The directory is made, looked at, opened into and removed without a lock, *)
(* and a handler that loses that race drops its connection; but only a call  *)
(* that failed on another connection ever starts it. The sweep never does.   *)
FailureHasACause == (\E c \in Conns : pc[c] = "failed") => faulted

(* A sweep removes a file only once its recorder is done with it, and only   *)
(* when nothing was written to it for longer than the retention period, even *)
(* if it listed the active files before this one was opened.                 *)
SweptIsOldAndClosed ==
  [][\A c \in onDisk \ onDisk' : pc[c] # "unlink" =>
       stream[c] = "closed" /\ clock - mtime[c] > RetentionDays]_vars
=============================================================================
