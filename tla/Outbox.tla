------------------------------- MODULE Outbox -------------------------------
(***************************************************************************)
(* Web reporting: the durable outbox (reporting_store.py), the worker that *)
(* scans archives and delivers notifications (reporting_worker.py), its    *)
(* HTTP client (reporting_client.py), the life of the process around them  *)
(* (reporting_service.py) and the offline retry (reporting_admin.py). The  *)
(* archives grow and close as the session storage makes them; the Web is   *)
(* external.                                                               *)
(*                                                                         *)
(* Every database transaction, file scan and HTTP exchange is a step of    *)
(* its own: the store's lock is held for one transaction only. Of a file's *)
(* notifications those already sent are dropped here: they are a prefix,   *)
(* because only the first unsent one is ever due.                          *)
(***************************************************************************)
EXTENDS Integers, Sequences

CONSTANTS
  Files,        \* the archives
  Old,          \* those that may be from before reporting, which only an import reports
  NoFile,
  Faults,       \* TRUE when scans and transactions may fail
  Restarts,     \* TRUE when the process may be stopped in order
  Crashes,      \* TRUE when the process may be killed
  PowerLoss,    \* TRUE when a crash may take bytes of archives being written
  Refusals,     \* TRUE when the Web may refuse a notification until somebody acts
  WebTimeouts,  \* TRUE when the Web may end a task by its own timeout
  Causes,       \* the reasons sessions are closed for
  MaxSize       \* bound: complete lines of one archive

WebReasons == {"IDLE_TIMEOUT", "SERVER_SHUTDOWN", "ABORTED"}

ASSUME OutboxAssumption ==
  /\ Old \subseteq Files /\ NoFile \notin Files /\ MaxSize \in Nat \ {0}
  /\ Causes \subseteq WebReasons
  /\ {Faults, Restarts, Crashes, PowerLoss, Refusals, WebTimeouts} \subseteq BOOLEAN

VARIABLES
  archive,   \* "none", "creating", "writing", "final" or "missing"
  size,      \* complete lines stored
  flawed,    \* the archive has a line the final scan rejects, or a torn tail
  rec,       \* recordings.state
  reason,    \* recordings.close_reason
  seq,       \* recordings.sequence
  lastSize,  \* recordings.last_size
  queue,     \* the file's unsent notifications, in order of their ids
  head,      \* the first one: "due", "waiting" (next_at), "blocked", or
             \* "terminal": BLOCKED by an error the Web will not take back
  pending,   \* ReportingService._pending
  web,       \* what the Web holds of the file
  proc,      \* "down", "up", "stopping", "finishing" (the finalizer's own pass),
             \* or the maintenance tool: "admin", "import"
  work,      \* the pass: "idle", "prepare", "scanned", "loop" (prepare is
             \* over), "deliver", "sent"
  fresh,     \* next_scan lies ahead: the last prepare() came to its end
  rows,      \* states read by the running prepare(), "none" when dealt with
  list,      \* files with an item left in the running deliver()
  cur,       \* the file being scanned, sent or imported
  seen,      \* size found by the scan
  result     \* of the scan or of the exchange

archiveVars == <<archive, size, flawed>>
storeVars   == <<rec, reason, seq, lastSize, queue, head>>
passVars    == <<work, fresh, rows, list, cur, seen, result>>
vars == <<archiveVars, storeVars, pending, web, proc, passVars>>

Open       == {"OPEN", "CLOSED"}
RecStates  == {"none", "OPEN", "CLOSED", "FINALIZED", "DONE", "ERROR"}
Reasons    == WebReasons \cup {"none"}
Notices    == [phase : {"create", "update", "close"}, no : Nat, size : Nat, reason : Reasons]
WebStates  == {"unknown", "RECORDING", "READY", "ABORTED", "TIMEDOUT"}
Held       == [state : WebStates, no : Nat, size : Nat]
Ended      == {"READY", "ABORTED"}

TypeOK ==
  /\ archive \in [Files -> {"none", "creating", "writing", "final", "missing"}]
  /\ size \in [Files -> Nat] /\ flawed \in [Files -> BOOLEAN]
  /\ rec \in [Files -> RecStates] /\ reason \in [Files -> Reasons]
  /\ seq \in [Files -> Nat] /\ lastSize \in [Files -> Nat \cup {-1}]
  /\ queue \in [Files -> Seq(Notices)]
  /\ head \in [Files -> {"due", "waiting", "blocked", "terminal"}]
  /\ pending \in [Files -> Reasons]
  /\ web \in [Files -> Held]
  /\ proc \in {"down", "up", "stopping", "finishing", "admin", "import"}
  /\ work \in {"idle", "prepare", "scanned", "loop", "deliver", "sent"}
  /\ fresh \in BOOLEAN
  /\ rows \in [Files -> Open \cup {"none"}]
  /\ list \subseteq Files
  /\ cur \in Files \cup {NoFile}
  /\ seen \in Nat
  /\ result \in {"none", "valid", "invalid", "ok", "retry", "refused", "terminal"}

All(v) == [f \in Files |-> v]

Init ==
  /\ archive \in [Files -> {"none", "final"}]
  /\ \A f \in Files : archive[f] = "final" => f \in Old
  /\ size = [f \in Files |-> IF archive[f] = "final" THEN 1 ELSE 0]
  /\ flawed \in [Files -> BOOLEAN] /\ \A f \in Files : archive[f] = "none" => ~flawed[f]
  /\ rec = All("none") /\ reason = All("none")
  /\ seq = All(0) /\ lastSize = All(-1)
  /\ queue = All(<<>>) /\ head = All("due")
  /\ pending = All("none")
  /\ web = All([state |-> "unknown", no |-> 0, size |-> 0])
  /\ proc = "up" /\ work = "idle" /\ fresh = FALSE
  /\ rows = All("none") /\ list = {} /\ cur = NoFile /\ seen = 0 /\ result = "none"

-----------------------------------------------------------------------------
(* The archives and their sessions.                                        *)

Notice(phase, n, s, r) == [phase |-> phase, no |-> n, size |-> s, reason |-> r]

(* INSERT INTO recordings and the create notification, one transaction. *)
InsertRecording(f) ==
  /\ rec[f] = "none"
  /\ rec' = [rec EXCEPT ![f] = "OPEN"]
  /\ queue' = [queue EXCEPT ![f] = <<Notice("create", 0, 0, "none")>>]
  /\ UNCHANGED <<reason, seq, lastSize, head>>

Register(f) ==
  /\ proc = "up" /\ archive[f] = "none"
  /\ InsertRecording(f)
  /\ archive' = [archive EXCEPT ![f] = "creating"]
  /\ UNCHANGED <<size, flawed, pending, web, proc, passVars>>

(* The open, or the session_started event after it, may fail; the recording *)
(* stays registered, and an empty archive if it cannot be unlinked.         *)
CreateArchive(f) ==
  /\ archive[f] = "creating"
  /\ \E a \in {"writing", "missing", "final"} : archive' = [archive EXCEPT ![f] = a]
  /\ UNCHANGED <<size, flawed, storeVars, pending, web, proc, passVars>>

Write(f) ==
  /\ archive[f] = "writing" /\ size[f] < MaxSize
  /\ size' = [size EXCEPT ![f] = @ + 1]
  /\ UNCHANGED <<archive, flawed, storeVars, pending, web, proc, passVars>>

(* A write or flush that fails half way leaves a torn line. *)
TornWrite(f) ==
  /\ archive[f] = "writing" /\ Faults
  /\ flawed' = [flawed EXCEPT ![f] = TRUE]
  /\ UNCHANGED <<archive, size, storeVars, pending, web, proc, passVars>>

-----------------------------------------------------------------------------
(* Closures.                                                               *)

Failing(S) == IF Faults THEN SUBSET S ELSE {{}}

Closable(f) == rec[f] = "OPEN"

(* flush_closures over the intents p: a transaction for each. *)
Flush(p) ==
  \E failing \in Failing({f \in Files : p[f] # "none"}) :
    LET done == {f \in Files : p[f] # "none" /\ f \notin failing}
    IN  /\ pending' = [f \in Files |-> IF f \in failing THEN p[f] ELSE "none"]
        /\ rec' = [f \in Files |->
                     IF f \in done /\ Closable(f) THEN "CLOSED" ELSE rec[f]]
        /\ reason' = [f \in Files |->
                     IF f \in done /\ Closable(f) THEN p[f] ELSE reason[f]]

(* closed(path, reason): the session has synced and closed its stream. *)
CloseArchive(f, r) ==
  /\ archive[f] = "writing"
  /\ archive' = [archive EXCEPT ![f] = "final"]
  /\ Flush([pending EXCEPT ![f] = r])
  /\ UNCHANGED <<size, flawed, seq, lastSize, queue, head, web, proc, passVars>>

\* Mutant: recover() closes every recording again.
BugRecovered == {f \in Files : rec[f] # "none"}

(* recover(): no session survives its process. *)
Recovered == {f \in Files : rec[f] = "OPEN"}

Recover ==
  /\ rec' = [f \in Files |-> IF f \in Recovered THEN "CLOSED" ELSE rec[f]]
  /\ reason' = [f \in Files |-> IF f \in Recovered THEN "SERVER_SHUTDOWN" ELSE reason[f]]

-----------------------------------------------------------------------------
(* ReportWorker.prepare: scan what is open or closed, queue what changed.   *)

Idle == /\ work' = "idle" /\ rows' = All("none") /\ list' = {}
        /\ cur' = NoFile /\ seen' = 0 /\ result' = "none"

BeginPrepare ==
  /\ proc = "up" /\ work = "idle"
  /\ Flush(pending)
  /\ rows' = [f \in Files |-> IF rec'[f] \in Open THEN rec'[f] ELSE "none"]
  /\ work' = "prepare" /\ fresh' = FALSE
  /\ UNCHANGED <<archiveVars, seq, lastSize, queue, head, web, proc, list, cur, seen, result>>

BlockFile(f) == rec' = [rec EXCEPT ![f] = "ERROR"]

ScanMissing(f) ==
  /\ work = "prepare" /\ rows[f] # "none" /\ archive[f] \notin {"writing", "final"}
  /\ IF rows[f] = "CLOSED" THEN BlockFile(f) ELSE UNCHANGED rec
  /\ rows' = [rows EXCEPT ![f] = "none"]
  /\ UNCHANGED <<archiveVars, reason, seq, lastSize, queue, head, pending, web, proc,
                 work, fresh, list, cur, seen, result>>

(* A recording smaller than what was queued before a restart is blocked. *)
(* Mutant: the size is not compared with the ledger's. *)
BugShrunk(f) == FALSE

Shrunk(f) == size[f] < lastSize[f]

ScanFails(f) ==
  /\ work = "prepare" /\ rows[f] # "none" /\ archive[f] \in {"writing", "final"}
  /\ Faults \/ Shrunk(f)
  /\ BlockFile(f)
  /\ rows' = [rows EXCEPT ![f] = "none"]
  /\ UNCHANGED <<archiveVars, reason, seq, lastSize, queue, head, pending, web, proc,
                 work, fresh, list, cur, seen, result>>

Valid(f) == ~flawed[f] /\ size[f] > 0

ScanFile(f) ==
  /\ work = "prepare" /\ rows[f] # "none" /\ archive[f] \in {"writing", "final"}
  /\ ~Shrunk(f)
  /\ seen' = size[f] /\ result' = (IF Valid(f) THEN "valid" ELSE "invalid")
  /\ cur' = f /\ work' = "scanned"
  /\ UNCHANGED <<archiveVars, storeVars, pending, web, proc, fresh, rows, list>>

(* Mutant: validity ignored. *)
BugUnchecked(f) == reason[f]

CloseReason(f) == IF result = "valid" THEN reason[f] ELSE "ABORTED"

Queueable(f) == rec[f] \notin {"FINALIZED", "DONE", "ERROR"}

HasUpdate(f) == \E i \in 1 .. Len(queue[f]) : queue[f][i].phase = "update"

Insert(f, notice) ==
  /\ queue' = [queue EXCEPT ![f] = Append(@, notice)]
  /\ seq' = [seq EXCEPT ![f] = notice.no]
  /\ lastSize' = [lastSize EXCEPT ![f] = seen]

Scanned(f) ==
  /\ work = "scanned" /\ cur = f
  /\ work' = "prepare" /\ rows' = [rows EXCEPT ![f] = "none"]
  /\ cur' = NoFile /\ seen' = 0 /\ result' = "none"
  /\ UNCHANGED <<archiveVars, reason, head, pending, web, proc, fresh, list>>

EnqueueClose(f) ==
  /\ rows[f] = "CLOSED" /\ Scanned(f)
  /\ Queueable(f)
  /\ Insert(f, Notice("close", seq[f] + 1, seen, CloseReason(f)))
  /\ rec' = [rec EXCEPT ![f] = "FINALIZED"]

Changed(f) == seen > lastSize[f] /\ seen > 0

EnqueueUpdate(f) ==
  /\ rows[f] = "OPEN" /\ Scanned(f)
  /\ Changed(f) /\ Queueable(f) /\ ~HasUpdate(f)
  /\ Insert(f, Notice("update", seq[f] + 1, seen, "none"))
  /\ UNCHANGED rec

NothingToQueue(f) ==
  /\ rows[f] = "OPEN" /\ Scanned(f)
  /\ ~Changed(f) \/ HasUpdate(f) \/ ~Queueable(f)
  /\ UNCHANGED <<rec, seq, lastSize, queue>>

EndPrepare ==
  /\ work = "prepare" /\ rows = All("none") /\ proc # "finishing"
  /\ work' = "loop" /\ fresh' = TRUE
  /\ UNCHANGED <<archiveVars, storeVars, pending, web, proc, rows, list, cur, seen, result>>

-----------------------------------------------------------------------------
(* ReportWorker.deliver and the Web.                                       *)

(* due(): every file's first unsent notification, when its time has come.  *)
(* Mutant: one blocked notification holds up every file. *)
BugDue(f) == queue[f] # <<>> /\ head[f] = "due" /\ \A g \in Files : head[g] # "blocked"

Due(f) == queue[f] # <<>> /\ head[f] = "due" /\ rec[f] # "ERROR"

(* _run prepares once per update_interval and delivers every time.         *)
BeginDeliver ==
  /\ work = "loop" \/ (work = "idle" /\ fresh /\ proc = "up")
  /\ work' = "deliver" /\ list' = {f \in Files : Due(f)}
  /\ UNCHANGED <<archiveVars, storeVars, pending, web, proc, fresh, rows, cur, seen, result>>

Item(f) == Head(queue[f])

Applied(f) ==
  IF Item(f).phase = "create" THEN web[f].state # "unknown" ELSE web[f].no = Item(f).no

(* The Web applies an idempotency key once, and nothing after its timeout. *)
Apply(f) ==
  web' = IF Applied(f) \/ web[f].state = "TIMEDOUT" THEN web
         ELSE [web EXCEPT ![f] =
                [state |-> IF Item(f).phase # "close" THEN "RECORDING"
                           ELSE IF Item(f).reason = "ABORTED" THEN "ABORTED" ELSE "READY",
                 no |-> Item(f).no, size |-> Item(f).size]]

Exchange(f, outcome) ==
  /\ work = "deliver" /\ f \in list /\ proc = "up"
  /\ work' = "sent" /\ cur' = f /\ result' = outcome
  /\ UNCHANGED <<archiveVars, storeVars, pending, proc, fresh, rows, list, seen>>

SendOk(f) == Exchange(f, "ok") /\ web[f].state # "TIMEDOUT" /\ Apply(f)

(* Lost on the way out, lost on the way back, a 429 or a 5xx. *)
SendLost(f) == Exchange(f, "retry") /\ (UNCHANGED web \/ Apply(f))

(* An answer that cannot be understood may follow an application. *)
(* Mutant: an answer that cannot be understood counts as success. *)
BugSendRefused(f) == Refusals /\ Exchange(f, "ok") /\ (UNCHANGED web \/ Apply(f))

SendRefused(f) == Refusals /\ Exchange(f, "refused") /\ (UNCHANGED web \/ Apply(f))

SendTerminal(f) ==
  Exchange(f, "terminal") /\ web[f].state = "TIMEDOUT" /\ UNCHANGED web

Recorded(f) ==
  /\ work = "sent" /\ cur = f
  /\ work' = "deliver" /\ list' = list \ {f} /\ cur' = NoFile /\ result' = "none"
  /\ UNCHANGED <<archiveVars, reason, seq, lastSize, pending, web, proc, fresh, rows, seen>>

(* Mutant: the first acknowledgement after the close was queued ends the   *)
(* recording.                                                              *)
BugAck(f) ==
  /\ result = "ok" /\ Recorded(f)
  /\ queue' = [queue EXCEPT ![f] = Tail(@)] /\ head' = [head EXCEPT ![f] = "due"]
  /\ rec' = [rec EXCEPT ![f] = IF rec[f] = "FINALIZED" THEN "DONE" ELSE @]

Ack(f) ==
  /\ result = "ok" /\ Recorded(f)
  /\ queue' = [queue EXCEPT ![f] = Tail(@)] /\ head' = [head EXCEPT ![f] = "due"]
  /\ rec' = [rec EXCEPT ![f] = IF Item(f).phase = "close" THEN "DONE" ELSE @]

HeadAfter(r) == CASE r = "retry" -> "waiting" [] r = "refused" -> "blocked" [] OTHER -> r

(* Mutant: what the Web refuses is dropped instead of blocked. *)
BugFailed(f) ==
  /\ result # "ok" /\ Recorded(f)
  /\ queue' = [queue EXCEPT ![f] = IF result = "refused" THEN Tail(@) ELSE @]
  /\ head' = [head EXCEPT ![f] = IF result = "refused" THEN "due" ELSE HeadAfter(result)]
  /\ UNCHANGED rec

Failed(f) ==
  /\ result # "ok" /\ Recorded(f)
  /\ head' = [head EXCEPT ![f] = HeadAfter(result)]
  /\ UNCHANGED <<queue, rec>>

(* The items left are dropped from the pass, not from the outbox. *)
EndDeliver ==
  /\ work = "deliver" /\ (list = {} \/ proc # "up")
  /\ Idle
  /\ UNCHANGED <<archiveVars, storeVars, pending, web, proc, fresh>>

(* A transaction of the pass fails: what it was about stays as it was. *)
PassFails ==
  /\ Faults /\ work # "idle" /\ Idle
  /\ proc' = IF proc = "finishing" THEN "down" ELSE proc
  /\ UNCHANGED <<archiveVars, storeVars, pending, web, fresh>>

BackoffElapses(f) ==
  /\ head[f] = "waiting" /\ head' = [head EXCEPT ![f] = "due"]
  /\ UNCHANGED <<archiveVars, rec, reason, seq, lastSize, queue, pending, web, proc, passVars>>

WebTimeout(f) ==
  /\ WebTimeouts /\ web[f].state = "RECORDING"
  /\ web' = [web EXCEPT ![f].state = "TIMEDOUT"]
  /\ UNCHANGED <<archiveVars, storeVars, pending, proc, passVars>>

-----------------------------------------------------------------------------
(* The process.                                                            *)

Recording == {f \in Files : archive[f] \in {"creating", "writing"}}

(* stop(): the server has closed its sessions before. *)
Stop ==
  /\ Restarts /\ proc = "up" /\ Recording = {}
  /\ proc' = "stopping"
  /\ UNCHANGED <<archiveVars, storeVars, pending, web, passVars>>

(* _finish, after the worker's thread has ended: a last pass. *)
Finish ==
  /\ proc \in {"stopping", "admin"} /\ work = "idle"
  /\ proc' = "finishing"
  /\ Flush(pending)
  /\ rows' = [f \in Files |-> IF rec'[f] \in Open THEN rec'[f] ELSE "none"]
  /\ work' = "prepare" /\ fresh' = FALSE
  /\ UNCHANGED <<archiveVars, seq, lastSize, queue, head, web, list, cur, seen, result>>

Finished ==
  /\ proc = "finishing" /\ work = "prepare" /\ rows = All("none")
  /\ proc' = "down" /\ Idle
  /\ UNCHANGED <<archiveVars, storeVars, pending, web, fresh>>

Crash ==
  /\ Crashes /\ proc # "down"
  /\ proc' = "down" /\ Idle /\ fresh' = FALSE
  /\ pending' = All("none")
  /\ archive' = [f \in Files |-> CASE archive[f] = "creating" -> "missing"
                                    [] archive[f] = "writing" -> "final"
                                    [] OTHER -> archive[f]]
  /\ size' \in {s \in [Files -> 0 .. MaxSize] : \A f \in Files :
                 s[f] = size[f] \/ (PowerLoss /\ archive[f] = "writing" /\ s[f] < size[f])}
  /\ flawed' \in {b \in [Files -> BOOLEAN] : \A f \in Files :
                   b[f] = flawed[f] \/ (archive[f] = "writing" /\ b[f])}
  /\ UNCHANGED <<storeVars, web>>

Start ==
  /\ proc = "down" /\ proc' = "up"
  /\ Recover /\ pending' = All("none")
  /\ UNCHANGED <<archiveVars, seq, lastSize, queue, head, web, passVars>>

StartAdmin ==
  /\ proc = "down" /\ proc' = "admin"
  /\ Recover /\ pending' = All("none")
  /\ UNCHANGED <<archiveVars, seq, lastSize, queue, head, web, passVars>>

Retryable(f) == head[f] = "blocked"

AdminRetry(f) ==
  /\ proc = "admin" /\ Retryable(f)
  /\ head' = [head EXCEPT ![f] = "due"]
  /\ UNCHANGED <<archiveVars, rec, reason, seq, lastSize, queue, pending, web, proc, passVars>>

(* import: a registration, then a closure, in two transactions. *)
AdminRegister(f) ==
  /\ proc = "admin" /\ archive[f] = "final"
  /\ InsertRecording(f)
  /\ proc' = "import" /\ cur' = f
  /\ UNCHANGED <<archiveVars, pending, web, work, fresh, rows, list, seen, result>>

AdminClose(r) ==
  /\ proc = "import" /\ (Valid(cur) \/ r = "ABORTED")
  /\ rec' = [rec EXCEPT ![cur] = "CLOSED"] /\ reason' = [reason EXCEPT ![cur] = r]
  /\ proc' = "admin" /\ cur' = NoFile
  /\ UNCHANGED <<archiveVars, seq, lastSize, queue, head, pending, web,
                 work, fresh, rows, list, seen, result>>

AdminFails ==
  /\ Faults /\ proc = "import"
  /\ proc' = "admin" /\ cur' = NoFile
  /\ UNCHANGED <<archiveVars, storeVars, pending, web, work, fresh, rows, list, seen, result>>

-----------------------------------------------------------------------------
Prepare(f) == \/ ScanMissing(f) \/ ScanFails(f) \/ ScanFile(f)
              \/ EnqueueClose(f) \/ EnqueueUpdate(f) \/ NothingToQueue(f)

Send(f) == SendOk(f) \/ SendLost(f) \/ SendRefused(f) \/ SendTerminal(f)

Session(f) ==
  \/ Register(f) \/ CreateArchive(f) \/ Write(f) \/ TornWrite(f)
  \/ \E r \in Causes : CloseArchive(f, r)

Maintain == StartAdmin \/ (\E f \in Files : AdminRetry(f) \/ AdminRegister(f))
                       \/ (\E r \in Causes : AdminClose(r)) \/ AdminFails

Next ==
  \/ \E f \in Files : Session(f) \/ Prepare(f) \/ Send(f) \/ Ack(f) \/ Failed(f)
                      \/ BackoffElapses(f) \/ WebTimeout(f)
  \/ BeginPrepare \/ EndPrepare \/ BeginDeliver \/ EndDeliver \/ PassFails
  \/ Stop \/ Finish \/ Finished \/ Crash \/ Start \/ Maintain

Spec == Init /\ [][Next]_vars

-----------------------------------------------------------------------------
(* Properties.                                                             *)

(* The whole reporting machine implements the promise made to the Web.     *)
told == [f \in Files |-> CASE web[f].state = "unknown"   -> "nothing"
                           [] web[f].state = "RECORDING" -> "recording"
                           [] web[f].state = "TIMEDOUT"  -> "lapsed"
                           [] OTHER                      -> "ended"]
stored == [f \in Files |-> IF archive[f] \in {"writing", "final"} THEN archive[f] ELSE "absent"]
known  == [f \in Files |-> web[f].size]

Promise == INSTANCE ReportingPromise WITH archive <- stored

(* Through faults, crashes, retries and maintenance the Web is told of a    *)
(* recording once, sees it only grow, and learns of its end once, with the  *)
(* final size of a final archive (deliver with enqueue and the scans).      *)
ImplementsPromise == Promise!Spec

(* What the storage and the ledger make of a recording is its life as both  *)
(* sides know it: nothing is closed while it grows, nothing closed grows,   *)
(* closes again or is reopened, and what is DONE is complete (register,     *)
(* mark_closed, recover, block_file, ack).                                  *)
held   == [f \in Files |-> CASE archive[f] \in {"none", "creating"} -> "absent"
                             [] archive[f] = "missing"             -> "gone"
                             [] OTHER                              -> archive[f]]
ledger == [f \in Files |-> IF rec[f] = "FINALIZED" THEN "CLOSED" ELSE rec[f]]

Life == INSTANCE Handover WITH archive <- held, rec <- ledger, Reporting <- TRUE

ImplementsHandover == Life!Spec

(* Nothing is dropped: while a recording is FINALIZED its closing           *)
(* notification waits at the end of its queue, and it is DONE only when     *)
(* nothing waits and the Web holds the end of the recording, by the reason  *)
(* the ledger kept or as aborted (enqueue, ack, retry_blocked).             *)
NothingDropped ==
  \A f \in Files :
    /\ rec[f] = "FINALIZED" => /\ queue[f] # <<>>
                               /\ queue[f][Len(queue[f])].phase = "close"
    /\ rec[f] = "DONE" => /\ queue[f] = <<>> /\ web[f].state \in Ended
                          /\ web[f].state = "READY" => reason[f] # "ABORTED"

(* A recording the Web may process is a complete, sound archive: READY is   *)
(* told only of a final one without a rejected line, and with its size      *)
(* (the second scan of _prepare_file, FileStats.valid).                     *)
ReadyIsSound ==
  \A f \in Files : web[f].state = "READY" =>
    archive[f] = "final" /\ ~flawed[f] /\ web[f].size = size[f]

(* The queue holds the file's notifications in the order the Web needs:     *)
(* consecutive numbers and growing sizes up to the ledger's own, creation   *)
(* first, closing last, at most one update (register, enqueue).             *)
QueueOrdered ==
  \A f \in Files : LET q == queue[f] IN
    /\ \A i, j \in 1 .. Len(q) : i < j =>
         /\ q[i].no < q[j].no /\ q[i].size <= q[j].size
         /\ q[i].phase # "close" /\ q[j].phase # "create"
         /\ ~(q[i].phase = "update" /\ q[j].phase = "update")
    /\ \A i \in 1 .. Len(q) : q[i].no = seq[f] + i - Len(q)

(* What is sent next is what the Web is missing, or the last it applied:    *)
(* neither a crash nor a lost answer makes the sender skip one or go back   *)
(* (due's NOT EXISTS, ack after the answer).                                *)
NextIsMissing ==
  \A f \in Files : web[f].state # "TIMEDOUT" /\ queue[f] # <<>> =>
    \/ Item(f).no = web[f].no + 1 /\ web[f].state = "RECORDING"
    \/ Item(f).no = web[f].no

(* A notification leaves the outbox only when the Web holds it, and what is *)
(* queued is never rewritten or reordered (ack, failed, retry_blocked).     *)
AcknowledgedIsApplied ==
  [][\A f \in Files :
       \/ queue'[f] = queue[f]
       \/ /\ Len(queue'[f]) = Len(queue[f]) + 1
          /\ SubSeq(queue'[f], 1, Len(queue[f])) = queue[f]
       \/ queue[f] # <<>> /\ queue'[f] = Tail(queue[f]) /\ Applied(f)]_vars

(* What the Web refused for good is never sent again, not after a restart   *)
(* and not by the maintenance tool (retry_blocked's check, due).            *)
TerminalIsFinal ==
  [][\A f \in Files : head[f] = "terminal" =>
       head'[f] = "terminal" /\ queue'[f] # <<>> /\ Head(queue'[f]) = Head(queue[f])]_vars

(* Fairness of the threads: the worker's loop goes on and its exchanges     *)
(* come to an end, time passes, and the Web that is asked again and again   *)
(* answers at some time.                                                    *)
Worker == \/ BeginPrepare \/ EndPrepare \/ BeginDeliver \/ EndDeliver
          \/ \E f \in Files : Prepare(f) \/ Ack(f) \/ Failed(f)

Fairness ==
  /\ WF_vars(Worker) /\ SF_vars(BeginPrepare)
  /\ \A f \in Files : /\ WF_vars(Send(f)) /\ WF_vars(BackoffElapses(f))
                      /\ SF_vars(SendOk(f) \/ SendTerminal(f))

FairSpec == Spec /\ Fairness

(* While the process stays up every closed recording is reported to its     *)
(* end, or is in the hands of the operator, whatever becomes of the other   *)
(* recordings (_run, deliver, due).                                         *)
Settled(f) == rec[f] \in {"DONE", "ERROR"} \/ head[f] \in {"blocked", "terminal"}

ClosedIsReported ==
  \A f \in Files : rec[f] \in {"CLOSED", "FINALIZED"} ~> (Settled(f) \/ proc # "up")

=============================================================================
