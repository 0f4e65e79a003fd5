---------------------------- MODULE OutboxProofs ----------------------------
(***************************************************************************)
(* The safety properties of Outbox for any number of files and lines, with *)
(* every fault it knows, and that it implements ReportingPromise.          *)
(***************************************************************************)
EXTENDS Outbox, TLAPS

(* Where the pass and the process are, and what their local state is good    *)
(* for.                                                                      *)
Control ==
  /\ proc \in {"down", "admin", "import"} => work = "idle"
  /\ proc # "up" => \A f \in Files : archive[f] \notin {"creating", "writing"}
  /\ work \notin {"prepare", "scanned"} => \A f \in Files : rows[f] = "none"
  /\ work \notin {"deliver", "sent"} => list = {}
  /\ \A f \in list : queue[f] # <<>> /\ head[f] = "due" /\ rec[f] # "ERROR"
  /\ work \in {"loop", "deliver", "sent"} => fresh
  /\ work \in {"prepare", "scanned"} => ~fresh
  /\ work = "sent" => cur \in list /\ result \in {"ok", "retry", "refused", "terminal"}
  /\ work = "scanned" => cur \in Files /\ rows[cur] # "none" /\ result \in {"valid", "invalid"}
  /\ proc = "import" => cur \in Files

LEMMA AllType == All("none") \in [Files -> Open \cup {"none"}] /\ All("none") \in [Files -> Reasons]
                 /\ \A f \in Files : All("none")[f] = "none"
  BY DEF All, Open, Reasons

(* What the closures written by Flush do, and do not. *)
LEMMA FlushFacts ==
  ASSUME TypeOK, NEW p \in [Files -> Reasons], Flush(p)
  PROVE  /\ pending' \in [Files -> Reasons] /\ rec' \in [Files -> RecStates]
         /\ reason' \in [Files -> Reasons]
         /\ \A f \in Files :
              /\ pending'[f] \in {p[f], "none"}
              /\ \/ rec'[f] = rec[f] /\ reason'[f] = reason[f]
                 \/ rec[f] = "OPEN" /\ rec'[f] = "CLOSED" /\ p[f] # "none" /\ reason'[f] = p[f]
<1>1. PICK failing \in Failing({f \in Files : p[f] # "none"}) :
        /\ pending' = [f \in Files |-> IF f \in failing THEN p[f] ELSE "none"]
        /\ rec' = [f \in Files |->
             IF f \in {g \in Files : p[g] # "none" /\ g \notin failing} /\ Closable(f)
             THEN "CLOSED" ELSE rec[f]]
        /\ reason' = [f \in Files |->
             IF f \in {g \in Files : p[g] # "none" /\ g \notin failing} /\ Closable(f)
             THEN p[f] ELSE reason[f]]
  BY DEF Flush
<1>. QED
  BY <1>1 DEF TypeOK, Closable, RecStates, Reasons

LEMMA RecoverFacts ==
  ASSUME TypeOK, Recover
  PROVE  /\ rec' \in [Files -> RecStates] /\ reason' \in [Files -> Reasons]
         /\ \A f \in Files :
              \/ rec[f] # "OPEN" /\ rec'[f] = rec[f] /\ reason'[f] = reason[f]
              \/ rec[f] = "OPEN" /\ rec'[f] = "CLOSED" /\ reason'[f] = "SERVER_SHUTDOWN"
  BY DEF TypeOK, Recover, Recovered, RecStates, Reasons, WebReasons

(* Every action keeps the types. *)
LEMMA TypeStep ==
  TypeOK /\ Control /\ [Next]_vars => TypeOK'
<1> SUFFICES ASSUME TypeOK, Control, [Next]_vars PROVE TypeOK'
  OBVIOUS
<1>. USE AllType, OutboxAssumption
<1>1. ASSUME NEW f \in Files, Register(f) PROVE TypeOK'
  <2>1. <<Notice("create", 0, 0, "none")>> \in Seq(Notices)
    BY DEF Notice, Notices, Reasons
  <2>. QED
    BY <1>1, <2>1 DEF Register, InsertRecording, TypeOK, passVars, RecStates
<1>2. ASSUME NEW f \in Files, CreateArchive(f) \/ Write(f) \/ TornWrite(f) PROVE TypeOK'
  <2>1. CASE CreateArchive(f)
    BY <2>1 DEF CreateArchive, TypeOK, storeVars, passVars
  <2>2. CASE Write(f)
    BY <2>2 DEF Write, TypeOK, storeVars, passVars
  <2>3. CASE TornWrite(f)
    BY <2>3 DEF TornWrite, TypeOK, storeVars, passVars
  <2>. QED
    BY <1>2, <2>1, <2>2, <2>3
<1>3. ASSUME NEW f \in Files, NEW r \in Causes, CloseArchive(f, r) PROVE TypeOK'
  <2>1. [pending EXCEPT ![f] = r] \in [Files -> Reasons]
    BY DEF TypeOK, Reasons
  <2>2. /\ pending' \in [Files -> Reasons] /\ rec' \in [Files -> RecStates]
        /\ reason' \in [Files -> Reasons]
    BY <1>3, <2>1, FlushFacts DEF CloseArchive
  <2>3. archive' \in [Files -> {"none", "creating", "writing", "final", "missing"}]
    BY <1>3 DEF CloseArchive, TypeOK
  <2>4. UNCHANGED <<size, flawed, seq, lastSize, queue, head, web, proc, passVars>>
    BY <1>3 DEF CloseArchive
  <2>. QED
    BY <2>2, <2>3, <2>4 DEF TypeOK, passVars
<1>4. ASSUME NEW f \in Files, ScanMissing(f) \/ ScanFails(f) PROVE TypeOK'
  <2>1. rec' \in [Files -> RecStates] /\ rows' \in [Files -> Open \cup {"none"}]
    BY <1>4 DEF ScanMissing, ScanFails, BlockFile, TypeOK, RecStates
  <2>2. UNCHANGED <<archiveVars, reason, seq, lastSize, queue, head, pending, web, proc, work,
                    fresh, list, cur, seen, result>>
    BY <1>4 DEF ScanMissing, ScanFails
  <2>. QED
    BY <2>1, <2>2 DEF TypeOK, archiveVars
<1>5. ASSUME NEW f \in Files, ScanFile(f) PROVE TypeOK'
  BY <1>5 DEF ScanFile, TypeOK, archiveVars, storeVars
<1>6. ASSUME NEW f \in Files, EnqueueClose(f) PROVE TypeOK'
  <2>. DEFINE n == Notice("close", seq[f] + 1, seen, CloseReason(f))
  <2>1. n \in Notices /\ n.no \in Nat
    BY DEF Notice, Notices, CloseReason, TypeOK, Reasons, WebReasons
  <2>2. Insert(f, n) /\ Scanned(f) /\ rec' = [rec EXCEPT ![f] = "FINALIZED"]
    BY <1>6 DEF EnqueueClose
  <2>. HIDE DEF n
  <2>. QED
    BY <2>1, <2>2 DEF Insert, Scanned, TypeOK, archiveVars, RecStates
<1>7. ASSUME NEW f \in Files, EnqueueUpdate(f) PROVE TypeOK'
  <2>. DEFINE n == Notice("update", seq[f] + 1, seen, "none")
  <2>1. n \in Notices /\ n.no \in Nat
    BY DEF Notice, Notices, TypeOK, Reasons
  <2>2. Insert(f, n) /\ Scanned(f) /\ rec' = rec
    BY <1>7 DEF EnqueueUpdate
  <2>. HIDE DEF n
  <2>. QED
    BY <2>1, <2>2 DEF Insert, Scanned, TypeOK, archiveVars
<1>8. ASSUME NEW f \in Files, NothingToQueue(f) PROVE TypeOK'
  BY <1>8 DEF NothingToQueue, Scanned, TypeOK, archiveVars
<1>9. ASSUME NEW f \in Files, Send(f) PROVE TypeOK'
  <2>1. work = "deliver" /\ f \in list /\ UNCHANGED <<archiveVars, storeVars, pending, proc,
                                                      fresh, rows, list, seen>>
        /\ work' = "sent" /\ cur' = f /\ result' \in {"ok", "retry", "refused", "terminal"}
        /\ (web' = web \/ Apply(f))
    BY <1>9 DEF Send, SendOk, SendLost, SendRefused, SendTerminal, Exchange
  <2>2. Item(f) \in Notices
    BY <2>1 DEF TypeOK, Control, Item
  <2>3. web' \in [Files -> Held]
    <3>. DEFINE new == [state |-> IF Item(f).phase # "close" THEN "RECORDING"
                                  ELSE IF Item(f).reason = "ABORTED" THEN "ABORTED" ELSE "READY",
                        no |-> Item(f).no, size |-> Item(f).size]
    <3>1. new \in Held
      BY <2>2 DEF Held, Notices, WebStates
    <3>2. web' = web \/ web' = [web EXCEPT ![f] = new]
      BY <2>1 DEF Apply
    <3>. HIDE DEF new
    <3>. QED
      BY <3>1, <3>2 DEF TypeOK
  <2>. QED
    BY <2>1, <2>3 DEF TypeOK, archiveVars, storeVars
<1>10. ASSUME NEW f \in Files, Ack(f) PROVE TypeOK'
  <2>1. Tail(queue[f]) \in Seq(Notices)
    BY <1>10 DEF Ack, Recorded, Control, TypeOK
  <2>. QED
    BY <1>10, <2>1 DEF Ack, Recorded, TypeOK, archiveVars, RecStates
<1>11. ASSUME NEW f \in Files, Failed(f) PROVE TypeOK'
  <2>1. HeadAfter(result) \in {"waiting", "blocked", "terminal"}
    BY <1>11 DEF Failed, Recorded, Control, HeadAfter
  <2>. QED
    BY <1>11, <2>1 DEF Failed, Recorded, TypeOK, archiveVars
<1>12. ASSUME NEW f \in Files, BackoffElapses(f) \/ WebTimeout(f) PROVE TypeOK'
  <2>1. CASE BackoffElapses(f)
    BY <2>1 DEF BackoffElapses, TypeOK, archiveVars, passVars
  <2>2. CASE WebTimeout(f)
    <3>1. [web[f] EXCEPT !.state = "TIMEDOUT"] \in Held
      <4>1. web[f] \in Held
        BY DEF TypeOK
      <4>. QED
        BY <4>1 DEF Held, WebStates
    <3>. QED
      BY <2>2, <3>1 DEF WebTimeout, TypeOK, archiveVars, storeVars, passVars
  <2>. QED
    BY <1>12, <2>1, <2>2
<1>13. CASE BeginPrepare \/ Finish
  <2>1. pending \in [Files -> Reasons] /\ Flush(pending)
    BY <1>13 DEF TypeOK, BeginPrepare, Finish
  <2>2. /\ pending' \in [Files -> Reasons] /\ rec' \in [Files -> RecStates]
        /\ reason' \in [Files -> Reasons]
    BY <2>1, FlushFacts
  <2>3. rows' = [f \in Files |-> IF rec'[f] \in Open THEN rec'[f] ELSE "none"]
    BY <1>13 DEF BeginPrepare, Finish
  <2>4. rows' \in [Files -> Open \cup {"none"}]
    BY <2>3
  <2>5. CASE BeginPrepare
    BY <2>2, <2>4, <2>5 DEF BeginPrepare, TypeOK, archiveVars
  <2>6. CASE Finish
    BY <2>2, <2>4, <2>6 DEF Finish, TypeOK, archiveVars
  <2>. QED
    BY <1>13, <2>5, <2>6
<1>14. CASE EndPrepare \/ BeginDeliver \/ EndDeliver \/ PassFails \/ Finished
  <2>1. CASE EndPrepare \/ BeginDeliver
    BY <2>1 DEF EndPrepare, BeginDeliver, TypeOK, archiveVars, storeVars
  <2>2. CASE EndDeliver \/ PassFails \/ Finished
    BY <2>2 DEF EndDeliver, PassFails, Finished, Idle, TypeOK, archiveVars, storeVars
  <2>. QED
    BY <1>14, <2>1, <2>2
<1>15. CASE Stop \/ AdminFails \/ UNCHANGED vars
  BY <1>15 DEF Stop, AdminFails, TypeOK, vars, archiveVars, storeVars, passVars
<1>16. CASE Crash
  <2>1. /\ archive' \in [Files -> {"none", "creating", "writing", "final", "missing"}]
        /\ size' \in [Files -> Nat] /\ flawed' \in [Files -> BOOLEAN]
    BY <1>16 DEF Crash, TypeOK
  <2>. QED
    BY <1>16, <2>1 DEF Crash, Idle, TypeOK, storeVars
<1>17. CASE Start \/ StartAdmin
  BY <1>17, RecoverFacts DEF Start, StartAdmin, TypeOK, archiveVars, passVars
<1>18. ASSUME NEW f \in Files, AdminRetry(f) PROVE TypeOK'
  BY <1>18 DEF AdminRetry, TypeOK, archiveVars, passVars
<1>19. ASSUME NEW f \in Files, AdminRegister(f) PROVE TypeOK'
  <2>1. <<Notice("create", 0, 0, "none")>> \in Seq(Notices)
    BY DEF Notice, Notices, Reasons
  <2>. QED
    BY <1>19, <2>1 DEF AdminRegister, InsertRecording, TypeOK, archiveVars, RecStates
<1>20. ASSUME NEW r \in Causes, AdminClose(r) PROVE TypeOK'
  BY <1>20 DEF AdminClose, Control, TypeOK, archiveVars, RecStates, Reasons
<1>. QED
  BY <1>1, <1>2, <1>3, <1>4, <1>5, <1>6, <1>7, <1>8, <1>9, <1>10, <1>11, <1>12, <1>13, <1>14, <1>15,
     <1>16, <1>17, <1>18, <1>19, <1>20
  DEF Next, Session, Prepare, Maintain

(* Every action keeps the control in order. *)
LEMMA ControlStep ==
  TypeOK /\ Control /\ [Next]_vars => Control'
<1> SUFFICES ASSUME TypeOK, Control, [Next]_vars PROVE Control'
  OBVIOUS
<1>. USE AllType, OutboxAssumption DEF Control
<1>1. ASSUME NEW f \in Files, Register(f) PROVE Control'
  <2>1. \A g \in Files : queue[g] # <<>> => queue'[g] # <<>>
    BY <1>1 DEF Register, InsertRecording, TypeOK
  <2>2. \A g \in Files : rec'[g] = rec[g] \/ rec'[g] = "OPEN"
    BY <1>1 DEF Register, InsertRecording, TypeOK
  <2>3. list \subseteq Files /\ head' = head /\ proc' = "up" /\ UNCHANGED passVars
    BY <1>1 DEF Register, InsertRecording, TypeOK
  <2>. QED
    BY <2>1, <2>2, <2>3 DEF passVars
<1>2. ASSUME NEW f \in Files, CreateArchive(f) \/ Write(f) \/ TornWrite(f) PROVE Control'
  <2>1. proc = "up" /\ UNCHANGED <<storeVars, proc, passVars>>
    BY <1>2 DEF CreateArchive, Write, TornWrite
  <2>. QED
    BY <2>1 DEF storeVars, passVars
<1>3. ASSUME NEW f \in Files, NEW r \in Causes, CloseArchive(f, r) PROVE Control'
  <2>1. [pending EXCEPT ![f] = r] \in [Files -> Reasons]
    BY DEF TypeOK, Reasons
  <2>2. \A g \in Files : rec'[g] # "ERROR" \/ rec[g] = "ERROR"
    BY <1>3, <2>1, FlushFacts DEF CloseArchive
  <2>3. list \subseteq Files /\ proc = "up" /\ UNCHANGED <<queue, head, proc, passVars>>
    BY <1>3 DEF CloseArchive, TypeOK
  <2>. QED
    BY <2>2, <2>3 DEF passVars
<1>4. ASSUME NEW f \in Files, ScanMissing(f) \/ ScanFails(f) PROVE Control'
  BY <1>4 DEF ScanMissing, ScanFails, archiveVars, TypeOK
<1>5. ASSUME NEW f \in Files, ScanFile(f) PROVE Control'
  BY <1>5 DEF ScanFile, archiveVars, storeVars
<1>6. ASSUME NEW f \in Files, Scanned(f) PROVE Control'
  BY <1>6 DEF Scanned, archiveVars, TypeOK
<1>9. ASSUME NEW f \in Files, Send(f) PROVE Control'
  <2>1. /\ work = "deliver" /\ f \in list /\ work' = "sent" /\ cur' = f
        /\ UNCHANGED <<archiveVars, storeVars, proc, fresh, rows, list>>
        /\ result' \in {"ok", "retry", "refused", "terminal"}
    BY <1>9 DEF Send, SendOk, SendLost, SendRefused, SendTerminal, Exchange
  <2>. QED
    BY <2>1 DEF archiveVars, storeVars
<1>10. ASSUME NEW f \in Files, Ack(f) \/ Failed(f) PROVE Control'
  <2>1. /\ work = "sent" /\ work' = "deliver" /\ list' = list \ {f} /\ list \subseteq Files
        /\ UNCHANGED <<archiveVars, proc, fresh, rows>>
    BY <1>10 DEF Ack, Failed, Recorded, TypeOK
  <2>2. \A g \in Files \ {f} : queue'[g] = queue[g] /\ head'[g] = head[g] /\ rec'[g] = rec[g]
    BY <1>10 DEF Ack, Failed, TypeOK
  <2>. QED
    BY <2>1, <2>2 DEF archiveVars
<1>12. ASSUME NEW f \in Files, BackoffElapses(f) \/ WebTimeout(f) PROVE Control'
  <2>1. \A g \in Files : head[g] = "due" => head'[g] = "due"
    BY <1>12 DEF BackoffElapses, WebTimeout, TypeOK, storeVars
  <2>2. UNCHANGED <<archiveVars, rec, queue, proc, passVars>> /\ list \subseteq Files
    BY <1>12 DEF BackoffElapses, WebTimeout, TypeOK, storeVars
  <2>. QED
    BY <2>1, <2>2 DEF archiveVars, passVars
<1>13. CASE BeginPrepare \/ Finish
  <2>1. /\ work = "idle" /\ work' = "prepare" /\ UNCHANGED <<archiveVars, list, cur>> /\ ~fresh'
        /\ proc' = proc \/ (proc' = "finishing" /\ proc # "up")
        /\ proc' \notin {"import", "admin", "down"}
    BY <1>13 DEF BeginPrepare, Finish
  <2>. QED
    BY <2>1 DEF archiveVars
<1>14. CASE EndPrepare
  BY <1>14 DEF EndPrepare, archiveVars, storeVars
<1>15. CASE BeginDeliver
  <2>1. /\ work' = "deliver" /\ (work = "loop" \/ (work = "idle" /\ fresh /\ proc = "up"))
        /\ UNCHANGED <<archiveVars, storeVars, proc, fresh, rows, cur>>
        /\ \A f \in list' : f \in Files /\ Due(f)
    BY <1>15 DEF BeginDeliver
  <2>. QED
    BY <2>1 DEF archiveVars, storeVars, Due
<1>16. CASE EndDeliver \/ PassFails \/ Finished
  <2>1. /\ Idle /\ UNCHANGED archiveVars /\ work # "idle"
        /\ proc' = proc \/ (proc # "up" /\ proc' = "down")
    BY <1>16 DEF EndDeliver, PassFails, Finished
  <2>. QED
    BY <2>1 DEF Idle, archiveVars
<1>17. CASE Stop
  BY <1>17 DEF Stop, Recording, archiveVars, storeVars, passVars
<1>18. CASE AdminFails
  BY <1>18 DEF AdminFails, archiveVars, storeVars
<1>19. CASE Crash
  <2>1. Idle /\ \A f \in Files : archive'[f] \notin {"creating", "writing"}
    BY <1>19 DEF Crash
  <2>2. proc' = "down"
    BY <1>19 DEF Crash
  <2>. QED
    BY <2>1, <2>2 DEF Idle
<1>20. CASE Start \/ StartAdmin
  BY <1>20 DEF Start, StartAdmin, archiveVars, passVars
<1>21. ASSUME NEW f \in Files, AdminRetry(f) \/ AdminRegister(f) PROVE Control'
  <2>1. /\ proc = "admin" /\ work' = work /\ proc' \in {"admin", "import"}
        /\ UNCHANGED <<archiveVars, rows, list, fresh>> /\ (proc' = "import" => cur' = f)
    BY <1>21 DEF AdminRetry, AdminRegister, passVars
  <2>. QED
    BY <2>1 DEF archiveVars
<1>22. ASSUME NEW r \in Causes, AdminClose(r) PROVE Control'
  BY <1>22 DEF AdminClose, archiveVars
<1>23. CASE UNCHANGED vars
  BY <1>23 DEF vars, archiveVars, storeVars, passVars
<1>. QED
  BY <1>1, <1>2, <1>3, <1>4, <1>5, <1>6, <1>9, <1>10, <1>12, <1>13, <1>14, <1>15, <1>16, <1>17,
     <1>18, <1>19, <1>20, <1>21, <1>22, <1>23
  DEF Next, Session, Prepare, Maintain, EnqueueClose, EnqueueUpdate, NothingToQueue

-----------------------------------------------------------------------------
(* What holds of one file. The ledger and the archive agree: only a closed   *)
(* archive's recording is closed, nothing is known of an archive that was    *)
(* not written, nothing was said of a recording that is not registered.      *)
LedgerInv(f) ==
  /\ pending[f] # "none" => archive[f] = "final"
  /\ rec[f] \in {"CLOSED", "FINALIZED", "DONE"} => archive[f] \notin {"creating", "writing"}
  /\ archive[f] = "creating" => rec[f] # "none"
  /\ archive[f] \in {"none", "creating", "missing"} => size[f] = 0 /\ lastSize[f] = -1
  /\ rec[f] = "none" =>
       /\ seq[f] = 0 /\ lastSize[f] = -1 /\ queue[f] = <<>> /\ head[f] = "due"
       /\ web[f].state = "unknown" /\ web[f].no = 0 /\ web[f].size = 0
  /\ rows[f] # "none" => rec[f] \in Open /\ (rows[f] = "CLOSED" => rec[f] = "CLOSED")
  /\ head[f] # "due" => queue[f] # <<>>
  /\ proc = "import" /\ cur = f => rec[f] = "OPEN" /\ archive[f] = "final"

(* What the scan of a file found is there, and is all of a closed archive.   *)
ScanInv(f) ==
  work = "scanned" /\ cur = f =>
    /\ archive[f] \in {"writing", "final"}
    /\ seen <= size[f] /\ lastSize[f] <= seen
    /\ rows[f] = "CLOSED" => /\ archive[f] = "final" /\ seen = size[f]
                             /\ result = "valid" => ~flawed[f]

LEMMA InsertFills == ASSUME TypeOK, NEW f \in Files, NEW n, Insert(f, n) PROVE queue'[f] # <<>>
<1>1. queue[f] \in Seq(Notices) /\ queue'[f] = Append(queue[f], n)
  BY DEF TypeOK, Insert
<1>2. PICK q \in Seq(Notices) : q = queue[f]
  BY <1>1
<1>3. Len(q) \in Nat /\ Len(Append(q, n)) = Len(q) + 1
  BY <1>2
<1>. QED
  BY <1>1, <1>2, <1>3

LEMMA LedgerStep ==
  ASSUME TypeOK, Control, [Next]_vars, NEW g \in Files, LedgerInv(g), ScanInv(g),
         queue[g] # <<>> /\ Item(g).phase = "close" => rec[g] = "FINALIZED"
  PROVE  LedgerInv(g)'
<1>. USE AllType, OutboxAssumption DEF LedgerInv, Control
<1>1. ASSUME NEW f \in Files, Register(f) PROVE LedgerInv(g)'
  <2>1. /\ proc = "up" /\ archive[f] = "none" /\ rec[f] = "none"
        /\ archive' = [archive EXCEPT ![f] = "creating"]
        /\ rec' = [rec EXCEPT ![f] = "OPEN"]
        /\ queue' = [queue EXCEPT ![f] = <<Notice("create", 0, 0, "none")>>]
        /\ UNCHANGED <<size, pending, proc, seq, lastSize, head, web, rows, cur>>
    BY <1>1 DEF Register, InsertRecording, passVars
  <2>. QED
    BY <2>1 DEF TypeOK, Open
<1>2. ASSUME NEW f \in Files, CreateArchive(f) \/ Write(f) \/ TornWrite(f) PROVE LedgerInv(g)'
  <2>1. proc = "up" /\ UNCHANGED <<storeVars, pending, web, proc, passVars>>
    BY <1>2 DEF CreateArchive, Write, TornWrite
  <2>2. \/ archive'[g] = archive[g] /\ size'[g] = size[g]
        \/ archive[g] = "creating" /\ archive'[g] \in {"writing", "missing", "final"} /\ size' = size
        \/ archive[g] = "writing" /\ archive' = archive
    BY <1>2 DEF CreateArchive, Write, TornWrite, TypeOK
  <2>. QED
    BY <2>1, <2>2 DEF storeVars, passVars
<1>3. ASSUME NEW f \in Files, NEW r \in Causes, CloseArchive(f, r) PROVE LedgerInv(g)'
  <2>1. [pending EXCEPT ![f] = r] \in [Files -> Reasons]
    BY DEF TypeOK, Reasons
  <2>2. /\ pending'[g] \in {[pending EXCEPT ![f] = r][g], "none"}
        /\ rec'[g] = rec[g]
           \/ (rec[g] = "OPEN" /\ rec'[g] = "CLOSED" /\ [pending EXCEPT ![f] = r][g] # "none")
    BY <1>3, <2>1, FlushFacts DEF CloseArchive
  <2>3. /\ archive'[g] = archive[g] \/ (g = f /\ archive[g] = "writing" /\ archive'[g] = "final")
        /\ archive'[f] = "final" /\ (g # f => [pending EXCEPT ![f] = r][g] = pending[g])
        /\ UNCHANGED <<size, seq, lastSize, queue, head, web, proc, passVars>>
    BY <1>3 DEF CloseArchive, TypeOK
  <2>4. proc # "import"
    BY <1>3 DEF CloseArchive
  <2>. QED
    BY <2>2, <2>3, <2>4 DEF passVars, Open
<1>4. ASSUME NEW f \in Files, ScanMissing(f) \/ ScanFails(f) PROVE LedgerInv(g)'
  <2>1. /\ work = "prepare" /\ rows[f] # "none" /\ rows' = [rows EXCEPT ![f] = "none"]
        /\ rec'[g] = rec[g] \/ (g = f /\ rec'[g] = "ERROR")
        /\ UNCHANGED <<archiveVars, seq, lastSize, queue, head, pending, web, proc, cur>>
    BY <1>4 DEF ScanMissing, ScanFails, BlockFile, TypeOK
  <2>. QED
    BY <2>1 DEF archiveVars, TypeOK
<1>5. ASSUME NEW f \in Files, ScanFile(f) PROVE LedgerInv(g)'
  <2>1. work = "prepare" /\ UNCHANGED <<archiveVars, storeVars, pending, web, proc, rows>>
    BY <1>5 DEF ScanFile
  <2>. QED
    BY <2>1 DEF archiveVars, storeVars
<1>6. ASSUME NEW f \in Files, EnqueueClose(f) \/ EnqueueUpdate(f) PROVE LedgerInv(g)'
  <2>1. /\ work = "scanned" /\ cur = f /\ rows' = [rows EXCEPT ![f] = "none"]
        /\ UNCHANGED <<archiveVars, head, pending, web, proc>>
    BY <1>6 DEF EnqueueClose, EnqueueUpdate, Scanned
  <2>2. \E n : Insert(f, n)
    BY <1>6 DEF EnqueueClose, EnqueueUpdate
  <2>3. queue'[g] = queue[g] \/ (g = f /\ queue'[g] # <<>>)
    <3>1. PICK n : Insert(f, n)
      BY <2>2
    <3>. QED
      BY <3>1, InsertFills DEF Insert, TypeOK
  <2>4. g # f => /\ seq'[g] = seq[g] /\ lastSize'[g] = lastSize[g] /\ rec'[g] = rec[g]
                 /\ queue'[g] = queue[g]
    BY <1>6, <2>2 DEF EnqueueClose, EnqueueUpdate, Insert, TypeOK
  <2>5. rec'[f] = rec[f] \/ (rows[f] = "CLOSED" /\ rec'[f] = "FINALIZED")
    BY <1>6 DEF EnqueueClose, EnqueueUpdate, TypeOK
  <2>. QED
    BY <2>1, <2>3, <2>4, <2>5 DEF archiveVars, ScanInv, TypeOK, Open
<1>7. ASSUME NEW f \in Files, NothingToQueue(f) PROVE LedgerInv(g)'
  <2>1. /\ work = "scanned" /\ rows' = [rows EXCEPT ![f] = "none"]
        /\ UNCHANGED <<archiveVars, storeVars, pending, web, proc>>
    BY <1>7 DEF NothingToQueue, Scanned, storeVars
  <2>. QED
    BY <2>1 DEF archiveVars, storeVars, TypeOK
<1>9. ASSUME NEW f \in Files, Send(f) PROVE LedgerInv(g)'
  <2>1. /\ f \in list /\ proc = "up" /\ UNCHANGED <<archiveVars, storeVars, pending, proc, rows>>
        /\ (web' = web \/ Apply(f))
    BY <1>9 DEF Send, SendOk, SendLost, SendRefused, SendTerminal, Exchange
  <2>2. rec[f] # "none" \/ g # f
    BY <2>1
  <2>3. g # f => web'[g] = web[g]
    BY <2>1 DEF Apply, TypeOK
  <2>. QED
    BY <2>1, <2>2, <2>3 DEF archiveVars, storeVars
<1>10. ASSUME NEW f \in Files, Ack(f) \/ Failed(f) PROVE LedgerInv(g)'
  <2>1. /\ work = "sent" /\ f \in list /\ f \in Files
        /\ UNCHANGED <<archiveVars, seq, lastSize, pending, web, proc, rows>>
    BY <1>10 DEF Ack, Failed, Recorded
  <2>2. g # f => queue'[g] = queue[g] /\ head'[g] = head[g] /\ rec'[g] = rec[g]
    BY <1>10 DEF Ack, Failed, TypeOK
  <2>3. /\ rec'[f] = rec[f] \/ (rec'[f] = "DONE" /\ Item(f).phase = "close")
        /\ head'[f] = "due" \/ queue'[f] # <<>>
    BY <1>10, <2>1 DEF Ack, Failed, TypeOK
  <2>4. g = f => queue[f] # <<>> /\ rec[f] # "none"
    BY <2>1
  <2>5. rec'[g] = rec[g] \/ (rec'[g] = "DONE" /\ rec[g] = "FINALIZED")
    BY <2>2, <2>3, <2>4
  <2>. QED
    BY <2>1, <2>2, <2>3, <2>4, <2>5 DEF archiveVars
<1>12. ASSUME NEW f \in Files, BackoffElapses(f) \/ AdminRetry(f) PROVE LedgerInv(g)'
  <2>1. /\ head'[g] = "due" \/ head'[g] = head[g]
        /\ UNCHANGED <<archiveVars, rec, seq, lastSize, queue, pending, web, proc, passVars>>
    BY <1>12 DEF BackoffElapses, AdminRetry, TypeOK
  <2>. QED
    BY <2>1 DEF archiveVars, passVars
<1>13. ASSUME NEW f \in Files, WebTimeout(f) PROVE LedgerInv(g)'
  <2>1. web'[g] = web[g] \/ web[g].state = "RECORDING"
    BY <1>13 DEF WebTimeout, TypeOK
  <2>2. UNCHANGED <<archiveVars, storeVars, pending, proc, passVars>>
    BY <1>13 DEF WebTimeout
  <2>. QED
    BY <2>1, <2>2 DEF archiveVars, storeVars, passVars
<1>14. CASE BeginPrepare \/ Finish
  <2>1. pending \in [Files -> Reasons] /\ Flush(pending)
    BY <1>14 DEF TypeOK, BeginPrepare, Finish
  <2>2. /\ pending'[g] \in {pending[g], "none"}
        /\ rec'[g] = rec[g] \/ (rec[g] = "OPEN" /\ rec'[g] = "CLOSED" /\ pending[g] # "none")
    BY <2>1, FlushFacts
  <2>3. rows'[g] = IF rec'[g] \in Open THEN rec'[g] ELSE "none"
    BY <1>14 DEF BeginPrepare, Finish
  <2>4. proc' # "import" /\ UNCHANGED <<archiveVars, seq, lastSize, queue, head, web>>
    BY <1>14 DEF BeginPrepare, Finish
  <2>. QED
    BY <2>2, <2>3, <2>4 DEF archiveVars, Open
<1>15. CASE EndPrepare \/ BeginDeliver
  <2>1. work # "idle" \/ proc = "up"
    BY <1>15 DEF EndPrepare, BeginDeliver
  <2>2. UNCHANGED <<archiveVars, storeVars, pending, web, proc, rows>>
    BY <1>15 DEF EndPrepare, BeginDeliver
  <2>. QED
    BY <2>1, <2>2 DEF archiveVars, storeVars
<1>16. CASE EndDeliver \/ PassFails \/ Finished
  <2>1. /\ Idle /\ work # "idle" /\ UNCHANGED <<archiveVars, storeVars, pending, web>>
        /\ proc' = proc \/ proc' = "down"
    BY <1>16 DEF EndDeliver, PassFails, Finished
  <2>. QED
    BY <2>1 DEF Idle, archiveVars, storeVars
<1>17. CASE Stop \/ AdminFails \/ UNCHANGED vars
  <2>1. proc' # "import" \/ UNCHANGED vars
    BY <1>17 DEF Stop, AdminFails
  <2>2. UNCHANGED <<archiveVars, storeVars, pending, web, rows>>
    BY <1>17 DEF Stop, AdminFails, vars, passVars
  <2>. QED
    BY <2>1, <2>2 DEF vars, archiveVars, storeVars, passVars
<1>18. CASE Crash
  <2>1. /\ \/ archive'[g] = archive[g] /\ archive[g] \notin {"creating", "writing"}
           \/ archive[g] = "creating" /\ archive'[g] = "missing"
           \/ archive[g] = "writing" /\ archive'[g] = "final"
        /\ archive[g] # "writing" => size'[g] = size[g]
    BY <1>18 DEF Crash, TypeOK
  <2>2. Idle /\ proc' = "down" /\ pending'[g] = "none" /\ UNCHANGED <<storeVars, web>>
    BY <1>18 DEF Crash
  <2>. QED
    BY <2>1, <2>2 DEF Idle, storeVars
<1>19. CASE Start \/ StartAdmin
  <2>1. Recover /\ proc = "down" /\ proc' # "import" /\ pending'[g] = "none"
        /\ UNCHANGED <<archiveVars, seq, lastSize, queue, head, web, passVars>>
    BY <1>19 DEF Start, StartAdmin
  <2>2. rec'[g] = rec[g] \/ (rec[g] = "OPEN" /\ rec'[g] = "CLOSED")
    BY <2>1, RecoverFacts
  <2>. QED
    BY <2>1, <2>2 DEF archiveVars, passVars
<1>20. ASSUME NEW f \in Files, AdminRegister(f) PROVE LedgerInv(g)'
  <2>1. /\ proc = "admin" /\ archive[f] = "final" /\ rec[f] = "none" /\ cur' = f
        /\ rec' = [rec EXCEPT ![f] = "OPEN"]
        /\ queue' = [queue EXCEPT ![f] = <<Notice("create", 0, 0, "none")>>]
        /\ UNCHANGED <<archiveVars, pending, seq, lastSize, head, web, rows>>
    BY <1>20 DEF AdminRegister, InsertRecording
  <2>. QED
    BY <2>1 DEF archiveVars, TypeOK
<1>21. ASSUME NEW r \in Causes, AdminClose(r) PROVE LedgerInv(g)'
  <2>1. /\ proc = "import" /\ cur \in Files /\ proc' = "admin"
        /\ rec' = [rec EXCEPT ![cur] = "CLOSED"]
        /\ UNCHANGED <<archiveVars, seq, lastSize, queue, head, pending, web, rows>>
    BY <1>21 DEF AdminClose
  <2>. QED
    BY <2>1 DEF archiveVars, TypeOK
<1>. QED
  BY <1>1, <1>2, <1>3, <1>4, <1>5, <1>6, <1>7, <1>9, <1>10, <1>12, <1>13, <1>14, <1>15, <1>16, <1>17,
     <1>18, <1>19, <1>20, <1>21
  DEF Next, Session, Prepare, Maintain

(* The scan's finding stays good until the pass uses it. *)
LEMMA ScanStep ==
  ASSUME TypeOK, Control, [Next]_vars, NEW g \in Files, LedgerInv(g), ScanInv(g)
  PROVE  ScanInv(g)'
<1>. USE OutboxAssumption DEF ScanInv
<1>1. ASSUME NEW f \in Files, Session(f) PROVE ScanInv(g)'
  <2>1. UNCHANGED <<seq, lastSize, passVars>>
    BY <1>1 DEF Session, Register, InsertRecording, CreateArchive, Write, TornWrite, CloseArchive,
       storeVars
  <2>2. archive[g] \in {"writing", "final"} =>
          /\ archive'[g] = archive[g] \/ archive'[g] = "final"
          /\ size'[g] = size[g] \/ (archive[g] = "writing" /\ size'[g] >= size[g])
          /\ flawed'[g] = flawed[g] \/ archive[g] = "writing"
    <3>1. CASE Register(f) \/ CreateArchive(f)
      BY <3>1 DEF Register, CreateArchive, TypeOK
    <3>2. CASE Write(f) \/ TornWrite(f)
      BY <3>2 DEF Write, TornWrite, TypeOK
    <3>3. CASE \E r \in Causes : CloseArchive(f, r)
      BY <3>3 DEF CloseArchive, TypeOK
    <3>. QED
      BY <1>1, <3>1, <3>2, <3>3 DEF Session
  <2>3. /\ size[g] \in Nat /\ size'[g] \in Int /\ seen \in Nat
        /\ archive[g] \in {"none", "creating", "writing", "final", "missing"}
    BY TypeStep DEF TypeOK
  <2>. QED
    BY <2>1, <2>2, <2>3 DEF passVars
<1>2. ASSUME NEW f \in Files, ScanFile(f) PROVE ScanInv(g)'
  <2>1. /\ rows[f] # "none" /\ archive[f] \in {"writing", "final"} /\ ~Shrunk(f)
        /\ seen' = size[f] /\ cur' = f /\ result' = (IF Valid(f) THEN "valid" ELSE "invalid")
        /\ UNCHANGED <<archiveVars, storeVars, rows>>
    BY <1>2 DEF ScanFile
  <2>2. g = f /\ rows[f] = "CLOSED" => archive[f] = "final"
    BY <2>1 DEF LedgerInv
  <2>3. Valid(f) => ~flawed[f]
    BY DEF Valid
  <2>4. size[f] \in Int /\ lastSize[f] \in Int
    BY DEF TypeOK
  <2>5. lastSize[f] <= size[f]
    BY <2>1, <2>4 DEF Shrunk
  <2>. QED
    BY <2>1, <2>2, <2>3, <2>4, <2>5 DEF archiveVars, storeVars
<1>3. ASSUME work' # "scanned" PROVE ScanInv(g)'
  BY <1>3
<1>4. ASSUME NEW f \in Files,
             ScanMissing(f) \/ ScanFails(f) \/ Scanned(f) \/ Send(f) \/ Ack(f) \/ Failed(f)
      PROVE  work' # "scanned"
  BY <1>4 DEF ScanMissing, ScanFails, Scanned, Send, SendOk, SendLost, SendRefused, SendTerminal,
     Exchange, Ack, Failed, Recorded
<1>5. ASSUME NEW f \in Files, BackoffElapses(f) \/ WebTimeout(f) PROVE ScanInv(g)'
  <2>1. UNCHANGED <<archiveVars, lastSize, passVars>>
    BY <1>5 DEF BackoffElapses, WebTimeout, storeVars
  <2>. QED
    BY <2>1 DEF archiveVars, passVars
<1>6. CASE BeginPrepare \/ EndPrepare \/ BeginDeliver \/ EndDeliver \/ PassFails \/ Finish
           \/ Finished \/ Crash
  BY <1>6, <1>3 DEF BeginPrepare, EndPrepare, BeginDeliver, EndDeliver, PassFails, Finish, Finished,
     Crash, Idle
<1>7. CASE Stop \/ UNCHANGED vars
  BY <1>7 DEF Stop, vars, archiveVars, storeVars, passVars
<1>8. CASE Start \/ Maintain
  <2>1. work = "idle" /\ work' = work
    BY <1>8 DEF Control, Start, Maintain, StartAdmin, AdminRetry, AdminRegister, AdminClose,
       AdminFails, passVars
  <2>. QED
    BY <2>1, <1>3
<1>. QED
  BY <1>1, <1>2, <1>3, <1>4, <1>5, <1>6, <1>7, <1>8
  DEF Next, Prepare, EnqueueClose, EnqueueUpdate, NothingToQueue

-----------------------------------------------------------------------------
(* What a step may do to one file, its queue and what the Web holds of it.   *)
Stays(g) ==
  /\ queue'[g] = queue[g] /\ seq'[g] = seq[g] /\ lastSize'[g] = lastSize[g]
  /\ \/ rec'[g] = rec[g] /\ reason'[g] = reason[g]
     \/ rec[g] = "OPEN" /\ rec'[g] = "CLOSED"
     \/ rec[g] \in Open /\ rec'[g] = "ERROR" /\ reason'[g] = reason[g]
  /\ archive[g] = "final" => archive'[g] = "final"
  /\ archive[g] # "writing" => size'[g] = size[g] /\ flawed'[g] = flawed[g]

SameRecord(g) == /\ archive'[g] = archive[g] /\ size'[g] = size[g] /\ flawed'[g] = flawed[g]
                 /\ reason'[g] = reason[g]

Enters(g) ==
  /\ rec[g] = "none" /\ rec'[g] = "OPEN"
  /\ queue'[g] = <<Notice("create", 0, 0, "none")>>
  /\ UNCHANGED <<seq, lastSize, web>>

Grows(g) ==
  /\ work = "scanned" /\ cur = g /\ rows[g] = "OPEN" /\ Changed(g) /\ ~HasUpdate(g)
  /\ queue'[g] = Append(queue[g], Notice("update", seq[g] + 1, seen, "none"))
  /\ seq'[g] = seq[g] + 1 /\ lastSize'[g] = seen
  /\ rec'[g] = rec[g] /\ SameRecord(g) /\ UNCHANGED web

Closes(g) ==
  /\ work = "scanned" /\ cur = g /\ rows[g] = "CLOSED"
  /\ queue'[g] = Append(queue[g], Notice("close", seq[g] + 1, seen, CloseReason(g)))
  /\ seq'[g] = seq[g] + 1 /\ lastSize'[g] = seen
  /\ rec'[g] = "FINALIZED" /\ SameRecord(g) /\ UNCHANGED web

Sends(g) ==
  /\ work = "deliver" /\ g \in list
  /\ UNCHANGED <<archiveVars, storeVars>> /\ Apply(g)

Acknowledges(g) ==
  /\ work = "sent" /\ cur = g /\ result = "ok" /\ work' = "deliver"
  /\ queue'[g] = Tail(queue[g]) /\ seq'[g] = seq[g] /\ lastSize'[g] = lastSize[g]
  /\ rec'[g] = IF Item(g).phase = "close" THEN "DONE" ELSE rec[g]
  /\ SameRecord(g) /\ UNCHANGED web

TimesOut(g) ==
  /\ web[g].state = "RECORDING" /\ web' = [web EXCEPT ![g].state = "TIMEDOUT"]
  /\ UNCHANGED <<archiveVars, storeVars>>

Moves(g) ==
  \/ Stays(g) /\ web'[g] = web[g]
  \/ Enters(g) \/ Grows(g) \/ Closes(g) \/ Sends(g) \/ Acknowledges(g) \/ TimesOut(g)

LEMMA Quiet ==
  ASSUME NEW g \in Files, UNCHANGED <<archiveVars, storeVars, web>>
  PROVE  Stays(g) /\ web'[g] = web[g]
  BY DEF Stays, archiveVars, storeVars

LEMMA StepMoves ==
  ASSUME TypeOK, Control, [Next]_vars, NEW g \in Files, LedgerInv(g)
  PROVE  Moves(g)
<1>. USE OutboxAssumption DEF Moves
<1>1. ASSUME NEW f \in Files, Register(f) \/ AdminRegister(f) PROVE Moves(g)
  <2>1. /\ rec[f] = "none" /\ rec' = [rec EXCEPT ![f] = "OPEN"]
        /\ queue' = [queue EXCEPT ![f] = <<Notice("create", 0, 0, "none")>>]
        /\ UNCHANGED <<reason, seq, lastSize, web, size, flawed>>
        /\ archive'[g] = archive[g] \/ (g = f /\ archive[g] = "none")
    BY <1>1 DEF Register, AdminRegister, InsertRecording, archiveVars, TypeOK
  <2>. QED
    BY <2>1 DEF TypeOK, Enters, Stays
<1>2. ASSUME NEW f \in Files, CreateArchive(f) \/ Write(f) \/ TornWrite(f) PROVE Moves(g)
  <2>1. UNCHANGED <<storeVars, web>>
    BY <1>2 DEF CreateArchive, Write, TornWrite
  <2>2. /\ archive[g] = "final" => archive'[g] = "final"
        /\ archive[g] # "writing" => size'[g] = size[g] /\ flawed'[g] = flawed[g]
    <3>1. CASE CreateArchive(f)
      BY <3>1 DEF CreateArchive, TypeOK
    <3>2. CASE Write(f) \/ TornWrite(f)
      BY <3>2 DEF Write, TornWrite, TypeOK
    <3>. QED
      BY <1>2, <3>1, <3>2
  <2>. QED
    BY <2>1, <2>2 DEF Stays, storeVars
<1>3. ASSUME NEW f \in Files, NEW r \in Causes, CloseArchive(f, r) PROVE Moves(g)
  <2>1. [pending EXCEPT ![f] = r] \in [Files -> Reasons]
    BY DEF TypeOK, Reasons
  <2>2. (rec'[g] = rec[g] /\ reason'[g] = reason[g]) \/ (rec[g] = "OPEN" /\ rec'[g] = "CLOSED")
    BY <1>3, <2>1, FlushFacts DEF CloseArchive
  <2>3. archive[g] = "final" => archive'[g] = "final"
    BY <1>3 DEF CloseArchive, TypeOK
  <2>4. UNCHANGED <<size, flawed, seq, lastSize, queue, web>>
    BY <1>3 DEF CloseArchive
  <2>. QED
    BY <2>2, <2>3, <2>4 DEF Stays
<1>4. ASSUME NEW f \in Files, ScanMissing(f) \/ ScanFails(f) PROVE Moves(g)
  <2>1. /\ rec'[g] = rec[g] \/ (g = f /\ rec'[g] = "ERROR")
        /\ UNCHANGED <<archiveVars, reason, seq, lastSize, queue, web>>
    BY <1>4 DEF ScanMissing, ScanFails, BlockFile, TypeOK
  <2>2. rows[f] # "none"
    BY <1>4 DEF ScanMissing, ScanFails
  <2>. QED
    BY <2>1, <2>2 DEF Stays, LedgerInv, archiveVars
<1>5. ASSUME NEW f \in Files, ScanFile(f) \/ NothingToQueue(f) PROVE Moves(g)
  <2>1. UNCHANGED <<archiveVars, storeVars, web>>
    BY <1>5 DEF ScanFile, NothingToQueue, Scanned, storeVars
  <2>. QED
    BY <2>1, Quiet
<1>6. ASSUME NEW f \in Files, EnqueueClose(f) PROVE Moves(g)
  <2>. DEFINE n == Notice("close", seq[f] + 1, seen, CloseReason(f))
  <2>1. /\ work = "scanned" /\ cur = f /\ rows[f] = "CLOSED"
        /\ rec' = [rec EXCEPT ![f] = "FINALIZED"]
        /\ UNCHANGED <<archiveVars, reason, web>>
    BY <1>6 DEF EnqueueClose, Scanned
  <2>2. n.no = seq[f] + 1
    BY DEF Notice
  <2>3. /\ queue' = [queue EXCEPT ![f] = Append(@, n)]
        /\ seq' = [seq EXCEPT ![f] = seq[f] + 1] /\ lastSize' = [lastSize EXCEPT ![f] = seen]
    BY <1>6, <2>2 DEF EnqueueClose, Insert
  <2>. HIDE DEF n
  <2>4. CASE g = f
    <3>1. queue'[g] = Append(queue[g], n) /\ seq'[g] = seq[g] + 1 /\ lastSize'[g] = seen
          /\ rec'[g] = "FINALIZED" /\ SameRecord(g)
      BY <2>1, <2>3, <2>4 DEF TypeOK, SameRecord, archiveVars
    <3>. QED
      BY <3>1, <2>1, <2>4 DEF Closes, n
  <2>5. CASE g # f
    BY <2>1, <2>3, <2>5 DEF Stays, archiveVars, TypeOK
  <2>. QED
    BY <2>4, <2>5
<1>7. ASSUME NEW f \in Files, EnqueueUpdate(f) PROVE Moves(g)
  <2>. DEFINE n == Notice("update", seq[f] + 1, seen, "none")
  <2>1. /\ work = "scanned" /\ cur = f /\ rows[f] = "OPEN" /\ Changed(f) /\ ~HasUpdate(f)
        /\ UNCHANGED <<archiveVars, rec, reason, web>>
    BY <1>7 DEF EnqueueUpdate, Scanned
  <2>2. n.no = seq[f] + 1
    BY DEF Notice
  <2>3. /\ queue' = [queue EXCEPT ![f] = Append(@, n)]
        /\ seq' = [seq EXCEPT ![f] = seq[f] + 1] /\ lastSize' = [lastSize EXCEPT ![f] = seen]
    BY <1>7, <2>2 DEF EnqueueUpdate, Insert
  <2>. HIDE DEF n
  <2>4. CASE g = f
    <3>1. queue'[g] = Append(queue[g], n) /\ seq'[g] = seq[g] + 1 /\ lastSize'[g] = seen
          /\ rec'[g] = rec[g] /\ SameRecord(g)
      BY <2>1, <2>3, <2>4 DEF TypeOK, SameRecord, archiveVars
    <3>. QED
      BY <3>1, <2>1, <2>4 DEF Grows, n
  <2>5. CASE g # f
    BY <2>1, <2>3, <2>5 DEF Stays, archiveVars, TypeOK
  <2>. QED
    BY <2>4, <2>5
<1>8. ASSUME NEW f \in Files, Send(f) PROVE Moves(g)
  <2>1. /\ work = "deliver" /\ f \in list /\ UNCHANGED <<archiveVars, storeVars>>
        /\ (web' = web \/ Apply(f))
    BY <1>8 DEF Send, SendOk, SendLost, SendRefused, SendTerminal, Exchange
  <2>2. CASE web' = web
    BY <2>1, <2>2, Quiet
  <2>3. CASE Apply(f) /\ g = f
    BY <2>1, <2>3 DEF Sends
  <2>4. CASE Apply(f) /\ g # f
    <3>1. web'[g] = web[g]
      BY <2>4 DEF Apply, TypeOK
    <3>. QED
      BY <3>1, <2>1 DEF Stays, archiveVars, storeVars
  <2>. QED
    BY <2>1, <2>2, <2>3, <2>4
<1>9. ASSUME NEW f \in Files, Ack(f) PROVE Moves(g)
  <2>1. /\ work = "sent" /\ cur = f /\ result = "ok" /\ work' = "deliver"
        /\ queue' = [queue EXCEPT ![f] = Tail(@)]
        /\ rec' = [rec EXCEPT ![f] = IF Item(f).phase = "close" THEN "DONE" ELSE @]
        /\ UNCHANGED <<archiveVars, reason, seq, lastSize, web>>
    BY <1>9 DEF Ack, Recorded
  <2>. QED
    BY <2>1 DEF Acknowledges, SameRecord, Stays, archiveVars, TypeOK
<1>10. ASSUME NEW f \in Files, Failed(f) \/ BackoffElapses(f) \/ AdminRetry(f) PROVE Moves(g)
  BY <1>10 DEF Failed, Recorded, BackoffElapses, AdminRetry, Stays, archiveVars
<1>11. ASSUME NEW f \in Files, WebTimeout(f) PROVE Moves(g)
  <2>1. /\ web[f].state = "RECORDING" /\ web' = [web EXCEPT ![f].state = "TIMEDOUT"]
        /\ UNCHANGED <<archiveVars, storeVars>>
    BY <1>11 DEF WebTimeout
  <2>2. g # f => web'[g] = web[g]
    BY <2>1 DEF TypeOK
  <2>. QED
    BY <2>1, <2>2 DEF TimesOut, Stays, archiveVars, storeVars
<1>12. CASE BeginPrepare \/ Finish
  <2>1. pending \in [Files -> Reasons] /\ Flush(pending)
    BY <1>12 DEF TypeOK, BeginPrepare, Finish
  <2>2. (rec'[g] = rec[g] /\ reason'[g] = reason[g]) \/ (rec[g] = "OPEN" /\ rec'[g] = "CLOSED")
    BY <2>1, FlushFacts
  <2>3. UNCHANGED <<archiveVars, seq, lastSize, queue, web>>
    BY <1>12 DEF BeginPrepare, Finish
  <2>. QED
    BY <2>2, <2>3 DEF Stays, archiveVars
<1>13. CASE EndPrepare \/ BeginDeliver \/ EndDeliver \/ PassFails \/ Stop \/ Finished \/ AdminFails
            \/ UNCHANGED vars
  <2>1. UNCHANGED <<archiveVars, storeVars, web>>
    BY <1>13 DEF EndPrepare, BeginDeliver, EndDeliver, PassFails, Stop, Finished, AdminFails, vars
  <2>. QED
    BY <2>1, Quiet
<1>14. CASE Crash
  <2>1. /\ archive[g] = "final" => archive'[g] = "final"
        /\ archive[g] # "writing" => size'[g] = size[g] /\ flawed'[g] = flawed[g]
    BY <1>14 DEF Crash, TypeOK
  <2>2. UNCHANGED <<storeVars, web>>
    BY <1>14 DEF Crash
  <2>. QED
    BY <2>1, <2>2 DEF Stays, storeVars
<1>15. CASE Start \/ StartAdmin
  <2>1. Recover /\ UNCHANGED <<archiveVars, seq, lastSize, queue, web>>
    BY <1>15 DEF Start, StartAdmin
  <2>2. (rec'[g] = rec[g] /\ reason'[g] = reason[g]) \/ (rec[g] = "OPEN" /\ rec'[g] = "CLOSED")
    BY <2>1, RecoverFacts
  <2>. QED
    BY <2>1, <2>2 DEF Stays, archiveVars
<1>16. ASSUME NEW r \in Causes, AdminClose(r) PROVE Moves(g)
  <2>1. /\ proc = "import" /\ cur \in Files
        /\ rec' = [rec EXCEPT ![cur] = "CLOSED"] /\ reason' = [reason EXCEPT ![cur] = r]
        /\ UNCHANGED <<archiveVars, seq, lastSize, queue, web>>
    BY <1>16 DEF AdminClose, Control
  <2>2. cur = g => rec[g] = "OPEN"
    BY <2>1 DEF LedgerInv
  <2>. QED
    BY <2>1, <2>2 DEF Stays, archiveVars, TypeOK
<1>. QED
  BY <1>1, <1>2, <1>3, <1>4, <1>5, <1>6, <1>7, <1>8, <1>9, <1>10, <1>11, <1>12, <1>13, <1>14, <1>15,
     <1>16
  DEF Next, Session, Prepare, Maintain

-----------------------------------------------------------------------------
(* The queue. Its notifications are numbered up to the ledger's sequence and *)
(* grow up to the ledger's size; creation can only be the first and closing  *)
(* the last, and the closing one says what the final archive is.             *)
Members(q) == {q[i] : i \in 1 .. Len(q)}
LastOf(q) == q[Len(q)]

Numbered(q, s) == \A i \in 1 .. Len(q) : q[i].no = s + i - Len(q)

Before(a, b) ==
  /\ a.size <= b.size /\ a.phase # "close" /\ b.phase # "create"
  /\ b.phase = "update" => a.phase # "update" /\ a.size < b.size

Sorted(q) == \A i, j \in 1 .. Len(q) : i < j => Before(q[i], q[j])

LEMMA AppendFacts ==
  ASSUME NEW q \in Seq(Notices), NEW n \in Notices, NEW s \in Nat, Numbered(q, s), Sorted(q),
         n.no = s + 1, \A m \in Members(q) : Before(m, n)
  PROVE  /\ Append(q, n) # <<>> /\ LastOf(Append(q, n)) = n
         /\ Members(Append(q, n)) = Members(q) \cup {n}
         /\ Numbered(Append(q, n), s + 1) /\ Sorted(Append(q, n))
         /\ Head(Append(q, n)) = IF q = <<>> THEN n ELSE Head(q)
<1>1. /\ Len(q) \in Nat /\ Append(q, n) # <<>> /\ Len(Append(q, n)) = Len(q) + 1
      /\ Append(q, n)[Len(q) + 1] = n
      /\ \A i \in 1 .. Len(q) : Append(q, n)[i] = q[i]
  OBVIOUS
<1>2. Members(Append(q, n)) = Members(q) \cup {n}
  BY <1>1 DEF Members
<1>3. Numbered(Append(q, n), s + 1)
  BY <1>1 DEF Numbered
<1>4. Sorted(Append(q, n))
  <2>1. \A i \in 1 .. Len(q) : Before(q[i], n)
    BY DEF Members
  <2>. QED
    BY <1>1, <2>1 DEF Sorted
<1>5. Head(Append(q, n)) = IF q = <<>> THEN n ELSE Head(q)
  OBVIOUS
<1>. QED
  BY <1>1, <1>2, <1>3, <1>4, <1>5 DEF LastOf

LEMMA TailFacts ==
  ASSUME NEW q \in Seq(Notices), q # <<>>, NEW s \in Nat, Numbered(q, s), Sorted(q)
  PROVE  /\ Head(q) \in Members(q) /\ LastOf(q) \in Members(q)
         /\ Members(Tail(q)) \subseteq Members(q)
         /\ Numbered(Tail(q), s) /\ Sorted(Tail(q))
         /\ Tail(q) = <<>> => LastOf(q) = Head(q) /\ Head(q).no = s
         /\ Tail(q) # <<>> => /\ LastOf(Tail(q)) = LastOf(q)
                              /\ Head(Tail(q)).no = Head(q).no + 1
                              /\ Before(Head(q), Head(Tail(q)))
                              /\ Before(Head(q), LastOf(q))
<1>1. /\ Len(q) \in Nat /\ Len(q) > 0 /\ Head(q) = q[1] /\ Len(Tail(q)) = Len(q) - 1
      /\ \A i \in 1 .. Len(q) - 1 : Tail(q)[i] = q[i + 1]
  OBVIOUS
<1>a. Tail(q) = <<>> <=> Len(q) = 1
  <2>1. \A t \in Seq(Notices) : t = <<>> <=> Len(t) = 0
    OBVIOUS
  <2>2. Tail(q) \in Seq(Notices)
    OBVIOUS
  <2>3. Len(Tail(q)) = 0 <=> Len(q) = 1
    BY <1>1
  <2>. QED
    BY <2>1, <2>2, <2>3, Zenon
<1>2. Head(q) \in Members(q) /\ LastOf(q) \in Members(q)
  BY <1>1 DEF Members, LastOf
<1>3. Members(Tail(q)) \subseteq Members(q)
  BY <1>1 DEF Members
<1>4. Numbered(Tail(q), s)
  <2> SUFFICES ASSUME NEW i \in 1 .. Len(Tail(q)) PROVE Tail(q)[i].no = s + i - Len(Tail(q))
    BY DEF Numbered
  <2>1. i + 1 \in 1 .. Len(q) /\ Tail(q)[i] = q[i + 1] /\ i \in Int
    BY <1>1
  <2>2. q[i + 1].no = s + (i + 1) - Len(q)
    BY <2>1 DEF Numbered
  <2>. QED
    BY <2>1, <2>2, <1>1
<1>5. Sorted(Tail(q))
  BY <1>1 DEF Sorted
<1>6. CASE Len(q) = 1
  <2>1. Tail(q) = <<>>
    BY <1>a, <1>6
  <2>2. q[1].no = s
    BY <1>6 DEF Numbered
  <2>. QED
    BY <1>1, <1>2, <1>3, <1>4, <1>5, <1>6, <2>1, <2>2 DEF LastOf
<1>7. CASE Len(q) # 1
  <2>1. Tail(q) # <<>> /\ Tail(q) \in Seq(Notices)
    BY <1>a, <1>7
  <2>2. Head(Tail(q)) = q[2] /\ LastOf(Tail(q)) = LastOf(q)
    BY <1>1, <1>7, <2>1 DEF LastOf
  <2>3. q[2].no = q[1].no + 1
    BY <1>1, <1>7 DEF Numbered
  <2>4. Before(q[1], q[2]) /\ Before(q[1], LastOf(q))
    BY <1>1, <1>7 DEF Sorted, LastOf
  <2>. QED
    BY <1>1, <1>2, <1>3, <1>4, <1>5, <2>1, <2>2, <2>3, <2>4
<1>. QED
  BY <1>6, <1>7

LEMMA OneFacts ==
  ASSUME NEW n, n.no = 0
  PROVE  /\ <<n>> # <<>> /\ LastOf(<<n>>) = n /\ Members(<<n>>) = {n} /\ Head(<<n>>) = n
         /\ Numbered(<<n>>, 0) /\ Sorted(<<n>>)
<1>1. <<n>> # <<>> /\ Len(<<n>>) = 1 /\ <<n>>[1] = n /\ Head(<<n>>) = n
  OBVIOUS
<1>2. \A i \in 1 .. 1 : i = 1
  OBVIOUS
<1>3. LastOf(<<n>>) = n /\ Members(<<n>>) = {n}
  BY <1>1, <1>2 DEF LastOf, Members
<1>4. Numbered(<<n>>, 0) /\ Sorted(<<n>>)
  BY <1>1, <1>2 DEF Numbered, Sorted
<1>. QED
  BY <1>1, <1>3, <1>4

Told(f, n) ==
  /\ n.phase = "create" <=> n.no = 0
  /\ n.phase = "create" => n.size = 0
  /\ n.phase = "update" => n.size > 0 /\ n.size <= lastSize[f]
  /\ n.phase = "close" =>
       /\ rec[f] = "FINALIZED" /\ archive[f] = "final"
       /\ n.size = size[f] /\ n.size = lastSize[f]
       /\ n.reason # "ABORTED" => ~flawed[f] /\ reason[f] # "ABORTED"

Reported(f, s) == s = lastSize[f] \/ (lastSize[f] = -1 /\ s = 0)

QueueInv(f) ==
  /\ Numbered(queue[f], seq[f]) /\ Sorted(queue[f])
  /\ \A n \in Members(queue[f]) : Told(f, n)
  /\ queue[f] # <<>> => Reported(f, LastOf(queue[f]).size)
  /\ rec[f] = "FINALIZED" => queue[f] # <<>> /\ LastOf(queue[f]).phase = "close"
  /\ rec[f] = "DONE" => queue[f] = <<>> /\ lastSize[f] = size[f] /\ archive[f] = "final"

LEMMA MemberFacts ==
  ASSUME TypeOK, NEW f \in Files
  PROVE  /\ queue[f] \in Seq(Notices) /\ seq[f] \in Nat /\ lastSize[f] \in Nat \cup {-1}
         /\ Members(queue[f]) \subseteq Notices
         /\ ~HasUpdate(f) => \A n \in Members(queue[f]) : n.phase # "update"
         /\ queue[f] # <<>> => Item(f) \in Members(queue[f])
<1>1. queue[f] \in Seq(Notices) /\ seq[f] \in Nat /\ lastSize[f] \in Nat \cup {-1}
  BY DEF TypeOK
<1>2. \A i \in 1 .. Len(queue[f]) : queue[f][i] \in Notices
  BY <1>1
<1>3. queue[f] # <<>> => Len(queue[f]) \in Nat \ {0} /\ Head(queue[f]) = queue[f][1]
  BY <1>1
<1>. QED
  BY <1>1, <1>2, <1>3 DEF Members, HasUpdate, Item

LEMMA NoticeFacts ==
  ASSUME NEW n \in Notices
  PROVE  /\ n.no \in Nat /\ n.size \in Nat /\ n.phase \in {"create", "update", "close"}
         /\ n.reason \in Reasons
  BY DEF Notices

LEMMA QueueStep ==
  ASSUME TypeOK, Control, [Next]_vars, NEW g \in Files, LedgerInv(g), ScanInv(g), QueueInv(g)
  PROVE  QueueInv(g)'
<1>. USE OutboxAssumption
<1>0. Moves(g)
  BY StepMoves
<1>a. /\ queue[g] \in Seq(Notices) /\ seq[g] \in Nat /\ lastSize[g] \in Int /\ seen \in Nat
      /\ size[g] \in Nat /\ Members(queue[g]) \subseteq Notices
  BY MemberFacts DEF TypeOK
<1>b. Numbered(queue[g], seq[g]) /\ Sorted(queue[g]) /\ \A n \in Members(queue[g]) : Told(g, n)
  BY DEF QueueInv
<1>1. CASE Stays(g)
  <2>1. queue'[g] = queue[g] /\ seq'[g] = seq[g] /\ lastSize'[g] = lastSize[g]
    BY <1>1 DEF Stays
  <2>2. archive[g] = "final" => archive'[g] = "final" /\ size'[g] = size[g]
                                /\ flawed'[g] = flawed[g]
    BY <1>1 DEF Stays
  <2>3. /\ rec[g] = "FINALIZED" <=> rec'[g] = "FINALIZED"
        /\ rec[g] = "DONE" <=> rec'[g] = "DONE"
        /\ rec[g] = "FINALIZED" => reason'[g] = reason[g]
    BY <1>1 DEF Stays, Open
  <2>4. \A n : Told(g, n) => /\ n.phase = "create" <=> n.no = 0
                             /\ n.phase = "create" => n.size = 0
                             /\ n.phase = "update" => n.size > 0 /\ n.size <= lastSize'[g]
                             /\ n.phase = "close" =>
                                 /\ rec'[g] = "FINALIZED" /\ archive'[g] = "final"
                                 /\ n.size = size'[g] /\ n.size = lastSize'[g]
                                 /\ n.reason # "ABORTED" => ~flawed'[g] /\ reason'[g] # "ABORTED"
    BY <2>1, <2>2, <2>3 DEF Told
  <2>. QED
    BY <2>1, <2>2, <2>3, <2>4 DEF QueueInv, Reported, Told
<1>2. CASE Enters(g)
  <2>. DEFINE n == Notice("create", 0, 0, "none")
  <2>1. queue'[g] = <<n>> /\ seq'[g] = 0 /\ lastSize'[g] = -1 /\ rec'[g] = "OPEN"
    BY <1>2 DEF Enters, LedgerInv
  <2>2. n.no = 0 /\ n.size = 0 /\ n.phase = "create"
    BY DEF Notice
  <2>. HIDE DEF n
  <2>. QED
    BY <2>1, <2>2, OneFacts DEF QueueInv, Told, Reported
<1>3. CASE Grows(g)
  <2>. DEFINE n == Notice("update", seq[g] + 1, seen, "none")
  <2>1. /\ n.no = seq[g] + 1 /\ n.size = seen /\ n.phase = "update" /\ n \in Notices
        /\ queue'[g] = Append(queue[g], n)
    BY <1>3, <1>a DEF Grows, Notice, Notices, Reasons
  <2>. HIDE DEF n
  <2>2. /\ rec'[g] = rec[g] /\ rec[g] # "FINALIZED" /\ rec[g] # "DONE"
        /\ seq'[g] = seq[g] + 1 /\ lastSize'[g] = seen
        /\ seen > lastSize[g] /\ seen > 0 /\ ~HasUpdate(g)
    BY <1>3 DEF Grows, Changed, LedgerInv, Open
  <2>3. \A m \in Members(queue[g]) : m.phase = "create" /\ m.size = 0 /\ m.no = 0
    BY <2>2, <1>a, <1>b, MemberFacts, NoticeFacts DEF Told
  <2>4. \A m \in Members(queue[g]) : Before(m, n)
    BY <2>1, <2>2, <2>3, <1>a DEF Before
  <2>5. /\ queue'[g] # <<>> /\ LastOf(queue'[g]) = n
        /\ Members(queue'[g]) = Members(queue[g]) \cup {n}
        /\ Numbered(queue'[g], seq'[g]) /\ Sorted(queue'[g])
    BY <2>1, <2>2, <2>4, <1>a, <1>b, AppendFacts
  <2>6. \A m \in Members(queue'[g]) : Told(g, m)'
    BY <2>1, <2>2, <2>3, <2>5, <1>a DEF Told
  <2>. QED
    BY <2>1, <2>2, <2>5, <2>6 DEF QueueInv, Reported
<1>4. CASE Closes(g)
  <2>. DEFINE r == CloseReason(g)
  <2>. DEFINE n == Notice("close", seq[g] + 1, seen, r)
  <2>0. r \in Reasons /\ (r # "ABORTED" => result = "valid" /\ reason[g] # "ABORTED")
    BY DEF CloseReason, TypeOK, Reasons, WebReasons
  <2>1. /\ n.no = seq[g] + 1 /\ n.size = seen /\ n.phase = "close" /\ n \in Notices
        /\ n.reason = r /\ queue'[g] = Append(queue[g], n)
    BY <1>4, <1>a, <2>0 DEF Closes, Notice, Notices
  <2>. HIDE DEF n, r
  <2>2. /\ rec'[g] = "FINALIZED" /\ rec[g] = "CLOSED"
        /\ seq'[g] = seq[g] + 1 /\ lastSize'[g] = seen
        /\ archive[g] = "final" /\ seen = size[g] /\ lastSize[g] <= seen
        /\ SameRecord(g)
    BY <1>4 DEF Closes, LedgerInv, ScanInv
  <2>a. n.reason # "ABORTED" => ~flawed'[g] /\ reason'[g] # "ABORTED"
    BY <1>4, <2>0, <2>1, <2>2 DEF Closes, ScanInv, SameRecord
  <2>3. \A m \in Members(queue[g]) :
           /\ m.phase # "close" /\ m.size <= seen /\ m.size \in Nat
           /\ m.phase = "create" <=> m.no = 0
           /\ m.phase = "create" => m.size = 0
           /\ m.phase = "update" => m.size > 0
    BY <2>2, <1>a, <1>b, NoticeFacts DEF Told
  <2>4. \A m \in Members(queue[g]) : Before(m, n)
    BY <2>1, <2>3 DEF Before
  <2>5. /\ queue'[g] # <<>> /\ LastOf(queue'[g]) = n
        /\ Members(queue'[g]) = Members(queue[g]) \cup {n}
        /\ Numbered(queue'[g], seq'[g]) /\ Sorted(queue'[g])
    BY <2>1, <2>2, <2>4, <1>a, <1>b, AppendFacts
  <2>6. \A m \in Members(queue[g]) : Told(g, m)'
    BY <2>2, <2>3 DEF Told
  <2>7. \A m \in {n} : Told(g, m)'
    BY <2>1, <2>2, <2>a, <1>a DEF Told, SameRecord
  <2>8. \A m \in Members(queue'[g]) : Told(g, m)'
    BY <2>5, <2>6, <2>7
  <2>. QED
    BY <2>1, <2>2, <2>5, <2>8 DEF QueueInv, Reported
<1>5. CASE Sends(g) \/ TimesOut(g)
  <2>1. UNCHANGED <<archiveVars, storeVars>>
    BY <1>5 DEF Sends, TimesOut
  <2>. QED
    BY <2>1 DEF archiveVars, storeVars, QueueInv, Told, Reported
<1>6. CASE Acknowledges(g)
  <2>1. /\ queue[g] # <<>> /\ queue'[g] = Tail(queue[g]) /\ seq'[g] = seq[g]
        /\ lastSize'[g] = lastSize[g]
        /\ rec'[g] = IF Item(g).phase = "close" THEN "DONE" ELSE rec[g]
    BY <1>6 DEF Acknowledges, Control
  <2>2. SameRecord(g)
    BY <1>6 DEF Acknowledges
  <2>3. /\ Item(g) \in Members(queue[g]) /\ LastOf(queue[g]) \in Members(queue[g])
        /\ Members(queue'[g]) \subseteq Members(queue[g])
        /\ Numbered(queue'[g], seq'[g]) /\ Sorted(queue'[g])
        /\ queue'[g] = <<>> => LastOf(queue[g]) = Item(g)
        /\ queue'[g] # <<>> => /\ LastOf(queue'[g]) = LastOf(queue[g])
                               /\ Before(Item(g), LastOf(queue[g]))
    BY <2>1, <1>a, <1>b, TailFacts DEF Item
  <2>5. CASE Item(g).phase = "close"
    <3>1. queue'[g] = <<>> /\ rec'[g] = "DONE"
      BY <2>1, <2>3, <2>5 DEF Before
    <3>2. lastSize'[g] = size'[g] /\ archive'[g] = "final"
      BY <2>1, <2>2, <2>3, <2>5, <1>b DEF Told, SameRecord
    <3>3. Members(queue'[g]) = {}
      BY <3>1 DEF Members
    <3>. QED
      BY <2>3, <3>1, <3>2, <3>3 DEF QueueInv
  <2>6. CASE Item(g).phase # "close"
    <3>1. rec'[g] = rec[g]
      BY <2>1, <2>6
    <3>2. \A m \in Members(queue'[g]) : Told(g, m)'
      BY <2>1, <2>2, <2>3, <3>1, <1>b DEF Told, SameRecord
    <3>3. rec[g] = "FINALIZED" => queue'[g] # <<>> /\ LastOf(queue'[g]).phase = "close"
      BY <2>3, <2>6 DEF QueueInv
    <3>4. queue'[g] # <<>> => Reported(g, LastOf(queue[g]).size)'
      BY <2>1, <2>3 DEF QueueInv, Reported
    <3>5. rec[g] # "DONE"
      BY <2>1 DEF QueueInv
    <3>. QED
      BY <2>3, <3>1, <3>2, <3>3, <3>4, <3>5 DEF QueueInv
  <2>. QED
    BY <2>5, <2>6
<1>. QED
  BY <1>0, <1>1, <1>2, <1>3, <1>4, <1>5, <1>6 DEF Moves

-----------------------------------------------------------------------------
(* What the Web holds: it misses the first notification of the queue, or has *)
(* applied it; with nothing queued it holds all the ledger knows.            *)
Live == {"RECORDING", "TIMEDOUT"}

Misses(w, n) ==
  /\ n.no = w.no + 1 /\ w.state \in Live /\ w.size <= n.size
  /\ n.phase = "update" => w.size < n.size

Holds(w, n) ==
  /\ n.no = w.no /\ n.size = w.size
  /\ n.phase = "create" => w.state \in Live \cup {"unknown"}
  /\ n.phase = "update" => w.state \in Live
  /\ n.phase = "close" => w.state = IF n.reason = "ABORTED" THEN "ABORTED" ELSE "READY"

WebInv(f) ==
  /\ queue[f] # <<>> => Misses(web[f], Item(f)) \/ Holds(web[f], Item(f))
  /\ queue[f] = <<>> /\ rec[f] # "none" =>
       /\ web[f].no = seq[f] /\ Reported(f, web[f].size)
       /\ rec[f] # "DONE" => web[f].state \in Live
       /\ rec[f] = "DONE" => /\ web[f].state \in Ended
                             /\ web[f].state = "READY" => reason[f] # "ABORTED"
  /\ web[f].state = "READY" => archive[f] = "final" /\ ~flawed[f] /\ web[f].size = size[f]
  /\ web[f].state = "unknown" => web[f].no = 0 /\ web[f].size = 0

(* A positive answer that waits to be recorded is about what the Web has     *)
(* applied.                                                                  *)
Delivered(f) == work = "sent" /\ cur = f /\ result = "ok" => Applied(f)

LEMMA SentSteps ==
  ASSUME Control, [Next]_vars, work' = "sent"
  PROVE  \/ work = "sent" /\ cur' = cur /\ result' = result
         \/ \E f \in Files : /\ cur' = f /\ work = "deliver" /\ f \in list
                             /\ UNCHANGED storeVars
                             /\ result' = "ok" => web[f].state # "TIMEDOUT" /\ Apply(f)
<1>1. ASSUME NEW f \in Files, Session(f) \/ BackoffElapses(f) \/ WebTimeout(f)
      PROVE  UNCHANGED passVars
  BY <1>1 DEF Session, Register, CreateArchive, Write, TornWrite, CloseArchive, BackoffElapses,
     WebTimeout
<1>2. ASSUME NEW f \in Files, Prepare(f) \/ Ack(f) \/ Failed(f) PROVE FALSE
  BY <1>2 DEF Prepare, ScanMissing, ScanFails, ScanFile, EnqueueClose, EnqueueUpdate,
     NothingToQueue, Scanned, Ack, Failed, Recorded
<1>3. ASSUME NEW f \in Files, Send(f)
      PROVE  /\ cur' = f /\ work = "deliver" /\ f \in list /\ UNCHANGED storeVars
             /\ result' = "ok" => web[f].state # "TIMEDOUT" /\ Apply(f)
  BY <1>3 DEF Send, SendOk, SendLost, SendRefused, SendTerminal, Exchange
<1>4. CASE BeginPrepare \/ EndPrepare \/ BeginDeliver \/ EndDeliver \/ PassFails \/ Finish
           \/ Finished \/ Crash
  BY <1>4 DEF BeginPrepare, EndPrepare, BeginDeliver, EndDeliver, PassFails, Finish, Finished,
     Crash, Idle
<1>5. CASE Stop \/ UNCHANGED vars
  BY <1>5 DEF Stop, vars, passVars
<1>6. CASE Start \/ Maintain
  <2>1. work = "idle" /\ work' = work
    BY <1>6 DEF Control, Start, Maintain, StartAdmin, AdminRetry, AdminRegister, AdminClose,
       AdminFails, passVars
  <2>. QED
    BY <2>1
<1>. QED
  BY <1>1, <1>2, <1>3, <1>4, <1>5, <1>6 DEF Next, passVars

(* What Apply makes of the Web's view. *)
LEMMA ApplyFacts ==
  ASSUME TypeOK, NEW g \in Files, Apply(g)
  PROVE  \/ web'[g] = web[g] /\ (Applied(g) \/ web[g].state = "TIMEDOUT")
         \/ /\ ~Applied(g) /\ web[g].state # "TIMEDOUT"
            /\ web'[g].no = Item(g).no /\ web'[g].size = Item(g).size
            /\ web'[g].state = IF Item(g).phase # "close" THEN "RECORDING"
                               ELSE IF Item(g).reason = "ABORTED" THEN "ABORTED" ELSE "READY"
  BY DEF Apply, TypeOK

LEMMA DeliveredStep ==
  ASSUME TypeOK, Control, [Next]_vars, NEW g \in Files, LedgerInv(g), Delivered(g)
  PROVE  Delivered(g)'
<1> SUFFICES ASSUME work' = "sent", cur' = g, result' = "ok" PROVE Applied(g)'
  BY DEF Delivered
<1>1. CASE work = "sent" /\ cur' = cur /\ result' = result
  <2>1. Applied(g) /\ queue[g] # <<>> /\ rec[g] # "none"
    BY <1>1 DEF Delivered, Control, LedgerInv
  <2>2. CASE Stays(g) /\ web'[g] = web[g]
    BY <2>1, <2>2 DEF Stays, Applied, Item
  <2>3. CASE TimesOut(g)
    <3>1. web[g] \in Held
      BY DEF TypeOK
    <3>2. web'[g].no = web[g].no /\ web'[g].state = "TIMEDOUT"
      BY <2>3, <3>1 DEF TimesOut, TypeOK, Held
    <3>3. queue'[g] = queue[g]
      BY <2>3 DEF TimesOut, storeVars
    <3>. QED
      BY <2>1, <3>2, <3>3 DEF Applied, Item
  <2>4. ~Enters(g) /\ ~Grows(g) /\ ~Closes(g) /\ ~Sends(g) /\ ~Acknowledges(g)
    BY <1>1, <2>1 DEF Enters, Grows, Closes, Sends, Acknowledges
  <2>. QED
    BY <2>2, <2>3, <2>4, StepMoves DEF Moves
<1>2. CASE \E f \in Files : /\ cur' = f /\ work = "deliver" /\ f \in list
                            /\ UNCHANGED storeVars
                            /\ result' = "ok" => web[f].state # "TIMEDOUT" /\ Apply(f)
  <2>1. UNCHANGED storeVars /\ web[g].state # "TIMEDOUT" /\ Apply(g)
    BY <1>2
  <2>2. (web'[g] = web[g] /\ Applied(g)) \/ (/\ web'[g].no = Item(g).no
                                             /\ web'[g].state # "unknown")
    BY <2>1, ApplyFacts
  <2>. QED
    BY <2>1, <2>2 DEF Applied, Item, storeVars
<1>. QED
  BY <1>1, <1>2, SentSteps

LEMMA WebStep ==
  ASSUME TypeOK, Control, [Next]_vars, NEW g \in Files, LedgerInv(g), ScanInv(g), QueueInv(g),
         WebInv(g), Delivered(g)
  PROVE  WebInv(g)'
<1>0. Moves(g)
  BY StepMoves
<1>a. /\ queue[g] \in Seq(Notices) /\ seq[g] \in Nat /\ lastSize[g] \in Int /\ seen \in Nat
      /\ size[g] \in Nat /\ Members(queue[g]) \subseteq Notices
      /\ web[g] \in Held /\ web[g].no \in Nat /\ web[g].size \in Nat
  BY MemberFacts DEF TypeOK, Held
<1>b. Numbered(queue[g], seq[g]) /\ Sorted(queue[g]) /\ \A n \in Members(queue[g]) : Told(g, n)
  BY DEF QueueInv
<1>1. CASE Stays(g) /\ web'[g] = web[g]
  <2>1. queue'[g] = queue[g] /\ seq'[g] = seq[g] /\ lastSize'[g] = lastSize[g]
    BY <1>1 DEF Stays
  <2>2. archive[g] = "final" => archive'[g] = "final" /\ size'[g] = size[g]
                                /\ flawed'[g] = flawed[g]
    BY <1>1 DEF Stays
  <2>3. /\ rec[g] = "none" <=> rec'[g] = "none"
        /\ rec[g] = "DONE" <=> rec'[g] = "DONE"
        /\ rec[g] = "DONE" => reason'[g] = reason[g]
    BY <1>1 DEF Stays, Open
  <2>. QED
    BY <1>1, <2>1, <2>2, <2>3 DEF WebInv, Item, Reported
<1>2. CASE Enters(g)
  <2>. DEFINE n == Notice("create", 0, 0, "none")
  <2>1. /\ queue'[g] = <<n>> /\ web'[g] = web[g]
        /\ web[g].state = "unknown" /\ web[g].no = 0 /\ web[g].size = 0
    BY <1>2 DEF Enters, LedgerInv
  <2>2. n.no = 0 /\ n.size = 0 /\ n.phase = "create"
    BY DEF Notice
  <2>. HIDE DEF n
  <2>3. queue'[g] # <<>> /\ Head(queue'[g]) = n
    BY <2>1, <2>2, OneFacts
  <2>. QED
    BY <2>1, <2>2, <2>3 DEF WebInv, Item, Holds
<1>3. CASE Grows(g)
  <2>. DEFINE n == Notice("update", seq[g] + 1, seen, "none")
  <2>1. /\ n.no = seq[g] + 1 /\ n.size = seen /\ n.phase = "update"
        /\ queue'[g] = Append(queue[g], n)
    BY <1>3 DEF Grows, Notice
  <2>. HIDE DEF n
  <2>2. /\ web'[g] = web[g] /\ rec[g] # "none" /\ rec[g] # "DONE" /\ SameRecord(g)
        /\ seen > lastSize[g] /\ seen > 0
    BY <1>3 DEF Grows, Changed, LedgerInv, Open
  <2>3. queue'[g] # <<>> /\ Head(queue'[g]) = IF queue[g] = <<>> THEN n ELSE Item(g)
    BY <2>1, <1>a DEF Item
  <2>4. queue[g] = <<>> => Misses(web[g], n)
    BY <2>1, <2>2, <1>a DEF WebInv, Misses, Reported
  <2>. QED
    BY <2>2, <2>3, <2>4 DEF WebInv, Item, SameRecord
<1>4. CASE Closes(g)
  <2>. DEFINE n == Notice("close", seq[g] + 1, seen, CloseReason(g))
  <2>1. /\ n.no = seq[g] + 1 /\ n.size = seen /\ n.phase = "close"
        /\ queue'[g] = Append(queue[g], n)
    BY <1>4 DEF Closes, Notice
  <2>. HIDE DEF n
  <2>2. /\ web'[g] = web[g] /\ rec[g] = "CLOSED" /\ SameRecord(g) /\ lastSize[g] <= seen
    BY <1>4 DEF Closes, LedgerInv, ScanInv
  <2>3. queue'[g] # <<>> /\ Head(queue'[g]) = IF queue[g] = <<>> THEN n ELSE Item(g)
    BY <2>1, <1>a DEF Item
  <2>4. queue[g] = <<>> => Misses(web[g], n)
    BY <2>1, <2>2, <1>a DEF WebInv, Misses, Reported
  <2>. QED
    BY <2>2, <2>3, <2>4 DEF WebInv, Item, SameRecord
<1>5. CASE Sends(g)
  <2>1. /\ Apply(g) /\ queue[g] # <<>> /\ queue'[g] = queue[g] /\ seq'[g] = seq[g]
        /\ archive'[g] = archive[g] /\ flawed'[g] = flawed[g] /\ size'[g] = size[g]
    BY <1>5 DEF Sends, Control, archiveVars, storeVars
  <2>2. CASE web'[g] = web[g]
    BY <2>1, <2>2 DEF WebInv, Item
  <2>3. CASE /\ ~Applied(g) /\ web[g].state # "TIMEDOUT"
             /\ web'[g].no = Item(g).no /\ web'[g].size = Item(g).size
             /\ web'[g].state = IF Item(g).phase # "close" THEN "RECORDING"
                                ELSE IF Item(g).reason = "ABORTED" THEN "ABORTED" ELSE "READY"
    <3>1. Item(g) \in Members(queue[g]) /\ Item(g) \in Notices
      BY <2>1, <1>a, MemberFacts
    <3>2. Holds(web'[g], Item(g))
      BY <2>3, <3>1, NoticeFacts DEF Holds, Live
    <3>3. web'[g].state = "READY" => archive[g] = "final" /\ ~flawed[g] /\ web'[g].size = size[g]
      BY <2>3, <3>1, <1>b DEF Told
    <3>4. web'[g].state # "unknown"
      BY <2>3
    <3>. QED
      BY <2>1, <3>2, <3>3, <3>4 DEF WebInv, Item
  <2>. QED
    BY <2>1, <2>2, <2>3, ApplyFacts
<1>6. CASE Acknowledges(g)
  <2>1. /\ queue[g] # <<>> /\ queue'[g] = Tail(queue[g]) /\ seq'[g] = seq[g]
        /\ lastSize'[g] = lastSize[g] /\ web'[g] = web[g]
        /\ rec'[g] = IF Item(g).phase = "close" THEN "DONE" ELSE rec[g]
        /\ Applied(g)
    BY <1>6 DEF Acknowledges, Control, Delivered
  <2>2. SameRecord(g)
    BY <1>6 DEF Acknowledges
  <2>3. /\ Item(g) \in Members(queue[g]) /\ Item(g) \in Notices
        /\ queue'[g] = <<>> => LastOf(queue[g]) = Item(g) /\ Item(g).no = seq[g]
        /\ queue'[g] # <<>> => /\ Head(queue'[g]).no = Item(g).no + 1
                               /\ Before(Item(g), Head(queue'[g]))
    BY <2>1, <1>a, <1>b, TailFacts DEF Item
  <2>4. Told(g, Item(g))
    BY <2>3, <1>b
  <2>5. Holds(web[g], Item(g))
    BY <2>1, <2>3, <2>4, <1>a, NoticeFacts DEF WebInv, Applied, Misses, Told
  <2>6. Item(g).phase # "close" => web[g].state \in Live
    BY <2>1, <2>3, <2>5, NoticeFacts DEF Holds, Applied
  <2>7. queue'[g] # <<>> => Misses(web'[g], Head(queue'[g]))
    BY <2>1, <2>3, <2>5, <2>6 DEF Misses, Holds, Before
  <2>8. queue'[g] = <<>> => web'[g].no = seq'[g] /\ Reported(g, web[g].size)
    BY <2>1, <2>3, <2>5 DEF Holds, QueueInv
  <2>9. Item(g).phase = "close" => /\ web[g].state \in Ended
                                   /\ web[g].state = "READY" => reason[g] # "ABORTED"
    BY <2>4, <2>5 DEF Holds, Told, Ended
  <2>10. rec[g] # "DONE"
    BY <2>1 DEF QueueInv
  <2>11. /\ web[g].state = "READY" => archive[g] = "final" /\ ~flawed[g] /\ web[g].size = size[g]
         /\ web[g].state = "unknown" => web[g].no = 0 /\ web[g].size = 0
    BY DEF WebInv
  <2>12. queue'[g] = <<>> =>
           /\ web'[g].no = seq'[g] /\ Reported(g, web[g].size)'
           /\ rec'[g] # "DONE" => web'[g].state \in Live
           /\ rec'[g] = "DONE" => /\ web'[g].state \in Ended
                                  /\ web'[g].state = "READY" => reason'[g] # "ABORTED"
    BY <2>1, <2>2, <2>6, <2>8, <2>9, <2>10 DEF Reported, SameRecord
  <2>. QED
    BY <2>1, <2>2, <2>7, <2>11, <2>12 DEF WebInv, Item, SameRecord
<1>7. CASE TimesOut(g)
  <2>1. web'[g].no = web[g].no /\ web'[g].size = web[g].size /\ web'[g].state = "TIMEDOUT"
        /\ web[g].state = "RECORDING"
    BY <1>7, <1>a DEF TimesOut, TypeOK, Held
  <2>2. queue'[g] = queue[g] /\ seq'[g] = seq[g] /\ rec'[g] = rec[g] /\ lastSize'[g] = lastSize[g]
    BY <1>7 DEF TimesOut, storeVars
  <2>3. queue[g] # <<>> => Misses(web'[g], Item(g)) \/ Holds(web'[g], Item(g))
    BY <2>1 DEF WebInv, Misses, Holds, Live
  <2>4. queue[g] = <<>> => rec[g] # "DONE"
    BY <2>1 DEF WebInv, LedgerInv, Ended
  <2>. QED
    BY <2>1, <2>2, <2>3, <2>4 DEF WebInv, Item, Reported, Live
<1>. QED
  BY <1>0, <1>1, <1>2, <1>3, <1>4, <1>5, <1>6, <1>7 DEF Moves

(* While a scan is good for delivery, what was queued of a file is stored.   *)
Intact(f) ==
  fresh \/ work \in {"prepare", "scanned"} =>
    rec[f] = "ERROR" \/ rows[f] # "none" \/ lastSize[f] <= size[f]

LEMMA IntactStep ==
  ASSUME TypeOK, Control, [Next]_vars, NEW g \in Files, LedgerInv(g), ScanInv(g), QueueInv(g),
         Intact(g)
  PROVE  Intact(g)'
<1>. USE OutboxAssumption
<1>a. size[g] \in Nat /\ lastSize[g] \in Int /\ seen \in Nat /\ (rec[g] = "ERROR" => rec'[g] = "ERROR")
  <2>1. size[g] \in Nat /\ lastSize[g] \in Int /\ seen \in Nat
    BY DEF TypeOK
  <2>2. rec[g] = "ERROR" => rec'[g] = "ERROR"
    BY StepMoves DEF Moves, Stays, Enters, Grows, Closes, Sends, Acknowledges, TimesOut, LedgerInv,
       Open, QueueInv, Told, storeVars, Control
  <2>. QED
    BY <2>1, <2>2
<1>1. ASSUME NEW f \in Files, Session(f) PROVE Intact(g)'
  <2>1. rows' = rows /\ work' = work /\ fresh' = fresh
    BY <1>1 DEF Session, Register, CreateArchive, Write, TornWrite, CloseArchive, passVars
  <2>2. lastSize' = lastSize
    BY <1>1 DEF Session, Register, InsertRecording, CreateArchive, Write, TornWrite, CloseArchive,
       storeVars
  <2>3. size'[g] \in Int /\ size'[g] >= size[g]
    <3>1. size' = size \/ Write(f)
      BY <1>1 DEF Session, Register, CreateArchive, TornWrite, CloseArchive
    <3>2. Write(f) => size'[g] = size[g] \/ size'[g] = size[g] + 1
      BY DEF Write, TypeOK
    <3>. QED
      BY <3>1, <3>2, <1>a
  <2>. QED
    BY <2>1, <2>2, <2>3, <1>a DEF Intact
<1>2. ASSUME NEW f \in Files, ScanMissing(f) \/ ScanFails(f) PROVE Intact(g)'
  <2>1. /\ UNCHANGED <<archiveVars, lastSize, work, fresh>> /\ rows[f] # "none" /\ work = "prepare"
        /\ rows' = [rows EXCEPT ![f] = "none"]
    BY <1>2 DEF ScanMissing, ScanFails
  <2>2. rec'[f] = "ERROR" \/ archive[f] \notin {"writing", "final"}
    BY <1>2 DEF ScanMissing, ScanFails, BlockFile, TypeOK
  <2>3. g = f /\ archive[f] \notin {"writing", "final"} => lastSize[g] <= size[g]
    BY <1>a DEF LedgerInv, TypeOK
  <2>4. g # f => rows'[g] = rows[g]
    BY <2>1 DEF TypeOK
  <2>. QED
    BY <2>1, <2>2, <2>3, <2>4, <1>a DEF Intact, archiveVars
<1>3. ASSUME NEW f \in Files, ScanFile(f) PROVE Intact(g)'
  BY <1>3 DEF ScanFile, Intact, archiveVars, storeVars
<1>4. ASSUME NEW f \in Files, Scanned(f), EnqueueClose(f) \/ EnqueueUpdate(f) \/ NothingToQueue(f)
      PROVE  Intact(g)'
  <2>1. /\ work = "scanned" /\ work' = "prepare" /\ cur = f /\ UNCHANGED <<archiveVars, fresh>>
        /\ rows' = [rows EXCEPT ![f] = "none"]
    BY <1>4 DEF Scanned
  <2>2. lastSize' = lastSize \/ lastSize' = [lastSize EXCEPT ![f] = seen]
    BY <1>4 DEF EnqueueClose, EnqueueUpdate, NothingToQueue, Insert
  <2>3. g = f => lastSize'[g] <= size[g]
    BY <2>1, <2>2, <1>a DEF ScanInv, TypeOK
  <2>4. g # f => rows'[g] = rows[g] /\ lastSize'[g] = lastSize[g]
    BY <2>1, <2>2 DEF TypeOK
  <2>. QED
    BY <2>1, <2>3, <2>4, <1>a DEF Intact, archiveVars
<1>5. ASSUME NEW f \in Files,
             Send(f) \/ Ack(f) \/ Failed(f) \/ BackoffElapses(f) \/ WebTimeout(f) \/ AdminRetry(f)
      PROVE  Intact(g)'
  <2>1. /\ UNCHANGED <<archiveVars, lastSize, rows, fresh>>
        /\ work' = work \/ work' \notin {"prepare", "scanned"}
    BY <1>5 DEF Send, SendOk, SendLost, SendRefused, SendTerminal, Exchange, Ack, Failed, Recorded,
       BackoffElapses, WebTimeout, AdminRetry, storeVars, passVars
  <2>. QED
    BY <2>1, <1>a DEF Intact, archiveVars
<1>6. CASE BeginPrepare \/ Finish
  <2>1. pending \in [Files -> Reasons] /\ Flush(pending)
    BY <1>6 DEF TypeOK, BeginPrepare, Finish
  <2>2. rec'[g] = rec[g] \/ (rec[g] = "OPEN" /\ rec'[g] = "CLOSED")
    BY <2>1, FlushFacts
  <2>3. /\ rows'[g] = IF rec'[g] \in Open THEN rec'[g] ELSE "none"
        /\ UNCHANGED <<archiveVars, lastSize>>
    BY <1>6 DEF BeginPrepare, Finish
  <2>4. rec[g] \in RecStates
    BY DEF TypeOK
  <2>5. rec[g] = "none" => lastSize[g] <= size[g]
    BY <1>a DEF LedgerInv
  <2>6. rec[g] = "FINALIZED" => lastSize[g] <= size[g]
    <3>1. rec[g] = "FINALIZED" => LastOf(queue[g]) \in Members(queue[g])
      BY MemberFacts, TailFacts DEF QueueInv
    <3>. QED
      BY <3>1, <1>a DEF QueueInv, Told
  <2>7. rec[g] = "DONE" => lastSize[g] <= size[g]
    BY <1>a DEF QueueInv
  <2>. QED
    BY <2>2, <2>3, <2>4, <2>5, <2>6, <2>7 DEF Intact, archiveVars, Open, RecStates
<1>7. CASE EndPrepare \/ BeginDeliver \/ Stop \/ UNCHANGED vars
  <2>1. /\ UNCHANGED <<archiveVars, storeVars, rows>>
        /\ fresh \/ work \in {"prepare", "scanned"} \/ UNCHANGED <<fresh, work>>
    BY <1>7, AllType DEF EndPrepare, BeginDeliver, Stop, Control, vars, passVars
  <2>. QED
    BY <2>1, <1>a DEF Intact, archiveVars, storeVars
<1>8. CASE EndDeliver \/ PassFails \/ Finished
  <2>1. /\ UNCHANGED <<archiveVars, storeVars, fresh>> /\ Idle
    BY <1>8 DEF EndDeliver, PassFails, Finished
  <2>2. fresh => rows[g] = "none"
    BY DEF Control, TypeOK
  <2>. QED
    BY <2>1, <2>2, <1>a DEF Intact, archiveVars, storeVars, Idle
<1>9. CASE Crash
  BY <1>9 DEF Crash, Idle, Intact
<1>10. CASE Start \/ Maintain
  <2>1. UNCHANGED <<archiveVars, lastSize, work, fresh, rows>>
    <3>1. CASE Start \/ StartAdmin
      BY <3>1 DEF Start, StartAdmin, passVars
    <3>2. CASE \E f \in Files : AdminRetry(f) \/ AdminRegister(f)
      BY <3>2 DEF AdminRetry, AdminRegister, InsertRecording, passVars
    <3>3. CASE AdminFails \/ \E r \in Causes : AdminClose(r)
      BY <3>3 DEF AdminClose, AdminFails, storeVars
    <3>. QED
      BY <1>10, <3>1, <3>2, <3>3 DEF Maintain
  <2>. QED
    BY <2>1, <1>a DEF Intact, archiveVars
<1>. QED
  BY <1>1, <1>2, <1>3, <1>4, <1>5, <1>6, <1>7, <1>8, <1>9, <1>10
  DEF Next, Prepare, EnqueueClose, EnqueueUpdate, NothingToQueue

-----------------------------------------------------------------------------
FileInv(f) == LedgerInv(f) /\ ScanInv(f) /\ QueueInv(f) /\ WebInv(f) /\ Delivered(f) /\ Intact(f)

IndInv == TypeOK /\ Control /\ \A f \in Files : FileInv(f)

LEMMA InitHolds == Init => IndInv
<1> SUFFICES ASSUME Init PROVE IndInv
  OBVIOUS
<1>. USE OutboxAssumption
<1>1. TypeOK
  <2>1. [state |-> "unknown", no |-> 0, size |-> 0] \in Held
    BY DEF Held, WebStates
  <2>2. size \in [Files -> Nat] /\ archive \in [Files -> {"none", "final"}]
    BY DEF Init
  <2>3. web \in [Files -> Held] /\ queue \in [Files -> Seq(Notices)]
    BY <2>1 DEF Init, All
  <2>. QED
    BY <2>2, <2>3 DEF Init, All, TypeOK, RecStates, Reasons
<1>2. Control
  BY DEF Init, Control, All
<1>3. ASSUME NEW f \in Files PROVE FileInv(f)
  <2>1. /\ archive[f] \in {"none", "final"} /\ (archive[f] = "none" => size[f] = 0)
        /\ rec[f] = "none" /\ seq[f] = 0 /\ lastSize[f] = -1 /\ queue[f] = <<>> /\ head[f] = "due"
        /\ pending[f] = "none" /\ rows[f] = "none" /\ web[f].state = "unknown"
        /\ web[f].no = 0 /\ web[f].size = 0
    BY DEF Init, All
  <2>2. work = "idle" /\ fresh = FALSE /\ proc = "up"
    BY DEF Init
  <2>3. Members(<<>>) = {} /\ Numbered(<<>>, 0) /\ Sorted(<<>>)
    BY DEF Members, Numbered, Sorted
  <2>. QED
    BY <2>1, <2>2, <2>3 DEF FileInv, LedgerInv, ScanInv, QueueInv, WebInv, Delivered, Intact, Open
<1>. QED
  BY <1>1, <1>2, <1>3 DEF IndInv

LEMMA ClosingItem ==
  ASSUME TypeOK, NEW f \in Files, QueueInv(f)
  PROVE  queue[f] # <<>> /\ Item(f).phase = "close" => rec[f] = "FINALIZED"
  BY MemberFacts DEF QueueInv, Told

LEMMA StepHolds == IndInv /\ [Next]_vars => IndInv'
<1> SUFFICES ASSUME IndInv, [Next]_vars PROVE IndInv'
  OBVIOUS
<1>1. TypeOK /\ Control /\ TypeOK' /\ Control'
  BY TypeStep, ControlStep DEF IndInv
<1>2. ASSUME NEW f \in Files PROVE FileInv(f)'
  <2>1. LedgerInv(f) /\ ScanInv(f) /\ QueueInv(f) /\ WebInv(f) /\ Delivered(f) /\ Intact(f)
    BY DEF IndInv, FileInv
  <2>2. LedgerInv(f)'
    BY <1>1, <2>1, ClosingItem, LedgerStep
  <2>3. ScanInv(f)' /\ QueueInv(f)'
    BY <1>1, <2>1, ScanStep, QueueStep
  <2>4. WebInv(f)' /\ Delivered(f)' /\ Intact(f)'
    BY <1>1, <2>1, WebStep, DeliveredStep, IntactStep
  <2>. QED
    BY <2>2, <2>3, <2>4 DEF FileInv
<1>. QED
  BY <1>1, <1>2 DEF IndInv

(* The ledger, its queue and the Web's view agree, whatever happens.         *)
THEOREM Invariance == Spec => []IndInv
  BY InitHolds, StepHolds, PTL DEF Spec

(* The variables keep their types.                                           *)
THEOREM TypeCorrect == Spec => []TypeOK
<1>1. IndInv => TypeOK
  BY DEF IndInv
<1>. QED
  BY <1>1, Invariance, PTL

-----------------------------------------------------------------------------
(* What is sent next is what the Web is missing, or the last it applied.     *)
THEOREM NextMissing == Spec => []NextIsMissing
<1>1. ASSUME IndInv PROVE NextIsMissing
  <2> SUFFICES ASSUME NEW f \in Files, web[f].state # "TIMEDOUT", queue[f] # <<>>
               PROVE  \/ Item(f).no = web[f].no + 1 /\ web[f].state = "RECORDING"
                      \/ Item(f).no = web[f].no
    BY DEF NextIsMissing
  <2>1. WebInv(f)
    BY <1>1 DEF IndInv, FileInv
  <2>. QED
    BY <2>1 DEF WebInv, Misses, Holds, Live
<1>. QED
  BY <1>1, Invariance, PTL

(* Nothing is dropped: a closed recording waits for its closing notification *)
(* to be acknowledged, and one that is done is known to the Web.             *)
THEOREM NoneDropped == Spec => []NothingDropped
<1>1. ASSUME IndInv PROVE NothingDropped
  <2> SUFFICES ASSUME NEW f \in Files
               PROVE  /\ rec[f] = "FINALIZED" => /\ queue[f] # <<>>
                                                 /\ queue[f][Len(queue[f])].phase = "close"
                      /\ rec[f] = "DONE" => /\ queue[f] = <<>> /\ web[f].state \in Ended
                                            /\ web[f].state = "READY" => reason[f] # "ABORTED"
    BY DEF NothingDropped
  <2>1. QueueInv(f) /\ WebInv(f)
    BY <1>1 DEF IndInv, FileInv
  <2>. QED
    BY <2>1 DEF QueueInv, WebInv, LastOf
<1>. QED
  BY <1>1, Invariance, PTL

(* The Web is told READY only of a final, sound archive and with its size.   *)
THEOREM ReadySound == Spec => []ReadyIsSound
<1>1. IndInv => ReadyIsSound
  BY DEF IndInv, FileInv, WebInv, ReadyIsSound
<1>. QED
  BY <1>1, Invariance, PTL

(* The queue keeps the order the Web needs.                                  *)
THEOREM QueueInOrder == Spec => []QueueOrdered
<1>1. ASSUME IndInv PROVE QueueOrdered
  <2> SUFFICES ASSUME NEW f \in Files
               PROVE  LET q == queue[f] IN
                        /\ \A i, j \in 1 .. Len(q) : i < j =>
                             /\ q[i].no < q[j].no /\ q[i].size <= q[j].size
                             /\ q[i].phase # "close" /\ q[j].phase # "create"
                             /\ ~(q[i].phase = "update" /\ q[j].phase = "update")
                        /\ \A i \in 1 .. Len(q) : q[i].no = seq[f] + i - Len(q)
    BY DEF QueueOrdered
  <2>. DEFINE q == queue[f]
  <2>1. /\ Numbered(q, seq[f]) /\ Sorted(q)
        /\ q \in Seq(Notices) /\ Len(q) \in Nat /\ seq[f] \in Nat
    BY <1>1 DEF IndInv, FileInv, QueueInv, TypeOK
  <2>. HIDE DEF q
  <2>2. \A i \in 1 .. Len(q) : q[i].no = seq[f] + i - Len(q)
    BY <2>1 DEF Numbered
  <2>3. \A i, j \in 1 .. Len(q) : i < j => q[i].no < q[j].no
    BY <2>1, <2>2
  <2>4. \A i, j \in 1 .. Len(q) : i < j =>
           /\ q[i].size <= q[j].size
           /\ q[i].phase # "close" /\ q[j].phase # "create"
           /\ ~(q[i].phase = "update" /\ q[j].phase = "update")
    BY <2>1 DEF Sorted, Before
  <2>. QED
    BY <2>2, <2>3, <2>4 DEF q
<1>. QED
  BY <1>1, Invariance, PTL

(* A notification leaves the outbox only when the Web holds it.              *)
THEOREM AcknowledgedApplied == Spec => AcknowledgedIsApplied
<1>. DEFINE Kept == \A f \in Files :
       \/ queue'[f] = queue[f]
       \/ /\ Len(queue'[f]) = Len(queue[f]) + 1
          /\ SubSeq(queue'[f], 1, Len(queue[f])) = queue[f]
       \/ queue[f] # <<>> /\ queue'[f] = Tail(queue[f]) /\ Applied(f)
<1>1. IndInv /\ [Next]_vars => Kept
  <2> SUFFICES ASSUME IndInv, [Next]_vars, NEW f \in Files
               PROVE  \/ queue'[f] = queue[f]
                      \/ /\ Len(queue'[f]) = Len(queue[f]) + 1
                         /\ SubSeq(queue'[f], 1, Len(queue[f])) = queue[f]
                      \/ queue[f] # <<>> /\ queue'[f] = Tail(queue[f]) /\ Applied(f)
    OBVIOUS
  <2>1. TypeOK /\ Control /\ LedgerInv(f) /\ Delivered(f)
    BY DEF IndInv, FileInv
  <2>2. Moves(f)
    BY <2>1, StepMoves
  <2>3. CASE \E n : queue'[f] = Append(queue[f], n)
    <3>1. PICK n : queue'[f] = Append(queue[f], n)
      BY <2>3
    <3>2. queue[f] \in Seq(Notices)
      BY <2>1 DEF TypeOK
    <3>3. \A q \in Seq(Notices) : /\ Len(Append(q, n)) = Len(q) + 1
                                  /\ SubSeq(Append(q, n), 1, Len(q)) = q
      OBVIOUS
    <3>. QED
      BY <3>1, <3>2, <3>3
  <2>4. CASE Enters(f)
    <3>1. queue[f] = <<>> /\ queue'[f] = <<Notice("create", 0, 0, "none")>>
      BY <2>1, <2>4 DEF Enters, LedgerInv
    <3>. QED
      BY <3>1
  <2>5. CASE Acknowledges(f)
    BY <2>1, <2>5 DEF Acknowledges, Delivered, Control
  <2>6. CASE Stays(f) \/ Sends(f) \/ TimesOut(f)
    BY <2>6 DEF Stays, Sends, TimesOut, storeVars
  <2>. QED
    BY <2>2, <2>3, <2>4, <2>5, <2>6 DEF Moves, Grows, Closes
<1>. QED
  BY <1>1, Invariance, PTL DEF Spec, AcknowledgedIsApplied, Kept

(* What the Web refused for good stays at the head of its queue.             *)
THEOREM TerminalFinal == Spec => TerminalIsFinal
<1>. DEFINE Kept == \A f \in Files : head[f] = "terminal" =>
       head'[f] = "terminal" /\ queue'[f] # <<>> /\ Head(queue'[f]) = Head(queue[f])
<1>1. IndInv /\ [Next]_vars => Kept
  <2> SUFFICES ASSUME IndInv, [Next]_vars, NEW f \in Files, head[f] = "terminal"
               PROVE  head'[f] = "terminal" /\ queue'[f] # <<>> /\ Head(queue'[f]) = Head(queue[f])
    OBVIOUS
  <2>1. TypeOK /\ Control /\ LedgerInv(f)
    BY DEF IndInv, FileInv
  <2>2. Moves(f) /\ queue[f] # <<>> /\ rec[f] # "none" /\ f \notin list
    BY <2>1, StepMoves DEF LedgerInv, Control
  <2>3. ~Enters(f) /\ ~Acknowledges(f)
    BY <2>1, <2>2 DEF Enters, Acknowledges, Control
  <2>4. queue'[f] = queue[f] \/ \E n : queue'[f] = Append(queue[f], n)
    BY <2>2, <2>3 DEF Moves, Stays, Grows, Closes, Sends, TimesOut, storeVars
  <2>5. queue'[f] # <<>> /\ Head(queue'[f]) = Head(queue[f])
    <3>1. queue[f] \in Seq(Notices)
      BY <2>1 DEF TypeOK
    <3>2. \A q \in Seq(Notices) : \A n : q # <<>> => Append(q, n) # <<>> /\ Head(Append(q, n)) = Head(q)
      OBVIOUS
    <3>. QED
      BY <2>2, <2>4, <3>1, <3>2
  <2>6. head'[f] = "terminal"
    <3>1. ASSUME NEW g \in Files, Ack(g) \/ Failed(g) PROVE head'[f] = head[f]
      BY <3>1, <2>1, <2>2 DEF Ack, Failed, Recorded, Control, TypeOK
    <3>2. ASSUME NEW g \in Files, BackoffElapses(g) \/ AdminRetry(g) PROVE head'[f] = head[f]
      BY <3>2, <2>1 DEF BackoffElapses, AdminRetry, Retryable, TypeOK
    <3>3. ASSUME NEW g \in Files, Session(g) \/ Prepare(g) \/ Send(g) \/ WebTimeout(g)
          PROVE  head' = head
      BY <3>3 DEF Session, Register, InsertRecording, CreateArchive, Write, TornWrite, CloseArchive,
         Prepare, ScanMissing, ScanFails, ScanFile, EnqueueClose, EnqueueUpdate, NothingToQueue,
         Scanned, Send, SendOk, SendLost, SendRefused, SendTerminal, Exchange, WebTimeout, storeVars
    <3>4. ASSUME \/ BeginPrepare \/ EndPrepare \/ BeginDeliver \/ EndDeliver \/ PassFails
                 \/ Stop \/ Finish \/ Finished \/ Crash \/ Start
          PROVE  head' = head
      BY <3>4 DEF BeginPrepare, EndPrepare, BeginDeliver, EndDeliver, PassFails, Stop, Finish,
         Finished, Crash, Start, storeVars
    <3>5. ASSUME \/ StartAdmin \/ (\E g \in Files : AdminRegister(g))
                 \/ (\E r \in Causes : AdminClose(r)) \/ AdminFails \/ UNCHANGED vars
          PROVE  head' = head
      BY <3>5 DEF StartAdmin, AdminRegister, InsertRecording, AdminClose, AdminFails, vars, storeVars
    <3>. QED
      BY <3>1, <3>2, <3>3, <3>4, <3>5 DEF Next, Maintain
  <2>. QED
    BY <2>5, <2>6
<1>. QED
  BY <1>1, Invariance, PTL DEF Spec, TerminalIsFinal, Kept

-----------------------------------------------------------------------------
(* Outbox implements ReportingPromise.                                       *)
ToldOf(s) == CASE s = "unknown"   -> "nothing"
               [] s = "RECORDING" -> "recording"
               [] s = "TIMEDOUT"  -> "lapsed"
               [] OTHER           -> "ended"

LEMMA Mapping ==
  /\ told = [f \in Files |-> ToldOf(web[f].state)] /\ known = [f \in Files |-> web[f].size]
  /\ stored = [f \in Files |->
                IF archive[f] \in {"writing", "final"} THEN archive[f] ELSE "absent"]
  BY DEF told, known, stored, ToldOf

LEMMA ToldFacts ==
  /\ ToldOf("unknown") = "nothing" /\ ToldOf("RECORDING") = "recording"
  /\ ToldOf("TIMEDOUT") = "lapsed" /\ ToldOf("READY") = "ended" /\ ToldOf("ABORTED") = "ended"
  BY DEF ToldOf

(* What the Web is told in one exchange is one step of the promise. *)
LEMMA ApplyImplements ==
  ASSUME IndInv, NEW f \in Files, work = "deliver", f \in list, Apply(f),
         UNCHANGED <<archive, size>>
  PROVE  [Promise!Next]_Promise!promiseVars
<1>a. /\ TypeOK /\ Control /\ LedgerInv(f) /\ QueueInv(f) /\ WebInv(f) /\ Intact(f)
      /\ size[f] \in Nat /\ web[f] \in Held /\ web \in [Files -> Held]
  BY DEF IndInv, FileInv, TypeOK
<1>b. /\ queue[f] # <<>> /\ Item(f) \in Members(queue[f]) /\ Item(f) \in Notices /\ Told(f, Item(f))
      /\ Item(f).no \in Nat /\ Item(f).size \in Nat /\ web[f].size \in Nat
      /\ Item(f).phase \in {"create", "update", "close"}
      /\ Misses(web[f], Item(f)) \/ Holds(web[f], Item(f))
  BY <1>a, MemberFacts, NoticeFacts DEF Control, QueueInv, WebInv, Held
<1>. DEFINE n == Item(f).size
            s == IF Item(f).phase # "close" THEN "RECORDING"
                 ELSE IF Item(f).reason = "ABORTED" THEN "ABORTED" ELSE "READY"
<1>1. stored' = stored /\ size' = size
  BY DEF stored
<1>2. CASE web' = web
  BY <1>1, <1>2, Mapping DEF Promise!promiseVars, told, known
<1>3. CASE web' # web
  <2>1. /\ ~Applied(f) /\ web[f].state # "TIMEDOUT"
        /\ web' = [web EXCEPT ![f] = [state |-> s, no |-> Item(f).no, size |-> n]]
    BY <1>3 DEF Apply
  <2>. HIDE DEF n, s
  <2>2. web'[f].state = s /\ web'[f].size = n /\ \A g \in Files \ {f} : web'[g] = web[g]
    BY <2>1, <1>a
  <2>3. told' = [told EXCEPT ![f] = ToldOf(s)] /\ known' = [known EXCEPT ![f] = n]
    <3>1. told' = [g \in Files |-> ToldOf(web'[g].state)] /\ known' = [g \in Files |-> web'[g].size]
      BY DEF told, known, ToldOf
    <3>. QED
      BY <3>1, <2>2, Mapping
  <2>4. told[f] = ToldOf(web[f].state) /\ known[f] = web[f].size
    BY Mapping
  <2>5. CASE Item(f).phase = "create"
    <3>1. web[f].state = "unknown" /\ n = 0 /\ web[f].size = 0 /\ s = "RECORDING"
      BY <2>1, <2>5, <1>a, <1>b DEF Applied, WebInv, Told, n, s
    <3>2. known' = known
      BY <3>1, <2>3, <2>4, Mapping
    <3>. QED
      BY <3>1, <3>2, <2>3, <2>4, <1>1, ToldFacts DEF Promise!Next, Promise!Announce
  <2>6. CASE Item(f).phase # "create"
    <3>1. Misses(web[f], Item(f)) /\ web[f].state = "RECORDING"
      BY <2>1, <2>6, <1>b DEF Applied, Holds, Misses, Live
    <3>2. CASE Item(f).phase = "update"
      <4>1. n \in web[f].size + 1 .. size[f] /\ n \in 0 .. size[f] /\ s = "RECORDING"
        <5>1. web[f].size < n /\ n <= lastSize[f]
          BY <3>1, <3>2, <1>b DEF Misses, Told, n
        <5>2. lastSize[f] <= size[f] /\ lastSize[f] \in Int
          BY <1>a DEF Intact, Control, TypeOK
        <5>. QED
          BY <5>1, <5>2, <3>2, <1>a, <1>b DEF n, s
      <4>2. told' = told
        BY <4>1, <3>1, <2>3, <2>4, Mapping
      <4>3. Promise!Progress(f, n)
        BY <4>1, <4>2, <3>1, <2>3, <2>4, <1>1, ToldFacts DEF Promise!Progress
      <4>. QED
        BY <4>1, <4>3 DEF Promise!Next
    <3>3. CASE Item(f).phase = "close"
      <4>1. /\ archive[f] = "final" /\ n = size[f] /\ web[f].size <= size[f]
            /\ ToldOf(s) = "ended"
        BY <3>1, <3>3, <1>b, ToldFacts DEF Told, Misses, n, s
      <4>2. stored[f] = "final"
        BY <4>1 DEF stored
      <4>3. Promise!Conclude(f)
        BY <4>1, <4>2, <3>1, <2>3, <2>4, <1>1, ToldFacts DEF Promise!Conclude
      <4>. QED
        BY <4>3 DEF Promise!Next
    <3>. QED
      BY <2>6, <3>2, <3>3, <1>b
  <2>. QED
    BY <2>5, <2>6
<1>. QED
  BY <1>2, <1>3

LEMMA StepImplements == IndInv /\ [Next]_vars => [Promise!Next]_Promise!promiseVars
<1> SUFFICES ASSUME IndInv, [Next]_vars PROVE [Promise!Next]_Promise!promiseVars
  OBVIOUS
<1>. USE OutboxAssumption
<1>a. TypeOK /\ Control
  BY DEF IndInv
<1>0. ASSUME UNCHANGED <<stored, size, web>> PROVE UNCHANGED Promise!promiseVars
  BY <1>0 DEF Promise!promiseVars, told, known
<1>b. ASSUME UNCHANGED archive PROVE UNCHANGED stored
  BY <1>b DEF stored
<1>1. ASSUME NEW f \in Files, Register(f) PROVE UNCHANGED Promise!promiseVars
  <2>1. UNCHANGED <<size, web>> /\ archive[f] = "none" /\ archive' = [archive EXCEPT ![f] = "creating"]
    BY <1>1 DEF Register
  <2>2. stored' = stored
    BY <2>1, <1>a DEF stored, TypeOK
  <2>. QED
    BY <2>1, <2>2, <1>0
<1>2. ASSUME NEW f \in Files, CreateArchive(f) PROVE [Promise!Next]_Promise!promiseVars
  <2>1. PICK a \in {"writing", "missing", "final"} : archive' = [archive EXCEPT ![f] = a]
    BY <1>2 DEF CreateArchive
  <2>2. /\ UNCHANGED <<size, web>> /\ archive[f] = "creating"
        /\ archive \in [Files -> {"none", "creating", "writing", "final", "missing"}]
    BY <1>2, <1>a DEF CreateArchive, TypeOK
  <2>3. told' = told /\ known' = known
    BY <2>2 DEF told, known
  <2>4. CASE a = "missing"
    BY <2>1, <2>2, <2>4, <1>0 DEF stored
  <2>5. CASE a \in {"writing", "final"}
    <3>1. stored[f] = "absent" /\ stored' = [stored EXCEPT ![f] = a]
      BY <2>1, <2>2, <2>5 DEF stored
    <3>2. Promise!Begin(f)
      BY <3>1, <2>2, <2>3, <2>5 DEF Promise!Begin
    <3>. QED
      BY <3>2 DEF Promise!Next
  <2>. QED
    BY <2>4, <2>5
<1>3. ASSUME NEW f \in Files, Write(f) PROVE [Promise!Next]_Promise!promiseVars
  <2>1. UNCHANGED <<archive, web>> /\ archive[f] = "writing" /\ size' = [size EXCEPT ![f] = @ + 1]
    BY <1>3 DEF Write
  <2>2. UNCHANGED <<stored, told, known>> /\ stored[f] = "writing"
    BY <2>1 DEF stored, told, known
  <2>. QED
    BY <2>1, <2>2 DEF Promise!Next, Promise!Grow
<1>4. ASSUME NEW S \in SUBSET Files, UNCHANGED web, size' \in [Files -> Nat],
             \A f \in S : archive[f] = "writing",
             \A f \in Files : /\ size'[f] <= size[f] /\ (f \notin S => size'[f] = size[f])
                              /\ stored'[f] = IF f \in S THEN "final" ELSE stored[f]
      PROVE  Promise!End(S)
  <2>1. told' = told /\ known' = known
    BY <1>4 DEF told, known
  <2>2. \A f \in S : stored[f] = "writing"
    BY <1>4 DEF stored
  <2>3. stored' = [f \in Files |-> IF f \in S THEN "final" ELSE stored[f]]
    BY <1>4 DEF stored
  <2>4. \A f \in Files : size'[f] \in 0 .. size[f]
    BY <1>4, <1>a DEF TypeOK
  <2>5. size' = [f \in Files |-> size'[f]]
    BY <1>4
  <2>. QED
    BY <2>1, <2>2, <2>3, <2>4, <2>5, <1>4 DEF Promise!End
<1>5. ASSUME NEW f \in Files, NEW r \in Causes, CloseArchive(f, r) PROVE Promise!End({f})
  <2>1. /\ UNCHANGED <<size, web>> /\ archive[f] = "writing"
        /\ archive' = [archive EXCEPT ![f] = "final"]
    BY <1>5 DEF CloseArchive
  <2>2. \A g \in Files : stored'[g] = IF g \in {f} THEN "final" ELSE stored[g]
    BY <2>1, <1>a DEF stored, TypeOK
  <2>3. size \in [Files -> Nat]
    BY <1>a DEF TypeOK
  <2>4. \A g \in Files : size[g] <= size[g]
    BY <2>3
  <2>. QED
    BY <2>1, <2>2, <2>3, <2>4, <1>4
<1>6. CASE Crash
  <2>. DEFINE S == {f \in Files : archive[f] = "writing"}
  <2>1. size' \in [Files -> Nat] /\ web' = web
    BY <1>6 DEF Crash
  <2>2. ASSUME NEW f \in Files
        PROVE  /\ size'[f] <= size[f] /\ (f \notin S => size'[f] = size[f])
    <3>1. size[f] \in Nat /\ size'[f] \in Nat
      BY <1>a, <2>1 DEF TypeOK
    <3>2. size'[f] = size[f] \/ (archive[f] = "writing" /\ size'[f] < size[f])
      BY <1>6 DEF Crash
    <3>. QED
      BY <3>1, <3>2
  <2>3. ASSUME NEW f \in Files PROVE stored'[f] = IF f \in S THEN "final" ELSE stored[f]
    <3>1. archive'[f] = CASE archive[f] = "creating" -> "missing"
                          [] archive[f] = "writing" -> "final"
                          [] OTHER -> archive[f]
      BY <1>6 DEF Crash
    <3>. QED
      BY <3>1 DEF stored
  <2>4. S \in SUBSET Files /\ \A f \in S : archive[f] = "writing"
    OBVIOUS
  <2>5. Promise!End(S)
    BY <2>1, <2>2, <2>3, <2>4, <1>4
  <2>. QED
    BY <2>4, <2>5 DEF Promise!Next
<1>7. ASSUME NEW f \in Files, Send(f) PROVE [Promise!Next]_Promise!promiseVars
  <2>1. /\ work = "deliver" /\ f \in list /\ UNCHANGED <<archive, size>>
        /\ web' = web \/ Apply(f)
    BY <1>7 DEF Send, SendOk, SendLost, SendRefused, SendTerminal, Exchange, archiveVars
  <2>. QED
    BY <2>1, <1>0, <1>b, ApplyImplements
<1>8. ASSUME NEW f \in Files, WebTimeout(f) PROVE Promise!Lapse(f)
  <2>1. /\ web[f].state = "RECORDING" /\ web' = [web EXCEPT ![f].state = "TIMEDOUT"]
        /\ UNCHANGED <<archive, size>>
    BY <1>8 DEF WebTimeout, archiveVars
  <2>2. web \in [Files -> Held] /\ web[f] \in Held
    BY <1>a DEF TypeOK
  <2>3. /\ web'[f].state = "TIMEDOUT" /\ web'[f].size = web[f].size
        /\ \A g \in Files \ {f} : web'[g] = web[g]
    BY <2>1, <2>2 DEF Held
  <2>4. told' = [g \in Files |-> ToldOf(web'[g].state)] /\ known' = [g \in Files |-> web'[g].size]
    BY DEF told, known, ToldOf
  <2>5. told' = [told EXCEPT ![f] = "lapsed"] /\ known' = known
    BY <2>3, <2>4, Mapping, ToldFacts
  <2>6. told[f] = "recording"
    BY <2>1, Mapping, ToldFacts
  <2>. QED
    BY <2>1, <2>5, <2>6, <1>b DEF Promise!Lapse
<1>9. ASSUME NEW f \in Files,
             TornWrite(f) \/ Prepare(f) \/ Ack(f) \/ Failed(f) \/ BackoffElapses(f)
      PROVE  UNCHANGED <<archive, size, web>>
  BY <1>9 DEF TornWrite, Prepare, ScanMissing, ScanFails, ScanFile, EnqueueClose, EnqueueUpdate,
     NothingToQueue, Scanned, Ack, Failed, Recorded, BackoffElapses, archiveVars
<1>10. ASSUME \/ BeginPrepare \/ EndPrepare \/ BeginDeliver \/ EndDeliver \/ PassFails
              \/ Stop \/ Finish \/ Finished \/ Start \/ UNCHANGED vars
       PROVE  UNCHANGED <<archive, size, web>>
  BY <1>10 DEF BeginPrepare, EndPrepare, BeginDeliver, EndDeliver, PassFails, Stop, Finish,
     Finished, Start, vars, archiveVars
<1>11. ASSUME Maintain PROVE UNCHANGED <<archive, size, web>>
  BY <1>11 DEF Maintain, StartAdmin, AdminRetry, AdminRegister, AdminClose, AdminFails, archiveVars
<1>12. ASSUME NEW f \in Files, Promise!End({f}) \/ Promise!Lapse(f) PROVE Promise!Next
  <2>1. {f} \in SUBSET Files
    OBVIOUS
  <2>. QED
    BY <1>12, <2>1 DEF Promise!Next
<1>. QED
  BY <1>0, <1>b, <1>1, <1>2, <1>3, <1>5, <1>6, <1>7, <1>8, <1>9, <1>10, <1>11, <1>12
  DEF Next, Session

LEMMA InitImplements == Init => Promise!Init
<1> SUFFICES ASSUME Init PROVE Promise!Init
  OBVIOUS
<1>. USE OutboxAssumption
<1>1. archive \in [Files -> {"none", "final"}]
      /\ size = [f \in Files |-> IF archive[f] = "final" THEN 1 ELSE 0]
      /\ \A f \in Files : web[f] = [state |-> "unknown", no |-> 0, size |-> 0]
  BY DEF Init, All
<1>2. stored \in [Files -> {"absent", "final"}]
      /\ \A f \in Files : stored[f] = "absent" => size[f] = 0
  BY <1>1 DEF stored
<1>3. size \in [Files -> Nat]
  BY <1>1
<1>4. told = [f \in Files |-> "nothing"] /\ known = [f \in Files |-> 0]
  BY <1>1, Mapping, ToldFacts
<1>. QED
  BY <1>2, <1>3, <1>4 DEF Promise!Init

(* Whatever fails, is killed or is lost, the Web is told of a recording      *)
(* once, sees it only grow and never ahead of the archive, and learns of its *)
(* end once, with the size of the final archive.                             *)
THEOREM PromiseKept == Spec => ImplementsPromise
  BY InitImplements, StepImplements, Invariance, PTL DEF Spec, ImplementsPromise, Promise!Spec

-----------------------------------------------------------------------------
(* Outbox implements Handover. A file's archive and its ledger entry, as     *)
(* Handover sees them.                                                       *)
HeldIs(a, h) ==
  /\ a \in {"none", "creating"} => h = "absent"
  /\ a = "missing" => h = "gone"
  /\ a \in {"writing", "final"} => h = a

LedgerIs(s, l) == (s = "FINALIZED" => l = "CLOSED") /\ (s # "FINALIZED" => l = s)

LEMMA LifeMapping ==
  ASSUME NEW g \in Files
  PROVE  /\ HeldIs(archive[g], held[g]) /\ HeldIs(archive'[g], held'[g])
         /\ LedgerIs(rec[g], ledger[g]) /\ LedgerIs(rec'[g], ledger'[g])
         /\ archive'[g] = archive[g] => held'[g] = held[g]
         /\ archive'[g] # "writing" => held'[g] # "writing"
  BY DEF held, ledger, HeldIs, LedgerIs

(* What a step may do to the archive, and what to the entry.                 *)
ArchiveStays(g) == archive'[g] = archive[g] /\ size'[g] = size[g]
EntryStays(g) == rec'[g] = rec[g] /\ reason'[g] = reason[g]
ArchiveEnds(g) == archive[g] = "writing" /\ archive'[g] = "final" /\ size'[g] \in Nat
EntryCloses(g) ==
  /\ rec[g] = "OPEN" /\ rec'[g] = "CLOSED" /\ reason'[g] \in WebReasons
  /\ archive'[g] \notin {"creating", "writing"}
ArchiveStarts(g) ==
  /\ archive[g] = "creating" /\ rec[g] \notin {"none", "CLOSED", "FINALIZED", "DONE"}
  /\ archive'[g] \in {"writing", "missing", "final"} /\ size'[g] = size[g]
EntryMoves(g) ==
  \/ rec[g] \in Open /\ rec'[g] = "ERROR"
  \/ rec[g] = "CLOSED" /\ rec'[g] = "FINALIZED"
  \/ rec[g] = "FINALIZED" /\ archive[g] = "final" /\ rec'[g] = "DONE"

LEMMA StaysOrCloses ==
  ASSUME NEW g \in Files, ArchiveStays(g) \/ ArchiveEnds(g), EntryStays(g) \/ EntryCloses(g)
  PROVE  Life!Step(g)
<1>1. Life!End(g) \/ Life!SameArchive(g)
  BY LifeMapping DEF ArchiveStays, ArchiveEnds, HeldIs, Life!End, Life!SameArchive
<1>2. Life!Close(g) \/ Life!SameEntry(g)
  BY LifeMapping DEF EntryStays, EntryCloses, LedgerIs, WebReasons, Life!CloseReasons, Life!Close,
     Life!SameEntry
<1>. QED
  BY <1>1, <1>2 DEF Life!Step

LEMMA Starts ==
  ASSUME NEW g \in Files, ArchiveStarts(g), EntryStays(g)
  PROVE  Life!Step(g)
<1>1. Life!Begin(g)
  BY LifeMapping DEF EntryStays, ArchiveStarts, HeldIs, LedgerIs, Life!Begin, Life!SameEntry
<1>. QED
  BY <1>1 DEF Life!Step

LEMMA Moving ==
  ASSUME NEW g \in Files, ArchiveStays(g), EntryMoves(g), reason'[g] = reason[g]
  PROVE  Life!Step(g)
<1>1. Life!SameArchive(g)
  BY LifeMapping DEF ArchiveStays, HeldIs, Life!SameArchive
<1>2. Life!SameEntry(g) \/ Life!Deliver(g) \/ Life!Block(g)
  BY <1>1, LifeMapping
  DEF EntryMoves, Open, HeldIs, LedgerIs, Life!SameEntry, Life!Deliver, Life!Block
<1>. QED
  BY <1>1, <1>2 DEF Life!Step

(* Every action of the machine is a step in the life of every recording.     *)
LEMMA LifeStep ==
  ASSUME TypeOK, Control, [Next]_vars, NEW g \in Files, LedgerInv(g), QueueInv(g), WebInv(g)
  PROVE  Life!Step(g)
<1>. USE OutboxAssumption
<1>1. ASSUME NEW f \in Files, Register(f) \/ AdminRegister(f) PROVE Life!Step(g)
  <2>1. /\ rec[f] = "none" /\ rec' = [rec EXCEPT ![f] = "OPEN"]
        /\ UNCHANGED <<reason, size>>
        /\ \/ archive'[g] = archive[g] /\ (g = f => archive[g] = "final")
           \/ g = f /\ archive[g] = "none" /\ archive'[g] = "creating"
    BY <1>1 DEF Register, AdminRegister, InsertRecording, archiveVars, TypeOK
  <2>2. CASE g = f
    <3>1. Life!Register(g)
      BY <2>1, <2>2, LifeMapping DEF HeldIs, LedgerIs, TypeOK, Life!Register, Life!SameArchive
    <3>. QED
      BY <3>1 DEF Life!Step
  <2>3. CASE g # f
    BY <2>1, <2>3, StaysOrCloses DEF ArchiveStays, EntryStays, TypeOK
  <2>. QED
    BY <2>2, <2>3
<1>2. ASSUME NEW f \in Files, CreateArchive(f) PROVE Life!Step(g)
  <2>1. /\ archive[f] = "creating" /\ UNCHANGED <<size, rec, reason>>
        /\ archive'[f] \in {"writing", "missing", "final"} /\ (g # f => archive'[g] = archive[g])
    BY <1>2 DEF CreateArchive, storeVars, TypeOK
  <2>. QED
    BY <2>1, StaysOrCloses, Starts DEF ArchiveStays, EntryStays, ArchiveStarts, LedgerInv
<1>3. ASSUME NEW f \in Files, Write(f) PROVE Life!Step(g)
  <2>1. archive[f] = "writing" /\ size' = [size EXCEPT ![f] = @ + 1] /\ UNCHANGED <<archive, rec, reason>>
    BY <1>3 DEF Write, storeVars
  <2>2. CASE g = f
    <3>1. size'[g] > size[g]
      BY <2>1, <2>2 DEF TypeOK
    <3>2. Life!Grow(g)
      BY <2>1, <2>2, <3>1, LifeMapping DEF HeldIs, LedgerIs, Life!Grow, Life!SameEntry
    <3>. QED
      BY <3>2 DEF Life!Step
  <2>3. CASE g # f
    BY <2>1, <2>3, StaysOrCloses DEF ArchiveStays, EntryStays, TypeOK
  <2>. QED
    BY <2>2, <2>3
<1>4. ASSUME NEW f \in Files, NEW r \in Causes, CloseArchive(f, r) PROVE Life!Step(g)
  <2>1. [pending EXCEPT ![f] = r] \in [Files -> Reasons] /\ r \in WebReasons
    BY DEF TypeOK, Reasons
  <2>2. \/ EntryStays(g)
        \/ /\ rec[g] = "OPEN" /\ rec'[g] = "CLOSED" /\ reason'[g] = [pending EXCEPT ![f] = r][g]
           /\ reason'[g] # "none"
    BY <1>4, <2>1, FlushFacts DEF CloseArchive, EntryStays
  <2>3. /\ size' = size /\ (g = f => archive[g] = "writing" /\ archive'[g] = "final")
        /\ (g # f => archive'[g] = archive[g])
    BY <1>4 DEF CloseArchive, TypeOK
  <2>4. reason'[g] # "none" /\ reason'[g] = [pending EXCEPT ![f] = r][g]
          => reason'[g] \in WebReasons /\ archive'[g] = "final"
    BY <2>1, <2>3 DEF TypeOK, LedgerInv, Reasons
  <2>5. EntryStays(g) \/ EntryCloses(g)
    BY <2>2, <2>4 DEF EntryCloses
  <2>6. ArchiveStays(g) \/ ArchiveEnds(g)
    BY <2>3 DEF ArchiveStays, ArchiveEnds, TypeOK
  <2>. QED
    BY <2>5, <2>6, StaysOrCloses
<1>5. ASSUME NEW f \in Files, ScanMissing(f) \/ ScanFails(f) PROVE Life!Step(g)
  <2>1. /\ rec'[g] = rec[g] \/ (g = f /\ rec'[g] = "ERROR")
        /\ UNCHANGED <<archive, size, reason>> /\ rows[f] # "none"
    BY <1>5 DEF ScanMissing, ScanFails, BlockFile, TypeOK, archiveVars
  <2>. QED
    BY <2>1, StaysOrCloses, Moving DEF ArchiveStays, EntryStays, EntryMoves, LedgerInv
<1>6. ASSUME NEW f \in Files, EnqueueClose(f) PROVE Life!Step(g)
  <2>1. /\ rec' = [rec EXCEPT ![f] = "FINALIZED"] /\ UNCHANGED <<archive, size, reason>>
        /\ rows[f] = "CLOSED"
    BY <1>6 DEF EnqueueClose, Scanned, archiveVars
  <2>2. CASE g = f
    BY <2>1, <2>2, Moving DEF ArchiveStays, EntryMoves, LedgerInv, TypeOK
  <2>3. CASE g # f
    BY <2>1, <2>3, StaysOrCloses DEF ArchiveStays, EntryStays, TypeOK
  <2>. QED
    BY <2>2, <2>3
<1>7. ASSUME NEW f \in Files, Ack(f) PROVE Life!Step(g)
  <2>1. /\ rec' = [rec EXCEPT ![f] = IF Item(f).phase = "close" THEN "DONE" ELSE @]
        /\ UNCHANGED <<archive, size, reason>> /\ work = "sent" /\ cur = f
    BY <1>7 DEF Ack, Recorded, archiveVars
  <2>2. CASE g = f /\ Item(f).phase = "close"
    <3>1. queue[g] # <<>>
      BY <2>1, <2>2 DEF Control
    <3>2. Told(g, Item(g))
      BY <3>1, MemberFacts DEF QueueInv
    <3>3. rec[g] = "FINALIZED" /\ archive[g] = "final"
      BY <2>2, <3>2 DEF Told
    <3>. QED
      BY <2>1, <2>2, <3>3, Moving DEF ArchiveStays, EntryMoves, TypeOK
  <2>3. CASE ~(g = f /\ Item(f).phase = "close")
    BY <2>1, <2>3, StaysOrCloses DEF ArchiveStays, EntryStays, TypeOK
  <2>. QED
    BY <2>2, <2>3
<1>8. CASE BeginPrepare \/ Finish
  <2>1. pending \in [Files -> Reasons] /\ Flush(pending) /\ UNCHANGED <<archive, size>>
    BY <1>8 DEF TypeOK, BeginPrepare, Finish, archiveVars
  <2>2. EntryStays(g) \/ EntryCloses(g)
    BY <2>1, FlushFacts DEF EntryStays, EntryCloses, LedgerInv, Reasons
  <2>. QED
    BY <2>1, <2>2, StaysOrCloses DEF ArchiveStays
<1>9. CASE Start \/ StartAdmin
  <2>1. Recover /\ UNCHANGED <<archive, size>> /\ proc = "down"
    BY <1>9 DEF Start, StartAdmin, archiveVars
  <2>2. EntryStays(g) \/ EntryCloses(g)
    BY <2>1, RecoverFacts DEF EntryStays, EntryCloses, Control, WebReasons
  <2>. QED
    BY <2>1, <2>2, StaysOrCloses DEF ArchiveStays
<1>10. CASE Crash
  <2>1. UNCHANGED <<rec, reason>> /\ size'[g] \in Nat /\ (archive[g] # "writing" => size'[g] = size[g])
    BY <1>10 DEF Crash, storeVars, TypeOK
  <2>2. archive'[g] = CASE archive[g] = "creating" -> "missing"
                        [] archive[g] = "writing" -> "final"
                        [] OTHER -> archive[g]
    BY <1>10 DEF Crash
  <2>3. \/ archive[g] = "creating" /\ archive'[g] = "missing"
        \/ archive[g] = "writing" /\ archive'[g] = "final"
        \/ archive[g] # "writing" /\ archive'[g] = archive[g]
    BY <2>2
  <2>. QED
    BY <2>1, <2>3, StaysOrCloses, Starts
    DEF ArchiveStays, ArchiveEnds, ArchiveStarts, EntryStays, LedgerInv
<1>11. ASSUME NEW r \in Causes, AdminClose(r) PROVE Life!Step(g)
  <2>1. /\ proc = "import" /\ cur \in Files /\ r \in WebReasons
        /\ rec' = [rec EXCEPT ![cur] = "CLOSED"] /\ reason' = [reason EXCEPT ![cur] = r]
        /\ UNCHANGED <<archive, size>>
    BY <1>11 DEF AdminClose, Control, archiveVars
  <2>2. cur = g => rec[g] = "OPEN" /\ archive[g] = "final"
    BY <2>1 DEF LedgerInv
  <2>3. EntryStays(g) \/ EntryCloses(g)
    BY <2>1, <2>2 DEF EntryStays, EntryCloses, TypeOK
  <2>. QED
    BY <2>1, <2>3, StaysOrCloses DEF ArchiveStays
<1>12. ASSUME NEW f \in Files,
              \/ TornWrite(f) \/ ScanFile(f) \/ EnqueueUpdate(f) \/ NothingToQueue(f) \/ Send(f)
              \/ Failed(f) \/ BackoffElapses(f) \/ WebTimeout(f) \/ AdminRetry(f)
       PROVE  UNCHANGED <<archive, size, rec, reason>>
  BY <1>12 DEF TornWrite, ScanFile, EnqueueUpdate, NothingToQueue, Scanned, Send, SendOk, SendLost,
     SendRefused, SendTerminal, Exchange, Failed, Recorded, BackoffElapses, WebTimeout, AdminRetry,
     archiveVars, storeVars
<1>13. ASSUME \/ EndPrepare \/ BeginDeliver \/ EndDeliver \/ PassFails \/ Stop \/ Finished
              \/ AdminFails \/ UNCHANGED vars
       PROVE  UNCHANGED <<archive, size, rec, reason>>
  BY <1>13 DEF EndPrepare, BeginDeliver, EndDeliver, PassFails, Stop, Finished, AdminFails, vars,
     archiveVars, storeVars
<1>14. ASSUME UNCHANGED <<archive, size, rec, reason>> PROVE Life!Step(g)
  BY <1>14, StaysOrCloses DEF ArchiveStays, EntryStays
<1>. QED
  BY <1>1, <1>2, <1>3, <1>4, <1>5, <1>6, <1>7, <1>8, <1>9, <1>10, <1>11, <1>12, <1>13, <1>14
  DEF Next, Session, Prepare, Maintain

LEMMA InitOfLives == Init => Life!Init
<1> SUFFICES ASSUME Init PROVE Life!Init
  OBVIOUS
<1>. USE OutboxAssumption
<1>1. /\ archive \in [Files -> {"none", "final"}] /\ size \in [Files -> Nat]
      /\ \A f \in Files : rec[f] = "none" /\ reason[f] = "none"
      /\ reason = [f \in Files |-> "none"]
  BY DEF Init, All
<1>2. held \in [Files -> {"absent", "final"}] /\ ledger = [f \in Files |-> "none"]
  BY <1>1 DEF held, ledger
<1>. QED
  BY <1>1, <1>2 DEF Life!Init

(* With the worker, the outbox and the maintenance tool at work, every       *)
(* recording still lives the life the storage and the ledger agreed on.      *)
THEOREM HandoverKept == Spec => ImplementsHandover
<1>1. IndInv /\ [Next]_vars => [Life!Next]_Life!handoverVars
  BY LifeStep DEF IndInv, FileInv, Life!Next
<1>. QED
  BY <1>1, InitOfLives, Invariance, PTL DEF Spec, ImplementsHandover, Life!Spec
=============================================================================
