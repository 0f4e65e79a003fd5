------------------------------ MODULE FileScan ------------------------------
(***************************************************************************)
(* What the report worker learns from a recording's file: FileStats of     *)
(* reporting_models.py, which reads the file on from where it was while    *)
(* the recording is active and once more from the start after it closed,   *)
(* WorksiteTimezone of worksite_timezone.py, which both readings feed, and *)
(* _prepare_file of reporting_worker.py, which turns the outcome into      *)
(* notifications and keeps in the ledger what must survive a restart.      *)
(* Delivery of the notifications is Outbox's.                              *)
(*                                                                         *)
(* A line of the file is abstracted to what these read of it: whether it   *)
(* is a record of this device, its GPS time in seconds, and the zone a     *)
(* lookup of its fixed position gives.                                     *)
(***************************************************************************)
EXTENDS Integers, Sequences

CONSTANTS
  Zones,     \* zone names a lookup may give
  NoZone,    \* no name: at sea, or not determined
  NoFix,     \* the record has no fixed position
  Lines,     \* the lines the device's records make: [ok, time, fix]
  Faults,    \* TRUE when scans, lookups and transactions may fail
  Crashes,   \* TRUE when the machine may go down, with what was not yet synced
  MaxLines,  \* bound: lines of the file
  MaxAgain   \* bound: conflicts counted when a transaction still fails

NoTime == -1
Span   == 2

ASSUME LinesAssumption ==
  /\ NoZone \notin Zones /\ NoFix \notin Zones /\ NoFix # NoZone
  /\ Lines \subseteq [ok : BOOLEAN, time : Nat \cup {NoTime}, fix : Zones \cup {NoZone, NoFix}]
  /\ {Faults, Crashes} \subseteq BOOLEAN
  /\ {MaxLines, MaxAgain} \subseteq Nat

VARIABLES
  file,     \* complete lines of the recording
  tail,     \* bytes of an unfinished line follow them
  state,    \* recordings.state
  lastSize, \* recordings.last_size
  audit,    \* recordings.timezone_audit: the name and the conflict count
  unsent,   \* an update notification is queued and not delivered
  pc,       \* where _prepare_file is
  final,    \* the row was CLOSED when it was read
  limit,    \* the complete lines fstat saw when the scan began
  torn,     \* it saw bytes after them
  stats,    \* the FileStats in use
  zone,     \* the WorksiteTimezone of the recording
  told      \* history: the notifications queued so far

fileVars   == <<file, tail>>
ledgerVars == <<state, lastSize, audit, unsent, told>>
scanVars   == <<pc, final, limit, torn, stats, zone>>
vars == <<fileVars, ledgerVars, scanVars>>

Fresh == [read |-> 0, size |-> 0, first |-> NoTime, last |-> NoTime,
          place |-> 0, placeTime |-> NoTime, bad |-> FALSE]
Unknown == [name |-> NoZone, candidate |-> NoZone, count |-> 0,
            first |-> NoTime, last |-> NoTime, conflicts |-> 0]
NoAudit == [name |-> NoZone, conflicts |-> 0]

Times == Nat \cup {NoTime}
Names == Zones \cup {NoZone}
Stats == [read : Nat, size : Nat, first : Times, last : Times,
          place : Nat, placeTime : Times, bad : BOOLEAN]
Zone  == [name : Names, candidate : Names, count : Nat, first : Times, last : Times,
          conflicts : Nat]
Audit == [name : Names, conflicts : Nat]
Notification == [phase : {"update", "close"}, stats : Stats, zone : Names]

TypeOK ==
  /\ file \in Seq(Lines) /\ tail \in BOOLEAN
  /\ state \in {"OPEN", "CLOSED", "FINALIZED", "ERROR"}
  /\ lastSize \in Nat /\ unsent \in BOOLEAN
  /\ audit \in Audit
  /\ pc \in {"idle", "fstat", "scan", "report"}
  /\ final \in BOOLEAN /\ limit \in Nat /\ torn \in BOOLEAN
  /\ stats \in Stats /\ zone \in Zone
  /\ told \in Seq(Notification)

Init ==
  /\ file = <<>> /\ tail = FALSE
  /\ state = "OPEN" /\ lastSize = 0 /\ audit = NoAudit /\ unsent = FALSE /\ told = <<>>
  /\ pc = "idle" /\ final = FALSE /\ limit = 0 /\ torn = FALSE
  /\ stats = Fresh /\ zone = Unknown

-----------------------------------------------------------------------------
(* WorksiteTimezone.observe, given the name the lookup returned. *)

Reset(z) == [z EXCEPT !.candidate = NoZone, !.count = 0, !.first = NoTime, !.last = NoTime]

Eligible(l) == l.time # NoTime /\ l.fix # NoFix

\* Mutant: a sample of another zone goes on with the count of the one before.
BugFollow(z, name, time) ==
  [z EXCEPT !.candidate = name, !.first = IF z.first = NoTime THEN time ELSE @]

(* A candidate that agrees is kept, another one starts over with this sample. *)
Follow(z, name, time) ==
  IF name = z.candidate THEN z
  ELSE [Reset(z) EXCEPT !.candidate = name, !.first = time]

Sample(z, name, time) ==
  LET followed == Follow(z, name, time)
      count    == followed.count + 1
  IN [followed EXCEPT
        !.last = time, !.count = count,
        !.name = IF count >= 3 /\ time - followed.first >= Span THEN name ELSE @]

Observe(z, l, name) ==
  IF ~Eligible(l) \/ name = NoZone THEN Reset(z)
  ELSE IF z.name # NoZone
       THEN IF name = z.name THEN z ELSE [z EXCEPT !.conflicts = @ + 1]
  ELSE IF z.last # NoTime /\ l.time <= z.last THEN Reset(z)
  ELSE Sample(z, name, l.time)

-----------------------------------------------------------------------------
(* FileStats._record. A complete line counts two units of size, an           *)
(* unfinished one a single unit.                                             *)

Least(a, b)    == IF a = NoTime \/ b < a THEN b ELSE a
Greatest(a, b) == IF b > a THEN b ELSE a

\* Mutant: the position of the last record read wins, whatever its time.
BugPlaced(s, l) == l.time # NoTime /\ l.fix # NoFix

Placed(s, l) == l.time # NoTime /\ l.fix # NoFix /\ l.time >= s.placeTime

Record(s, l) ==
  LET n       == s.read + 1
      counted == [s EXCEPT !.read = n, !.size = @ + 2, !.bad = @ \/ ~l.ok]
      timed   == IF ~l.ok \/ l.time = NoTime THEN counted
                 ELSE [counted EXCEPT !.first = Least(@, l.time), !.last = Greatest(@, l.time)]
  IN IF l.ok /\ Placed(s, l) THEN [timed EXCEPT !.place = n, !.placeTime = l.time] ELSE timed

Valid(s) == ~s.bad /\ s.read > 0 /\ s.first # NoTime

-----------------------------------------------------------------------------
(* The recording: lines reach the file whole or in two writes; it is closed  *)
(* by its session or, after a crash, by recovery.                            *)

AppendLine(l) ==
  /\ state = "OPEN" /\ Len(file) < MaxLines
  /\ file' = Append(file, l) /\ tail' = FALSE
  /\ UNCHANGED <<ledgerVars, scanVars>>

WritePart ==
  /\ state = "OPEN" /\ ~tail /\ Len(file) < MaxLines
  /\ tail' = TRUE
  /\ UNCHANGED <<file, ledgerVars, scanVars>>

Close ==
  /\ state = "OPEN" /\ state' = "CLOSED"
  /\ UNCHANGED <<fileVars, lastSize, audit, unsent, told, scanVars>>

-----------------------------------------------------------------------------
(* ReportWorker._prepare_file. *)

ReadRow ==
  /\ pc = "idle" /\ state \in {"OPEN", "CLOSED"}
  /\ pc' = "fstat" /\ final' = (state = "CLOSED")
  /\ UNCHANGED <<fileVars, ledgerVars, limit, torn, stats, zone>>

(* A fresh FileStats after closing; it shares the zone of the old one. *)
Scanner == IF final THEN Fresh ELSE stats

Fstat ==
  /\ pc = "fstat" /\ pc' = "scan"
  /\ limit' = Len(file) /\ torn' = tail
  /\ stats' = Scanner
  /\ UNCHANGED <<fileVars, ledgerVars, final, zone>>

(* FileStats.scan, its loop: one complete line. *)
ReadLine ==
  /\ pc = "scan" /\ stats.read < limit
  /\ LET l == file[stats.read + 1] IN
       /\ stats' = Record(stats, l)
       /\ \E name \in (IF l.fix = NoFix THEN {NoZone} ELSE {l.fix})
                        \cup (IF Faults THEN {NoZone} ELSE {}) :
            zone' = IF l.ok THEN Observe(zone, l, name) ELSE zone
  /\ UNCHANGED <<fileVars, ledgerVars, pc, final, limit, torn>>

(* An unfinished line is left for the next scan, or condemns a closed file. *)
EndScan ==
  /\ pc = "scan" /\ stats.read = limit
  /\ pc' = "report"
  /\ stats' = IF final /\ torn THEN [stats EXCEPT !.bad = TRUE, !.size = @ + 1] ELSE stats
  /\ UNCHANGED <<fileVars, ledgerVars, final, limit, torn, zone>>

Forget == stats' = Fresh /\ zone' = Unknown

(* prepare's error path: the recording is blocked and its scanner dropped. *)
Block ==
  /\ state' = "ERROR" /\ pc' = "idle" /\ Forget
  /\ UNCHANGED <<fileVars, lastSize, audit, unsent, told, final, limit, torn>>

ScanFails == Faults /\ pc \in {"fstat", "scan"} /\ Block

\* Mutant: the ledger's name is not consulted.
BugReported == zone.name

(* The name a notification carries: the one in the ledger, if there is one. *)
Reported == IF audit.name # NoZone THEN audit.name ELSE zone.name

NextAudit ==
  IF audit.name = NoZone THEN [name |-> zone.name, conflicts |-> zone.conflicts]
  ELSE IF zone.name # audit.name THEN audit
  ELSE [audit EXCEPT !.conflicts = Greatest(@, zone.conflicts)]

(* ReportStore.enqueue. *)
Enqueue(phase) ==
  /\ told' = Append(told, [phase |-> phase, stats |-> stats, zone |-> Reported])
  /\ lastSize' = stats.size /\ audit' = NextAudit

\* Mutant: a scan that found less than the ledger knows is reported.
BugShrunk == FALSE

Shrunk == stats.size < lastSize

ReportShrunk == pc = "report" /\ Shrunk /\ Block

ReportClose ==
  /\ pc = "report" /\ final /\ ~Shrunk
  /\ Enqueue("close")
  /\ state' = "FINALIZED" /\ pc' = "idle" /\ Forget
  /\ UNCHANGED <<fileVars, unsent, final, limit, torn>>

(* Nothing new, or an update still waiting, sends nothing. *)
Worth == stats.size > lastSize /\ stats.read > 0 /\ ~unsent

ReportUpdate ==
  /\ pc = "report" /\ ~final /\ ~Shrunk
  /\ IF Worth THEN Enqueue("update") /\ unsent' = TRUE
     ELSE UNCHANGED <<told, lastSize, audit, unsent>>
  /\ pc' = "idle"
  /\ UNCHANGED <<fileVars, state, final, limit, torn, stats, zone>>

(* The transaction fails; the worker's loop starts over with its scanners.   *)
(* The zone keeps what the failed pass has shown it: conflicts count again.  *)
EnqueueFails ==
  /\ Faults /\ pc = "report" /\ ~Shrunk /\ zone.conflicts <= MaxAgain
  /\ pc' = "idle"
  /\ UNCHANGED <<fileVars, ledgerVars, final, limit, torn, stats, zone>>

Deliver ==
  /\ unsent /\ unsent' = FALSE
  /\ UNCHANGED <<fileVars, state, lastSize, audit, told, scanVars>>

(* The machine goes down. An open file keeps any part of its bytes, since    *)
(* only closing syncs it; the ledger is durable, and recovery closes it.     *)
Crash ==
  /\ Crashes
  /\ \/ UNCHANGED fileVars
     \/ /\ state = "OPEN"
        /\ \E n \in 0..Len(file) :
             /\ file' = SubSeq(file, 1, n)
             /\ tail' \in IF n < Len(file) THEN BOOLEAN ELSE {FALSE, tail}
  /\ state' = IF state = "OPEN" THEN "CLOSED" ELSE state
  /\ pc' = "idle" /\ Forget
  /\ UNCHANGED <<lastSize, audit, unsent, told, final, limit, torn>>

Next ==
  \/ (\E l \in Lines : AppendLine(l)) \/ WritePart \/ Close
  \/ ReadRow \/ Fstat \/ ReadLine \/ EndScan \/ ScanFails
  \/ ReportShrunk \/ ReportClose \/ ReportUpdate \/ EnqueueFails \/ Deliver
  \/ Crash

Spec == Init /\ [][Next]_vars

-----------------------------------------------------------------------------
(* Reference: what is true of the first n lines of a file. *)

Sound(f, n)  == {i \in 1..n : f[i].ok}
Timed(f, n)  == {i \in Sound(f, n) : f[i].time # NoTime}
Fixed(f, n)  == {i \in Timed(f, n) : f[i].fix # NoFix}
Samples(f, n, z) == {i \in Fixed(f, n) : f[i].fix = z}

Earliest(f, n, t) ==
  IF Timed(f, n) = {} THEN t = NoTime
  ELSE (\E i \in Timed(f, n) : f[i].time = t) /\ \A i \in Timed(f, n) : t <= f[i].time
Latest(f, n, t) ==
  IF Timed(f, n) = {} THEN t = NoTime
  ELSE (\E i \in Timed(f, n) : f[i].time = t) /\ \A i \in Timed(f, n) : t >= f[i].time
NewestPlace(f, n, p) ==
  IF Fixed(f, n) = {} THEN p = 0
  ELSE /\ p \in Fixed(f, n)
       /\ \A i \in Fixed(f, n) :
            f[i].time < f[p].time \/ (f[i].time = f[p].time /\ i <= p)
Describes(f, s) ==
  Earliest(f, s.read, s.first) /\ Latest(f, s.read, s.last) /\ NewestPlace(f, s.read, s.place)

Witnessed(f, n, z) ==
  \E i, j, m \in Samples(f, n, z) :
    f[i].time < f[j].time /\ f[j].time < f[m].time /\ f[m].time - f[i].time >= Span

(* However many scans, restarts and failed transactions there were, what an  *)
(* update says is true of the lines it counts, and what the close says of    *)
(* the whole file: its size, its times, its last position, and whether it is *)
(* an unbroken recording of its device.                                      *)
ToldIsTrue ==
  \A k \in DOMAIN told :
    /\ told[k].stats.read <= Len(file) => Describes(file, told[k].stats)
    /\ told[k].phase = "close" =>
         /\ told[k].stats.read = Len(file)
         /\ told[k].stats.size = 2 * Len(file) + (IF tail THEN 1 ELSE 0)
         /\ Valid(told[k].stats) <=> ~tail /\ Sound(file, Len(file)) = 1..Len(file)
                                        /\ Timed(file, Len(file)) # {}

(* The Web never hears of a smaller recording than before, even when the     *)
(* machine lost the end of the file; an update always brings something new;  *)
(* nothing follows the close.                                                *)
ToldOnlyGrows ==
  \A j, k \in DOMAIN told : j < k =>
    /\ told[j].phase = "update"
    /\ told[j].stats.size <= told[k].stats.size
    /\ told[k].phase = "update" => told[j].stats.size < told[k].stats.size

(* A recording has one zone: once a notification has named it, every later   *)
(* one names the same, whatever a restarted scan or a failing lookup finds.  *)
OneZone ==
  \A j, k \in DOMAIN told : j < k /\ told[j].zone # NoZone => told[k].zone = told[j].zone

(* A zone is named only on the strength of three samples among the lines the *)
(* notification counts, at three different times that span two seconds, that *)
(* agree on it. (Of lines that were lost nothing can be said.)               *)
ZoneIsWitnessed ==
  \A k \in DOMAIN told :
    told[k].zone # NoZone /\ told[k].stats.read <= Len(file) =>
      Witnessed(file, told[k].stats.read, told[k].zone)

(* The ledger's zone never changes once it is known, and its conflict count  *)
(* never goes back.                                                          *)
AuditOnlyGrows ==
  [][audit.name # NoZone => audit'.name = audit.name /\ audit'.conflicts >= audit.conflicts]_vars

=============================================================================
