----------------------------- MODULE Ownership -----------------------------
(***************************************************************************)
(* Several processes over one data directory: create_server of server.py   *)
(* with everything it must take back when a later step fails, and the      *)
(* lease of reporting_service.py, which its owner gives up only after its  *)
(* worker and its ledger. A start closes in the ledger what an earlier     *)
(* process has left open, so it must be sure that nobody writes there any  *)
(* more. What the ledger then does is Outbox's, how a server is taken      *)
(* down Lifecycle's; here that is one step that closes the sessions.       *)
(***************************************************************************)
EXTENDS FiniteSets

CONSTANTS
  Procs,       \* processes started on the data directory, by host or operator
  Recordings,  \* recordings they will make
  Nobody,      \* no process
  Faults,      \* TRUE when the steps of a start and of a finalizer may fail
  Crashes      \* TRUE when a process may be killed

ASSUME OwnershipAssumption == Nobody \notin Procs /\ {Faults, Crashes} \subseteq BOOLEAN

VARIABLES
  main,     \* where a process's main thread is
  final,    \* where its finalizer thread is
  lease,    \* who holds the lock on collector.lock
  store,    \* processes with the ledger open
  worker,   \* processes whose worker thread runs
  port,     \* who listens on the TCP port
  pipe,     \* processes with an open self-pipe
  leaked,   \* history: processes that could not start their worker's thread
  writer,   \* who has a recording's stream open
  ledger,   \* recordings.state of a recording
  pending   \* _pending: closures a process has not yet written to the ledger

resources  == <<port, pipe, leaked>>
recordings == <<writer, ledger, pending>>
vars == <<main, final, lease, store, worker, resources, recordings>>

Starting == {"lease", "store", "recover", "construct", "bind", "start"}
Ending   == {"stop", "wait", "undo", "waitUndone"}

TypeOK ==
  /\ main \in [Procs -> Starting \cup Ending \cup {"off", "serve", "tcp", "raised", "returned"}]
  /\ final \in [Procs -> {"none", "join", "flush", "store", "lease", "ended", "unstarted"}]
  /\ lease \in Procs \cup {Nobody} /\ port \in Procs \cup {Nobody}
  /\ {store, worker, pipe, leaked} \subseteq SUBSET Procs
  /\ writer \in [Recordings -> Procs \cup {Nobody}]
  /\ ledger \in [Recordings -> {"none", "OPEN", "CLOSED"}]
  /\ pending \in [Procs -> SUBSET Recordings]

Init ==
  /\ main = [p \in Procs |-> "off"] /\ final = [p \in Procs |-> "none"]
  /\ lease = Nobody /\ store = {} /\ worker = {}
  /\ port = Nobody /\ pipe = {} /\ leaked = {}
  /\ writer = [r \in Recordings |-> Nobody] /\ ledger = [r \in Recordings |-> "none"]
  /\ pending = [p \in Procs |-> {}]

Go(p, to)      == main' = [main EXCEPT ![p] = to]
From(p, at)    == main[p] = at
Written(p)     == {r \in Recordings : writer[r] = p}
Mark(closed)   == ledger' = [r \in Recordings |-> IF r \in closed /\ ledger[r] = "OPEN"
                                                   THEN "CLOSED" ELSE ledger[r]]

-----------------------------------------------------------------------------
(* create_server: ReportingService. *)

Launch(p) ==
  /\ From(p, "off") /\ Go(p, "lease")
  /\ UNCHANGED <<final, lease, store, worker, resources, recordings>>

(* flock without waiting: another owner ends the start. *)
TakeLease(p) ==
  /\ From(p, "lease")
  /\ IF lease = Nobody THEN lease' = p /\ Go(p, "store")
     ELSE Go(p, "raised") /\ UNCHANGED lease
  /\ UNCHANGED <<final, store, worker, resources, recordings>>

OpenStore(p) ==
  /\ From(p, "store") /\ Go(p, "recover")
  /\ store' = store \cup {p}
  /\ UNCHANGED <<final, lease, worker, resources, recordings>>

Recover(p) ==
  /\ From(p, "recover") /\ Go(p, "construct")
  /\ Mark(Recordings)
  /\ UNCHANGED <<final, lease, store, worker, resources, writer, pending>>

\* Mutant: a ledger that cannot be opened or recovered keeps the lease.
BugServiceFails(p) ==
  /\ Faults /\ main[p] \in {"lease", "store", "recover"} /\ Go(p, "raised")
  /\ store' = store \ {p}
  /\ UNCHANGED <<final, lease, worker, resources, recordings>>

(* The constructor's error path: the ledger and the lease are given up. *)
ServiceFails(p) ==
  /\ Faults /\ main[p] \in {"lease", "store", "recover"} /\ Go(p, "raised")
  /\ store' = store \ {p}
  /\ lease' = IF lease = p THEN Nobody ELSE lease
  /\ UNCHANGED <<final, worker, resources, recordings>>

(* create_server: Storage, CollectorServer, the worker's thread. *)

Construct(p) ==
  /\ From(p, "construct")
  /\ \/ Go(p, "bind") /\ pipe' = pipe \cup {p}
     \/ Faults /\ Go(p, "undo") /\ UNCHANGED pipe
  /\ UNCHANGED <<final, lease, store, worker, port, leaked, recordings>>

(* Where the address is taken or listening fails, TCPServer calls            *)
(* server_close, which during construction closes the socket and the pipe.   *)
Bind(p) ==
  /\ From(p, "bind")
  /\ \/ port = Nobody /\ Go(p, "start") /\ port' = p /\ UNCHANGED pipe
     \/ /\ port # Nobody \/ Faults
        /\ Go(p, "undo") /\ pipe' = pipe \ {p} /\ UNCHANGED port
  /\ UNCHANGED <<final, lease, store, worker, leaked, recordings>>

StartWorker(p) ==
  /\ From(p, "start")
  /\ \/ Go(p, "serve") /\ worker' = worker \cup {p} /\ UNCHANGED leaked
     \/ Faults /\ Go(p, "undo") /\ leaked' = leaked \cup {p} /\ UNCHANGED worker
  /\ UNCHANGED <<final, lease, store, port, pipe, recordings>>

-----------------------------------------------------------------------------
(* Serving: sessions register, are written and closed; a closure the ledger  *)
(* does not take at once is pending.                                         *)

Open(p, r) ==
  /\ From(p, "serve") /\ ledger[r] = "none"
  /\ ledger' = [ledger EXCEPT ![r] = "OPEN"]
  /\ writer' = [writer EXCEPT ![r] = p]
  /\ UNCHANGED <<main, final, lease, store, worker, resources, pending>>

CloseAll(p, closed) ==
  /\ writer' = [r \in Recordings |-> IF r \in closed THEN Nobody ELSE writer[r]]
  /\ \E late \in SUBSET closed :
       /\ late = {} \/ Faults
       /\ Mark(closed \ late)
       /\ pending' = [pending EXCEPT ![p] = @ \cup late]

IdleClose(p, r) ==
  /\ From(p, "serve") /\ writer[r] = p /\ CloseAll(p, {r})
  /\ UNCHANGED <<main, final, lease, store, worker, resources>>

(* The worker's prepare begins with flush_closures. *)
Flush(p) ==
  /\ p \in worker /\ pending[p] # {}
  /\ Mark(pending[p])
  /\ pending' = [pending EXCEPT ![p] = {}]
  /\ UNCHANGED <<main, final, lease, store, worker, resources, writer>>

Shutdown(p) ==
  /\ From(p, "serve") /\ Go(p, "stop")
  /\ CloseAll(p, Written(p))
  /\ UNCHANGED <<final, lease, store, worker, resources>>

-----------------------------------------------------------------------------
(* ReportingService.stop: the finalizer's thread is started; after a while   *)
(* it is no longer waited for. Where the thread cannot be started stop       *)
(* raises: server_close goes on to its next step, create_server ends. The    *)
(* thread object stays, so that a later stop only waits.                     *)

Stop(p) ==
  /\ main[p] \in {"stop", "undo"}
  /\ \/ /\ final' = [final EXCEPT ![p] = "join"]
        /\ Go(p, IF From(p, "stop") THEN "wait" ELSE "waitUndone")
     \/ /\ Faults
        /\ final' = [final EXCEPT ![p] = "unstarted"]
        /\ Go(p, IF From(p, "stop") THEN "tcp" ELSE "raised")
  /\ UNCHANGED <<lease, store, worker, resources, recordings>>

Waited(p) ==
  /\ main[p] \in {"wait", "waitUndone"}
  /\ Go(p, IF From(p, "wait") THEN "tcp" ELSE "raised")
  /\ UNCHANGED <<final, lease, store, worker, resources, recordings>>

(* _finish: an error in it, or a worker whose thread was never started, goes *)
(* straight on to the finally clauses.                                       *)

JoinWorker(p) ==
  /\ final[p] = "join"
  /\ final' = [final EXCEPT ![p] = IF p \in leaked THEN "store" ELSE "flush"]
  /\ worker' = worker \ {p}
  /\ UNCHANGED <<main, lease, store, resources, recordings>>

FlushAndPrepare(p) ==
  /\ final[p] = "flush"
  /\ final' = [final EXCEPT ![p] = "store"]
  /\ \E late \in SUBSET pending[p] :
       /\ late = {} \/ Faults
       /\ Mark(pending[p] \ late)
       /\ pending' = [pending EXCEPT ![p] = late]
  /\ UNCHANGED <<main, lease, store, worker, resources, writer>>

\* Mutants: the lease is given up first; an error keeps both.
BugCloseStore(p) ==
  /\ final[p] = "store"
  /\ final' = [final EXCEPT ![p] = "lease"]
  /\ lease' = Nobody
  /\ UNCHANGED <<main, store, worker, resources, recordings>>
BugCloseOnSuccess(p) ==
  /\ final[p] = "store" /\ pending[p] = {} /\ p \notin leaked
  /\ final' = [final EXCEPT ![p] = "lease"]
  /\ store' = store \ {p}
  /\ UNCHANGED <<main, lease, worker, resources, recordings>>

CloseStore(p) ==
  /\ final[p] = "store"
  /\ final' = [final EXCEPT ![p] = "lease"]
  /\ store' = store \ {p}
  /\ UNCHANGED <<main, lease, worker, resources, recordings>>

CloseLease(p) ==
  /\ final[p] = "lease"
  /\ final' = [final EXCEPT ![p] = "ended"]
  /\ lease' = Nobody
  /\ UNCHANGED <<main, store, worker, resources, recordings>>

(* server_close after reporting.stop: the socket and the pipe. *)
CloseServer(p) ==
  /\ From(p, "tcp") /\ Go(p, "returned")
  /\ port' = Nobody /\ pipe' = pipe \ {p}
  /\ UNCHANGED <<final, lease, store, worker, leaked, recordings>>

(* The process ends, by itself or killed: its daemon threads stop where they *)
(* are and the operating system takes back the rest.                         *)
Gone(p) ==
  /\ main' = [main EXCEPT ![p] = "off"] /\ final' = [final EXCEPT ![p] = "none"]
  /\ lease' = IF lease = p THEN Nobody ELSE lease
  /\ port' = IF port = p THEN Nobody ELSE port
  /\ store' = store \ {p} /\ worker' = worker \ {p}
  /\ pipe' = pipe \ {p} /\ leaked' = leaked \ {p}
  /\ writer' = [r \in Recordings |-> IF writer[r] = p THEN Nobody ELSE writer[r]]
  /\ pending' = [pending EXCEPT ![p] = {}]
  /\ UNCHANGED ledger

Exit(p)  == main[p] \in {"raised", "returned"} /\ Gone(p)
Crash(p) == Crashes /\ main[p] # "off" /\ Gone(p)

Main(p) ==
  \/ TakeLease(p) \/ OpenStore(p) \/ Recover(p) \/ ServiceFails(p)
  \/ Construct(p) \/ Bind(p) \/ StartWorker(p)
  \/ Stop(p) \/ Waited(p) \/ CloseServer(p)
Finalizer(p) == JoinWorker(p) \/ FlushAndPrepare(p) \/ CloseStore(p) \/ CloseLease(p)
Serving(p)   == (\E r \in Recordings : Open(p, r) \/ IdleClose(p, r)) \/ Flush(p) \/ Shutdown(p)

Next == \E p \in Procs : Launch(p) \/ Main(p) \/ Finalizer(p) \/ Serving(p) \/ Exit(p) \/ Crash(p)

Spec == Init /\ [][Next]_vars

(* The threads run. That a process is stopped, or exits, is not assumed. *)
Fairness == \A p \in Procs : WF_vars(Main(p)) /\ WF_vars(Finalizer(p))

FairSpec == Spec /\ Fairness

-----------------------------------------------------------------------------
(* However long a stop takes and wherever a start fails: only the lease's    *)
(* holder has the ledger open, a worker runs only there, and what somebody   *)
(* still writes is open in the ledger. No start, late closure or recovery of *)
(* another process declares it closed, so that it would be scanned and told  *)
(* of while it grows.                                                        *)
LedgerIsOwned ==
  /\ \A p \in store : lease = p
  /\ worker \subseteq store
  /\ \A r \in Recordings : writer[r] # Nobody => ledger[r] = "OPEN"

(* A start that failed has taken back what it took, before the process ends: *)
(* the lease and the ledger, the port and the pipe, and no worker runs.      *)
(* (Where the worker's thread could not be started, the server object is     *)
(* left to the exception; where the finalizer's could not, the lease stays   *)
(* with the ledger it guards.)                                               *)
FailedStartIsUndone ==
  \A p \in Procs : main[p] = "raised" =>
    /\ p \notin worker
    /\ final[p] \in {"none", "ended"} => lease # p /\ p \notin store
    /\ final[p] = "unstarted" => lease = p /\ p \in store
    /\ p \notin leaked => port # p /\ p \notin pipe

(* A process that is being stopped, or whose start fails, gives the lease    *)
(* back, even if it does not exit and even if its finalizer meets errors.    *)
(* Only a finalizer whose thread could not be started leaves it to the exit. *)
LeaseIsReturned ==
  \A p \in Procs : main[p] \in Ending ~> lease # p \/ final[p] = "unstarted"
=============================================================================
