-------------------------- MODULE OwnershipProofs --------------------------
(***************************************************************************)
(* The safety properties of Ownership for any number of processes and      *)
(* recordings.                                                             *)
(***************************************************************************)
EXTENDS Ownership, TLAPS

Holding == {"store", "recover", "construct", "bind", "start", "serve", "stop", "undo"}
Left    == {"wait", "waitUndone", "tcp", "raised", "returned"}

(* A finalizer exists once its main thread has got past stop.                *)
FinalizerFollowsStop ==
  \A p \in Procs : /\ final[p] # "none" => main[p] \in Left
                   /\ main[p] \in Left \ {"raised"} => final[p] # "none"

(* A process holds the lease from taking it until its finalizer gives it up, *)
(* and not longer, unless the finalizer was never started.                   *)
LeaseIsHeld ==
  \A p \in Procs :
    /\ main[p] \in Holding => lease = p
    /\ final[p] \in {"join", "flush", "store", "lease", "unstarted"} => lease = p
    /\ lease = p => main[p] \in Holding \/ final[p] \in {"join", "flush", "store", "lease", "unstarted"}

(* The ledger is opened after the lease and closed before it, by the same.   *)
LedgerUnderLease ==
  \A p \in Procs :
    /\ p \in store => \/ main[p] \in Holding \ {"store"}
                      \/ final[p] \in {"join", "flush", "store", "unstarted"}
    /\ main[p] \in Holding \ {"store"} => p \in store
    /\ final[p] \in {"join", "flush", "store", "unstarted"} => p \in store

(* A worker runs from the end of a start until its finalizer has joined it.  *)
WorkerUnderLedger ==
  \A p \in worker : \/ main[p] \in {"serve", "stop"}
                    \/ final[p] \in {"join", "unstarted"} /\ main[p] \in {"wait", "tcp", "returned"}

(* Streams are open only while their process serves, in the ledger as well;  *)
(* a closure is pending for a closed stream only.                            *)
WritersServe ==
  /\ \A r \in Recordings : writer[r] # Nobody => main[writer[r]] = "serve" /\ ledger[r] = "OPEN"
  /\ \A p \in Procs : \A r \in pending[p] : writer[r] = Nobody /\ ledger[r] # "none"

(* The port and the pipe belong to a server that was made, unless the worker *)
(* could not be started.                                                     *)
ServerOwnsSockets ==
  \A p \in Procs :
    /\ p \in leaked => main[p] \in {"undo", "waitUndone", "raised"}
    /\ p \in pipe => p \in leaked \/ main[p] \in {"bind", "start", "serve", "stop", "wait", "tcp"}
    /\ port = p => p \in leaked \/ main[p] \in {"start", "serve", "stop", "wait", "tcp"}

IndInv ==
  /\ TypeOK /\ FinalizerFollowsStop /\ LeaseIsHeld /\ LedgerUnderLease /\ WorkerUnderLedger
  /\ WritersServe /\ ServerOwnsSockets

(* Every action keeps the types. *)
LEMMA TypeStep ==
  TypeOK /\ [Next]_vars => TypeOK'
<1> SUFFICES ASSUME TypeOK, [Next]_vars PROVE TypeOK'
  OBVIOUS
<1> USE OwnershipAssumption DEF TypeOK, Starting, Ending
<1>1. ASSUME NEW p \in Procs, Launch(p) PROVE TypeOK'
  BY <1>1 DEF Launch, Go, From, resources, recordings
<1>2. ASSUME NEW p \in Procs, TakeLease(p) PROVE TypeOK'
  BY <1>2 DEF TakeLease, Go, From, resources, recordings
<1>3. ASSUME NEW p \in Procs, OpenStore(p) PROVE TypeOK'
  BY <1>3 DEF OpenStore, Go, From, resources, recordings
<1>4. ASSUME NEW p \in Procs, Recover(p) PROVE TypeOK'
  BY <1>4 DEF Recover, Go, From, Mark, resources, recordings
<1>5. ASSUME NEW p \in Procs, ServiceFails(p) PROVE TypeOK'
  BY <1>5 DEF ServiceFails, Go, resources, recordings
<1>6. ASSUME NEW p \in Procs, Construct(p) PROVE TypeOK'
  BY <1>6 DEF Construct, Go, From, resources, recordings
<1>7. ASSUME NEW p \in Procs, Bind(p) PROVE TypeOK'
  BY <1>7 DEF Bind, Go, From, resources, recordings
<1>8. ASSUME NEW p \in Procs, StartWorker(p) PROVE TypeOK'
  BY <1>8 DEF StartWorker, Go, From, resources, recordings
<1>9. ASSUME NEW p \in Procs, Stop(p) PROVE TypeOK'
  BY <1>9 DEF Stop, Go, From, resources, recordings
<1>10. ASSUME NEW p \in Procs, Waited(p) PROVE TypeOK'
  BY <1>10 DEF Waited, Go, From, resources, recordings
<1>11. ASSUME NEW p \in Procs, CloseServer(p) PROVE TypeOK'
  BY <1>11 DEF CloseServer, Go, From, resources, recordings
<1>12. ASSUME NEW p \in Procs, JoinWorker(p) PROVE TypeOK'
  BY <1>12 DEF JoinWorker, resources, recordings
<1>13. ASSUME NEW p \in Procs, FlushAndPrepare(p) PROVE TypeOK'
  BY <1>13 DEF FlushAndPrepare, Mark, resources, recordings
<1>14. ASSUME NEW p \in Procs, CloseStore(p) PROVE TypeOK'
  BY <1>14 DEF CloseStore, resources, recordings
<1>15. ASSUME NEW p \in Procs, CloseLease(p) PROVE TypeOK'
  BY <1>15 DEF CloseLease, resources, recordings
<1>16. ASSUME NEW p \in Procs, NEW r \in Recordings, Open(p, r) PROVE TypeOK'
  BY <1>16 DEF Open, From, resources, recordings
<1>17. ASSUME NEW p \in Procs, NEW r \in Recordings, IdleClose(p, r) PROVE TypeOK'
  BY <1>17 DEF IdleClose, From, CloseAll, Mark, resources, recordings
<1>18. ASSUME NEW p \in Procs, Flush(p) PROVE TypeOK'
  BY <1>18 DEF Flush, Mark, resources, recordings
<1>19. ASSUME NEW p \in Procs, Shutdown(p) PROVE TypeOK'
  BY <1>19 DEF Shutdown, Go, From, CloseAll, Mark, Written, resources, recordings
<1>20. ASSUME NEW p \in Procs, Exit(p) PROVE TypeOK'
  BY <1>20 DEF Exit, Gone, resources, recordings
<1>21. ASSUME NEW p \in Procs, Crash(p) PROVE TypeOK'
  BY <1>21 DEF Crash, Gone, resources, recordings
<1>22. CASE UNCHANGED vars
  BY <1>22 DEF vars, resources, recordings
<1>. QED
  BY Zenon, <1>1, <1>2, <1>3, <1>4, <1>5, <1>6, <1>7, <1>8, <1>9, <1>10, <1>11, <1>12,
      <1>13, <1>14, <1>15, <1>16, <1>17, <1>18, <1>19, <1>20, <1>21, <1>22 DEF Next, Main,
      Finalizer, Serving

(* Every action preserves the order of stop and finalizer. *)
LEMMA FinalizerFollowsStopStep ==
  IndInv /\ TypeOK' /\ [Next]_vars => FinalizerFollowsStop'
<1> SUFFICES ASSUME IndInv, TypeOK', [Next]_vars PROVE FinalizerFollowsStop'
  OBVIOUS
<1> USE OwnershipAssumption DEF IndInv, TypeOK, Starting, Ending, Holding, Left,
    FinalizerFollowsStop
<1>1. ASSUME NEW p \in Procs, Launch(p) PROVE FinalizerFollowsStop'
  BY <1>1 DEF Launch, Go, From, resources, recordings
<1>2. ASSUME NEW p \in Procs, TakeLease(p) PROVE FinalizerFollowsStop'
  BY <1>2 DEF TakeLease, Go, From, resources, recordings
<1>3. ASSUME NEW p \in Procs, OpenStore(p) PROVE FinalizerFollowsStop'
  BY <1>3 DEF OpenStore, Go, From, resources, recordings
<1>4. ASSUME NEW p \in Procs, Recover(p) PROVE FinalizerFollowsStop'
  BY <1>4 DEF Recover, Go, From, resources, recordings
<1>5. ASSUME NEW p \in Procs, ServiceFails(p) PROVE FinalizerFollowsStop'
  BY <1>5 DEF ServiceFails, Go, resources, recordings
<1>6. ASSUME NEW p \in Procs, Construct(p) PROVE FinalizerFollowsStop'
  BY <1>6 DEF Construct, Go, From, resources, recordings
<1>7. ASSUME NEW p \in Procs, Bind(p) PROVE FinalizerFollowsStop'
  BY <1>7 DEF Bind, Go, From, resources, recordings
<1>8. ASSUME NEW p \in Procs, StartWorker(p) PROVE FinalizerFollowsStop'
  BY <1>8 DEF StartWorker, Go, From, resources, recordings
<1>9. ASSUME NEW p \in Procs, Stop(p) PROVE FinalizerFollowsStop'
  BY <1>9 DEF Stop, Go, From, resources, recordings
<1>10. ASSUME NEW p \in Procs, Waited(p) PROVE FinalizerFollowsStop'
  BY <1>10 DEF Waited, Go, From, resources, recordings
<1>11. ASSUME NEW p \in Procs, CloseServer(p) PROVE FinalizerFollowsStop'
  BY <1>11 DEF CloseServer, Go, From, resources, recordings
<1>12. ASSUME NEW p \in Procs, JoinWorker(p) PROVE FinalizerFollowsStop'
  BY <1>12 DEF JoinWorker, resources, recordings
<1>13. ASSUME NEW p \in Procs, FlushAndPrepare(p) PROVE FinalizerFollowsStop'
  BY <1>13 DEF FlushAndPrepare, resources, recordings
<1>14. ASSUME NEW p \in Procs, CloseStore(p) PROVE FinalizerFollowsStop'
  BY <1>14 DEF CloseStore, resources, recordings
<1>15. ASSUME NEW p \in Procs, CloseLease(p) PROVE FinalizerFollowsStop'
  BY <1>15 DEF CloseLease, resources, recordings
<1>16. ASSUME NEW p \in Procs, NEW r \in Recordings, Open(p, r) PROVE FinalizerFollowsStop'
  BY <1>16 DEF Open, From, resources, recordings
<1>17. ASSUME NEW p \in Procs, NEW r \in Recordings, IdleClose(p, r) PROVE FinalizerFollowsStop'
  BY <1>17 DEF IdleClose, From, resources, recordings
<1>18. ASSUME NEW p \in Procs, Flush(p) PROVE FinalizerFollowsStop'
  BY <1>18 DEF Flush, resources, recordings
<1>19. ASSUME NEW p \in Procs, Shutdown(p) PROVE FinalizerFollowsStop'
  BY <1>19 DEF Shutdown, Go, From, resources, recordings
<1>20. ASSUME NEW p \in Procs, Exit(p) PROVE FinalizerFollowsStop'
  BY <1>20 DEF Exit, Gone, resources, recordings
<1>21. ASSUME NEW p \in Procs, Crash(p) PROVE FinalizerFollowsStop'
  BY <1>21 DEF Crash, Gone, resources, recordings
<1>22. CASE UNCHANGED vars
  BY <1>22 DEF vars, resources, recordings
<1>. QED
  BY Zenon, <1>1, <1>2, <1>3, <1>4, <1>5, <1>6, <1>7, <1>8, <1>9, <1>10, <1>11, <1>12,
      <1>13, <1>14, <1>15, <1>16, <1>17, <1>18, <1>19, <1>20, <1>21, <1>22 DEF Next, Main,
      Finalizer, Serving

(* Every action preserves who holds the lease. *)
LEMMA LeaseIsHeldStep ==
  IndInv /\ TypeOK' /\ [Next]_vars => LeaseIsHeld'
<1> SUFFICES ASSUME IndInv, TypeOK', [Next]_vars PROVE LeaseIsHeld'
  OBVIOUS
<1> USE OwnershipAssumption DEF IndInv, TypeOK, Starting, Ending, Holding, Left,
    LeaseIsHeld, FinalizerFollowsStop
<1>1. ASSUME NEW p \in Procs, Launch(p) PROVE LeaseIsHeld'
  BY <1>1 DEF Launch, Go, From, resources, recordings
<1>2. ASSUME NEW p \in Procs, TakeLease(p) PROVE LeaseIsHeld'
  BY <1>2 DEF TakeLease, Go, From, resources, recordings
<1>3. ASSUME NEW p \in Procs, OpenStore(p) PROVE LeaseIsHeld'
  BY <1>3 DEF OpenStore, Go, From, resources, recordings
<1>4. ASSUME NEW p \in Procs, Recover(p) PROVE LeaseIsHeld'
  BY <1>4 DEF Recover, Go, From, resources, recordings
<1>5. ASSUME NEW p \in Procs, ServiceFails(p) PROVE LeaseIsHeld'
  BY <1>5 DEF ServiceFails, Go, resources, recordings
<1>6. ASSUME NEW p \in Procs, Construct(p) PROVE LeaseIsHeld'
  BY <1>6 DEF Construct, Go, From, resources, recordings
<1>7. ASSUME NEW p \in Procs, Bind(p) PROVE LeaseIsHeld'
  BY <1>7 DEF Bind, Go, From, resources, recordings
<1>8. ASSUME NEW p \in Procs, StartWorker(p) PROVE LeaseIsHeld'
  BY <1>8 DEF StartWorker, Go, From, resources, recordings
<1>9. ASSUME NEW p \in Procs, Stop(p) PROVE LeaseIsHeld'
  BY <1>9 DEF Stop, Go, From, resources, recordings
<1>10. ASSUME NEW p \in Procs, Waited(p) PROVE LeaseIsHeld'
  BY <1>10 DEF Waited, Go, From, resources, recordings
<1>11. ASSUME NEW p \in Procs, CloseServer(p) PROVE LeaseIsHeld'
  BY <1>11 DEF CloseServer, Go, From, resources, recordings
<1>12. ASSUME NEW p \in Procs, JoinWorker(p) PROVE LeaseIsHeld'
  BY <1>12 DEF JoinWorker, resources, recordings
<1>13. ASSUME NEW p \in Procs, FlushAndPrepare(p) PROVE LeaseIsHeld'
  BY <1>13 DEF FlushAndPrepare, resources, recordings
<1>14. ASSUME NEW p \in Procs, CloseStore(p) PROVE LeaseIsHeld'
  BY <1>14 DEF CloseStore, resources, recordings
<1>15. ASSUME NEW p \in Procs, CloseLease(p) PROVE LeaseIsHeld'
  BY <1>15 DEF CloseLease, resources, recordings
<1>16. ASSUME NEW p \in Procs, NEW r \in Recordings, Open(p, r) PROVE LeaseIsHeld'
  BY <1>16 DEF Open, From, resources, recordings
<1>17. ASSUME NEW p \in Procs, NEW r \in Recordings, IdleClose(p, r) PROVE LeaseIsHeld'
  BY <1>17 DEF IdleClose, From, resources, recordings
<1>18. ASSUME NEW p \in Procs, Flush(p) PROVE LeaseIsHeld'
  BY <1>18 DEF Flush, resources, recordings
<1>19. ASSUME NEW p \in Procs, Shutdown(p) PROVE LeaseIsHeld'
  BY <1>19 DEF Shutdown, Go, From, resources, recordings
<1>20. ASSUME NEW p \in Procs, Exit(p) PROVE LeaseIsHeld'
  BY <1>20 DEF Exit, Gone, resources, recordings
<1>21. ASSUME NEW p \in Procs, Crash(p) PROVE LeaseIsHeld'
  BY <1>21 DEF Crash, Gone, resources, recordings
<1>22. CASE UNCHANGED vars
  BY <1>22 DEF vars, resources, recordings
<1>. QED
  BY Zenon, <1>1, <1>2, <1>3, <1>4, <1>5, <1>6, <1>7, <1>8, <1>9, <1>10, <1>11, <1>12,
      <1>13, <1>14, <1>15, <1>16, <1>17, <1>18, <1>19, <1>20, <1>21, <1>22 DEF Next, Main,
      Finalizer, Serving

(* Every action preserves the span of the open ledger. *)
LEMMA LedgerUnderLeaseStep ==
  IndInv /\ TypeOK' /\ [Next]_vars => LedgerUnderLease'
<1> SUFFICES ASSUME IndInv, TypeOK', [Next]_vars PROVE LedgerUnderLease'
  OBVIOUS
<1> USE OwnershipAssumption DEF IndInv, TypeOK, Starting, Ending, Holding, Left,
    LedgerUnderLease, FinalizerFollowsStop
<1>1. ASSUME NEW p \in Procs, Launch(p) PROVE LedgerUnderLease'
  BY <1>1 DEF Launch, Go, From, resources, recordings
<1>2. ASSUME NEW p \in Procs, TakeLease(p) PROVE LedgerUnderLease'
  BY <1>2 DEF TakeLease, Go, From, resources, recordings
<1>3. ASSUME NEW p \in Procs, OpenStore(p) PROVE LedgerUnderLease'
  BY <1>3 DEF OpenStore, Go, From, resources, recordings
<1>4. ASSUME NEW p \in Procs, Recover(p) PROVE LedgerUnderLease'
  BY <1>4 DEF Recover, Go, From, resources, recordings
<1>5. ASSUME NEW p \in Procs, ServiceFails(p) PROVE LedgerUnderLease'
  BY <1>5 DEF ServiceFails, Go, resources, recordings
<1>6. ASSUME NEW p \in Procs, Construct(p) PROVE LedgerUnderLease'
  BY <1>6 DEF Construct, Go, From, resources, recordings
<1>7. ASSUME NEW p \in Procs, Bind(p) PROVE LedgerUnderLease'
  BY <1>7 DEF Bind, Go, From, resources, recordings
<1>8. ASSUME NEW p \in Procs, StartWorker(p) PROVE LedgerUnderLease'
  BY <1>8 DEF StartWorker, Go, From, resources, recordings
<1>9. ASSUME NEW p \in Procs, Stop(p) PROVE LedgerUnderLease'
  BY <1>9 DEF Stop, Go, From, resources, recordings
<1>10. ASSUME NEW p \in Procs, Waited(p) PROVE LedgerUnderLease'
  BY <1>10 DEF Waited, Go, From, resources, recordings
<1>11. ASSUME NEW p \in Procs, CloseServer(p) PROVE LedgerUnderLease'
  BY <1>11 DEF CloseServer, Go, From, resources, recordings
<1>12. ASSUME NEW p \in Procs, JoinWorker(p) PROVE LedgerUnderLease'
  BY <1>12 DEF JoinWorker, resources, recordings
<1>13. ASSUME NEW p \in Procs, FlushAndPrepare(p) PROVE LedgerUnderLease'
  BY <1>13 DEF FlushAndPrepare, resources, recordings
<1>14. ASSUME NEW p \in Procs, CloseStore(p) PROVE LedgerUnderLease'
  BY <1>14 DEF CloseStore, resources, recordings
<1>15. ASSUME NEW p \in Procs, CloseLease(p) PROVE LedgerUnderLease'
  BY <1>15 DEF CloseLease, resources, recordings
<1>16. ASSUME NEW p \in Procs, NEW r \in Recordings, Open(p, r) PROVE LedgerUnderLease'
  BY <1>16 DEF Open, From, resources, recordings
<1>17. ASSUME NEW p \in Procs, NEW r \in Recordings, IdleClose(p, r) PROVE LedgerUnderLease'
  BY <1>17 DEF IdleClose, From, resources, recordings
<1>18. ASSUME NEW p \in Procs, Flush(p) PROVE LedgerUnderLease'
  BY <1>18 DEF Flush, resources, recordings
<1>19. ASSUME NEW p \in Procs, Shutdown(p) PROVE LedgerUnderLease'
  BY <1>19 DEF Shutdown, Go, From, resources, recordings
<1>20. ASSUME NEW p \in Procs, Exit(p) PROVE LedgerUnderLease'
  BY <1>20 DEF Exit, Gone, resources, recordings
<1>21. ASSUME NEW p \in Procs, Crash(p) PROVE LedgerUnderLease'
  BY <1>21 DEF Crash, Gone, resources, recordings
<1>22. CASE UNCHANGED vars
  BY <1>22 DEF vars, resources, recordings
<1>. QED
  BY Zenon, <1>1, <1>2, <1>3, <1>4, <1>5, <1>6, <1>7, <1>8, <1>9, <1>10, <1>11, <1>12,
      <1>13, <1>14, <1>15, <1>16, <1>17, <1>18, <1>19, <1>20, <1>21, <1>22 DEF Next, Main,
      Finalizer, Serving

(* Every action preserves the span of the worker. *)
LEMMA WorkerUnderLedgerStep ==
  IndInv /\ TypeOK' /\ [Next]_vars => WorkerUnderLedger'
<1> SUFFICES ASSUME IndInv, TypeOK', [Next]_vars PROVE WorkerUnderLedger'
  OBVIOUS
<1> USE OwnershipAssumption DEF IndInv, TypeOK, Starting, Ending, Holding, Left,
    WorkerUnderLedger, FinalizerFollowsStop
<1>1. ASSUME NEW p \in Procs, Launch(p) PROVE WorkerUnderLedger'
  BY <1>1 DEF Launch, Go, From, resources, recordings
<1>2. ASSUME NEW p \in Procs, TakeLease(p) PROVE WorkerUnderLedger'
  BY <1>2 DEF TakeLease, Go, From, resources, recordings
<1>3. ASSUME NEW p \in Procs, OpenStore(p) PROVE WorkerUnderLedger'
  BY <1>3 DEF OpenStore, Go, From, resources, recordings
<1>4. ASSUME NEW p \in Procs, Recover(p) PROVE WorkerUnderLedger'
  BY <1>4 DEF Recover, Go, From, resources, recordings
<1>5. ASSUME NEW p \in Procs, ServiceFails(p) PROVE WorkerUnderLedger'
  BY <1>5 DEF ServiceFails, Go, resources, recordings
<1>6. ASSUME NEW p \in Procs, Construct(p) PROVE WorkerUnderLedger'
  BY <1>6 DEF Construct, Go, From, resources, recordings
<1>7. ASSUME NEW p \in Procs, Bind(p) PROVE WorkerUnderLedger'
  BY <1>7 DEF Bind, Go, From, resources, recordings
<1>8. ASSUME NEW p \in Procs, StartWorker(p) PROVE WorkerUnderLedger'
  BY <1>8 DEF StartWorker, Go, From, resources, recordings
<1>9. ASSUME NEW p \in Procs, Stop(p) PROVE WorkerUnderLedger'
  BY <1>9 DEF Stop, Go, From, resources, recordings
<1>10. ASSUME NEW p \in Procs, Waited(p) PROVE WorkerUnderLedger'
  BY <1>10 DEF Waited, Go, From, resources, recordings
<1>11. ASSUME NEW p \in Procs, CloseServer(p) PROVE WorkerUnderLedger'
  BY <1>11 DEF CloseServer, Go, From, resources, recordings
<1>12. ASSUME NEW p \in Procs, JoinWorker(p) PROVE WorkerUnderLedger'
  BY <1>12 DEF JoinWorker, resources, recordings
<1>13. ASSUME NEW p \in Procs, FlushAndPrepare(p) PROVE WorkerUnderLedger'
  BY <1>13 DEF FlushAndPrepare, resources, recordings
<1>14. ASSUME NEW p \in Procs, CloseStore(p) PROVE WorkerUnderLedger'
  BY <1>14 DEF CloseStore, resources, recordings
<1>15. ASSUME NEW p \in Procs, CloseLease(p) PROVE WorkerUnderLedger'
  BY <1>15 DEF CloseLease, resources, recordings
<1>16. ASSUME NEW p \in Procs, NEW r \in Recordings, Open(p, r) PROVE WorkerUnderLedger'
  BY <1>16 DEF Open, From, resources, recordings
<1>17. ASSUME NEW p \in Procs, NEW r \in Recordings, IdleClose(p, r) PROVE WorkerUnderLedger'
  BY <1>17 DEF IdleClose, From, resources, recordings
<1>18. ASSUME NEW p \in Procs, Flush(p) PROVE WorkerUnderLedger'
  BY <1>18 DEF Flush, resources, recordings
<1>19. ASSUME NEW p \in Procs, Shutdown(p) PROVE WorkerUnderLedger'
  BY <1>19 DEF Shutdown, Go, From, resources, recordings
<1>20. ASSUME NEW p \in Procs, Exit(p) PROVE WorkerUnderLedger'
  BY <1>20 DEF Exit, Gone, resources, recordings
<1>21. ASSUME NEW p \in Procs, Crash(p) PROVE WorkerUnderLedger'
  BY <1>21 DEF Crash, Gone, resources, recordings
<1>22. CASE UNCHANGED vars
  BY <1>22 DEF vars, resources, recordings
<1>. QED
  BY Zenon, <1>1, <1>2, <1>3, <1>4, <1>5, <1>6, <1>7, <1>8, <1>9, <1>10, <1>11, <1>12,
      <1>13, <1>14, <1>15, <1>16, <1>17, <1>18, <1>19, <1>20, <1>21, <1>22 DEF Next, Main,
      Finalizer, Serving

(* Every action preserves the open streams. *)
LEMMA WritersServeStep ==
  IndInv /\ TypeOK' /\ [Next]_vars => WritersServe'
<1> SUFFICES ASSUME IndInv, TypeOK', [Next]_vars PROVE WritersServe'
  OBVIOUS
<1> USE OwnershipAssumption DEF IndInv, TypeOK, Starting, Ending, Holding, Left,
    WritersServe, LeaseIsHeld
<1>1. ASSUME NEW p \in Procs, Launch(p) PROVE WritersServe'
  BY <1>1 DEF Launch, Go, From, resources, recordings
<1>2. ASSUME NEW p \in Procs, TakeLease(p) PROVE WritersServe'
  BY <1>2 DEF TakeLease, Go, From, resources, recordings
<1>3. ASSUME NEW p \in Procs, OpenStore(p) PROVE WritersServe'
  BY <1>3 DEF OpenStore, Go, From, resources, recordings
<1>4. ASSUME NEW p \in Procs, Recover(p) PROVE WritersServe'
  BY <1>4 DEF Recover, Go, From, Mark, resources, recordings
<1>5. ASSUME NEW p \in Procs, ServiceFails(p) PROVE WritersServe'
  BY <1>5 DEF ServiceFails, Go, resources, recordings
<1>6. ASSUME NEW p \in Procs, Construct(p) PROVE WritersServe'
  BY <1>6 DEF Construct, Go, From, resources, recordings
<1>7. ASSUME NEW p \in Procs, Bind(p) PROVE WritersServe'
  BY <1>7 DEF Bind, Go, From, resources, recordings
<1>8. ASSUME NEW p \in Procs, StartWorker(p) PROVE WritersServe'
  BY <1>8 DEF StartWorker, Go, From, resources, recordings
<1>9. ASSUME NEW p \in Procs, Stop(p) PROVE WritersServe'
  BY <1>9 DEF Stop, Go, From, resources, recordings
<1>10. ASSUME NEW p \in Procs, Waited(p) PROVE WritersServe'
  BY <1>10 DEF Waited, Go, From, resources, recordings
<1>11. ASSUME NEW p \in Procs, CloseServer(p) PROVE WritersServe'
  BY <1>11 DEF CloseServer, Go, From, resources, recordings
<1>12. ASSUME NEW p \in Procs, JoinWorker(p) PROVE WritersServe'
  BY <1>12 DEF JoinWorker, resources, recordings
<1>13. ASSUME NEW p \in Procs, FlushAndPrepare(p) PROVE WritersServe'
  BY <1>13 DEF FlushAndPrepare, Mark, resources, recordings
<1>14. ASSUME NEW p \in Procs, CloseStore(p) PROVE WritersServe'
  BY <1>14 DEF CloseStore, resources, recordings
<1>15. ASSUME NEW p \in Procs, CloseLease(p) PROVE WritersServe'
  BY <1>15 DEF CloseLease, resources, recordings
<1>16. ASSUME NEW p \in Procs, NEW r \in Recordings, Open(p, r) PROVE WritersServe'
  BY <1>16 DEF Open, From, resources, recordings
<1>17. ASSUME NEW p \in Procs, NEW r \in Recordings, IdleClose(p, r) PROVE WritersServe'
  BY <1>17 DEF IdleClose, From, CloseAll, Mark, resources, recordings
<1>18. ASSUME NEW p \in Procs, Flush(p) PROVE WritersServe'
  BY <1>18 DEF Flush, Mark, resources, recordings
<1>19. ASSUME NEW p \in Procs, Shutdown(p) PROVE WritersServe'
  BY <1>19 DEF Shutdown, Go, From, CloseAll, Mark, Written, resources, recordings
<1>20. ASSUME NEW p \in Procs, Exit(p) PROVE WritersServe'
  BY <1>20 DEF Exit, Gone, resources, recordings
<1>21. ASSUME NEW p \in Procs, Crash(p) PROVE WritersServe'
  BY <1>21 DEF Crash, Gone, resources, recordings
<1>22. CASE UNCHANGED vars
  BY <1>22 DEF vars, resources, recordings
<1>. QED
  BY Zenon, <1>1, <1>2, <1>3, <1>4, <1>5, <1>6, <1>7, <1>8, <1>9, <1>10, <1>11, <1>12,
      <1>13, <1>14, <1>15, <1>16, <1>17, <1>18, <1>19, <1>20, <1>21, <1>22 DEF Next, Main,
      Finalizer, Serving

(* Every action preserves who owns the port and the pipe. *)
LEMMA ServerOwnsSocketsStep ==
  IndInv /\ TypeOK' /\ [Next]_vars => ServerOwnsSockets'
<1> SUFFICES ASSUME IndInv, TypeOK', [Next]_vars PROVE ServerOwnsSockets'
  OBVIOUS
<1> USE OwnershipAssumption DEF IndInv, TypeOK, Starting, Ending, Holding, Left,
    ServerOwnsSockets
<1>1. ASSUME NEW p \in Procs, Launch(p) PROVE ServerOwnsSockets'
  BY <1>1 DEF Launch, Go, From, resources, recordings
<1>2. ASSUME NEW p \in Procs, TakeLease(p) PROVE ServerOwnsSockets'
  BY <1>2 DEF TakeLease, Go, From, resources, recordings
<1>3. ASSUME NEW p \in Procs, OpenStore(p) PROVE ServerOwnsSockets'
  BY <1>3 DEF OpenStore, Go, From, resources, recordings
<1>4. ASSUME NEW p \in Procs, Recover(p) PROVE ServerOwnsSockets'
  BY <1>4 DEF Recover, Go, From, resources, recordings
<1>5. ASSUME NEW p \in Procs, ServiceFails(p) PROVE ServerOwnsSockets'
  BY <1>5 DEF ServiceFails, Go, resources, recordings
<1>6. ASSUME NEW p \in Procs, Construct(p) PROVE ServerOwnsSockets'
  BY <1>6 DEF Construct, Go, From, resources, recordings
<1>7. ASSUME NEW p \in Procs, Bind(p) PROVE ServerOwnsSockets'
  BY <1>7 DEF Bind, Go, From, resources, recordings
<1>8. ASSUME NEW p \in Procs, StartWorker(p) PROVE ServerOwnsSockets'
  BY <1>8 DEF StartWorker, Go, From, resources, recordings
<1>9. ASSUME NEW p \in Procs, Stop(p) PROVE ServerOwnsSockets'
  BY <1>9 DEF Stop, Go, From, resources, recordings
<1>10. ASSUME NEW p \in Procs, Waited(p) PROVE ServerOwnsSockets'
  BY <1>10 DEF Waited, Go, From, resources, recordings
<1>11. ASSUME NEW p \in Procs, CloseServer(p) PROVE ServerOwnsSockets'
  BY <1>11 DEF CloseServer, Go, From, resources, recordings
<1>12. ASSUME NEW p \in Procs, JoinWorker(p) PROVE ServerOwnsSockets'
  BY <1>12 DEF JoinWorker, resources, recordings
<1>13. ASSUME NEW p \in Procs, FlushAndPrepare(p) PROVE ServerOwnsSockets'
  BY <1>13 DEF FlushAndPrepare, resources, recordings
<1>14. ASSUME NEW p \in Procs, CloseStore(p) PROVE ServerOwnsSockets'
  BY <1>14 DEF CloseStore, resources, recordings
<1>15. ASSUME NEW p \in Procs, CloseLease(p) PROVE ServerOwnsSockets'
  BY <1>15 DEF CloseLease, resources, recordings
<1>16. ASSUME NEW p \in Procs, NEW r \in Recordings, Open(p, r) PROVE ServerOwnsSockets'
  BY <1>16 DEF Open, From, resources, recordings
<1>17. ASSUME NEW p \in Procs, NEW r \in Recordings, IdleClose(p, r) PROVE ServerOwnsSockets'
  BY <1>17 DEF IdleClose, From, resources, recordings
<1>18. ASSUME NEW p \in Procs, Flush(p) PROVE ServerOwnsSockets'
  BY <1>18 DEF Flush, resources, recordings
<1>19. ASSUME NEW p \in Procs, Shutdown(p) PROVE ServerOwnsSockets'
  BY <1>19 DEF Shutdown, Go, From, resources, recordings
<1>20. ASSUME NEW p \in Procs, Exit(p) PROVE ServerOwnsSockets'
  BY <1>20 DEF Exit, Gone, resources, recordings
<1>21. ASSUME NEW p \in Procs, Crash(p) PROVE ServerOwnsSockets'
  BY <1>21 DEF Crash, Gone, resources, recordings
<1>22. CASE UNCHANGED vars
  BY <1>22 DEF vars, resources, recordings
<1>. QED
  BY Zenon, <1>1, <1>2, <1>3, <1>4, <1>5, <1>6, <1>7, <1>8, <1>9, <1>10, <1>11, <1>12,
      <1>13, <1>14, <1>15, <1>16, <1>17, <1>18, <1>19, <1>20, <1>21, <1>22 DEF Next, Main,
      Finalizer, Serving

(* The invariant holds in every state of every behaviour: typing first, then *)
(* each conjunct by its lemma.                                               *)
THEOREM Invariance == Spec => []IndInv
<1>1. Init => IndInv
  <2> SUFFICES ASSUME Init PROVE IndInv
    OBVIOUS
  <2>1. TypeOK
    BY DEF Init, TypeOK, Starting, Ending
  <2>2. FinalizerFollowsStop /\ LeaseIsHeld /\ LedgerUnderLease /\ WorkerUnderLedger
    BY OwnershipAssumption DEF Init, FinalizerFollowsStop, LeaseIsHeld,
        LedgerUnderLease, WorkerUnderLedger, Holding, Left
  <2>3. WritersServe /\ ServerOwnsSockets
    BY OwnershipAssumption DEF Init, WritersServe, ServerOwnsSockets
  <2>. QED
    BY <2>1, <2>2, <2>3 DEF IndInv
<1>2. IndInv /\ [Next]_vars => IndInv'
  <2> SUFFICES ASSUME IndInv, [Next]_vars PROVE IndInv'
    OBVIOUS
  <2>1. TypeOK'
    BY TypeStep DEF IndInv
  <2>. QED
    BY <2>1, FinalizerFollowsStopStep, LeaseIsHeldStep, LedgerUnderLeaseStep,
        WorkerUnderLedgerStep, WritersServeStep, ServerOwnsSocketsStep DEF IndInv
<1>. QED
  BY <1>1, <1>2, PTL DEF Spec

(* Every variable has its type. *)
THEOREM TypeCorrect == Spec => []TypeOK
  BY Invariance, PTL DEF IndInv

(* Only the holder of the lease has the ledger open and a worker running,    *)
(* and no process has declared closed what is still written.                 *)
THEOREM LedgerOwned == Spec => []LedgerIsOwned
<1>1. IndInv => LedgerIsOwned
  BY DEF IndInv, TypeOK, LeaseIsHeld, LedgerUnderLease, WorkerUnderLedger, WritersServe,
      LedgerIsOwned, Holding
<1>. QED
  BY <1>1, Invariance, PTL

(* A start that failed has given back the lease, the ledger, the port and    *)
(* the pipe, but for a server whose worker could not be started and for a    *)
(* lease and a ledger whose finalizer could not be.                          *)
THEOREM StartUndone == Spec => []FailedStartIsUndone
<1>1. IndInv => FailedStartIsUndone
  BY DEF IndInv, TypeOK, LeaseIsHeld, LedgerUnderLease, WorkerUnderLedger,
      ServerOwnsSockets, FailedStartIsUndone, Holding
<1>. QED
  BY <1>1, Invariance, PTL
=============================================================================
