------------------------ MODULE SessionStorageProofs ------------------------
(***************************************************************************)
(* Machine-checked proofs about SessionStorage, for every set of clients,  *)
(* devices and archive names, every timeout and every retention period,    *)
(* with and without reporting, faults and crashes.                         *)
(*                                                                         *)
(* TypeOK and IndInv are preserved together: a typing step needs to know   *)
(* that cur is an archive while a handler holds the lock. The safety       *)
(* properties follow from IndInv, the action properties from IndInv and    *)
(* one case per action.                                                    *)
(***************************************************************************)
EXTENDS SessionStorage, TLAPS

(* The initial state satisfies both invariants. *)
LEMMA InitInv == Init => TypeOK /\ IndInv /\ ClosureIsFaithful
<1> SUFFICES ASSUME Init PROVE TypeOK /\ IndInv /\ ClosureIsFaithful
  OBVIOUS
<1> USE SentinelAssumption DEF Init
<1>1. TypeOK
  BY DEF TypeOK, LoopSteps, WebReasons, Reasons, RecStates, CreateSteps, Never
<1>2. LockDiscipline /\ CreationIsPrivate /\ ArchiveConsistent
  BY DEF LockDiscipline, CreationIsPrivate, ArchiveConsistent, CreateSteps
<1>3. SessionConsistent /\ SnapshotSafe
  BY DEF SessionConsistent, SnapshotSafe
<1>4. ActiveArchiveOnDisk /\ CreationKeepsDirectory /\ ClosedIsComplete
  BY DEF ActiveArchiveOnDisk, CreationKeepsDirectory, ClosedIsComplete
<1>5. ClosureIsFaithful
  BY DEF ClosureIsFaithful, IdleCloseLosesNothing, CountedRecordsInFile
<1> QED BY <1>1, <1>2, <1>3, <1>4, <1>5 DEF IndInv

(* Every step keeps the types of the variables. *)
LEMMA TypeStep == ASSUME TypeOK, IndInv, [Next]_vars PROVE TypeOK'
<1> USE SentinelAssumption DEF TypeOK, threadVars, archiveVars, ledgerVars, closeVars, sweepVars, loopVars
<1>0. step # "none" => cur \in Files /\ owner[cur] \in Devices
  BY DEF IndInv, CreationIsPrivate
<1>1. ASSUME NEW c \in Clients, Connect(c) PROVE TypeOK'
    BY <1>1 DEF Connect
<1>2. ASSUME NEW c \in Clients, Disconnect(c) PROVE TypeOK'
    BY <1>2 DEF Disconnect
<1>3. ASSUME NEW c \in Clients, NEW d \in Devices, AcquireLock(c, d) PROVE TypeOK'
    BY <1>3 DEF AcquireLock, MayAppend, CreateSteps
<1>4. CASE MakeDirectory
    BY <1>4, <1>0 DEF MakeDirectory, CreateSteps
<1>5. CASE Register
    BY <1>5, <1>0 DEF Register, CreateSteps, RecStates
<1>6. CASE OpenFile
    BY <1>6, <1>0 DEF OpenFile, CreateSteps
<1>7. CASE CreateFails
    BY <1>7, <1>0 DEF CreateFails, HandlerRaises
<1>8. CASE WriteStarted
    BY <1>8, <1>0 DEF WriteStarted
<1>9. CASE StartedFails
    BY <1>9, <1>0 DEF StartedFails, HandlerRaises
<1>10. CASE AppendRecord
    BY <1>10, <1>0 DEF AppendRecord
<1>11. CASE AppendFails
    BY <1>11, <1>0 DEF AppendFails, HandlerRaises
<1>12. CASE BeginExpire
    BY <1>12 DEF BeginExpire, LoopSteps
<1>13. CASE AcquireExpire
  <2>1. todo' \subseteq Files
    BY <1>13 DEF AcquireExpire, Expired, Mapped
  <2> QED BY <1>13, <2>1 DEF AcquireExpire, LoopSteps, WebReasons
<1>14. CASE ReportClosed
  <2>1. rec' \in [Files -> RecStates]
    BY <1>14 DEF ReportClosed, FlushClosures, RecStates
  <2>2. reason' \in [Files -> Reasons] /\ pending' \in [Files -> Reasons]
    <3> DEFINE p == [pending EXCEPT ![closing] = outcome]
    <3>1. p \in [Files -> Reasons] /\ "none" \in Reasons
      BY DEF Reasons
    <3>2. UNCHANGED ledgerVars \/ \E kept \in Failing(p) : FlushClosures(p, kept)
      BY <1>14 DEF ReportClosed
    <3> HIDE DEF p
    <3> QED BY <3>1, <3>2 DEF FlushClosures
  <2> QED BY <1>14, <2>1, <2>2 DEF ReportClosed, Reasons, WebReasons
<1>15. CASE EndClose
  <2>1. sessions' \in [Devices -> Files \cup {NoFile}]
    BY <1>15 DEF EndClose
  <2> QED BY <1>15, <2>1 DEF EndClose, LoopSteps
<1>16. ASSUME NEW f \in Files, CloseStream(f) PROVE TypeOK'
    BY <1>16 DEF CloseStream, ReportedReason, Reasons, WebReasons
<1>17. ASSUME NEW f \in Files, SweepUnlink(f) PROVE TypeOK'
    BY <1>17 DEF SweepUnlink, Candidates
<1>18. CASE CheckRetention
    BY <1>18 DEF CheckRetention, LoopSteps
<1>19. CASE SnapshotActive
    BY <1>19 DEF SnapshotActive, ActivePaths, Mapped, LoopSteps
<1>20. CASE SnapshotProtected
    BY <1>20 DEF SnapshotProtected, Protected, LoopSteps
<1>21. CASE SweepEnds
    BY <1>21 DEF SweepEnds, LoopSteps
<1>22. CASE RemoveDirectories
  <2>1. Day(now) \in Nat
    BY ParameterAssumption DEF Day
  <2>2. dirs' \subseteq Devices
    BY <1>22 DEF RemoveDirectories
  <2> QED BY <1>22, <2>1, <2>2 DEF RemoveDirectories, LoopSteps
<1>23. CASE CloseAll
    BY <1>23 DEF CloseAll, HandlersDone, Mapped, LoopSteps, WebReasons
<1>24. CASE StopReporting
    BY <1>24 DEF StopReporting, FlushClosures, Failing, PendingIn, Closable, LoopSteps,
      WebReasons, Reasons, RecStates
<1>25. CASE RetryClosures
    BY <1>25 DEF RetryClosures, FlushClosures, Failing, PendingIn, Closable, Reasons,
      RecStates
<1>26. ASSUME NEW f \in Files, Deliver(f) PROVE TypeOK'
    BY <1>26 DEF Deliver, RecStates
<1>27. ASSUME NEW f \in Files, BlockFile(f) PROVE TypeOK'
    BY <1>27 DEF BlockFile, RecStates
<1>28. CASE RequestShutdown
    BY <1>28 DEF RequestShutdown, LoopSteps
<1>29. CASE Crash
  <2>1. stream' \in [Files -> {"unused", "open", "closed"}]
    BY <1>29 DEF Crash
  <2>2. pending' \in [Files -> Reasons] /\ sessions' \in [Devices -> Files \cup {NoFile}]
    BY <1>29 DEF Crash, Reasons
  <2> QED BY <1>29, <2>1, <2>2 DEF Crash, LoopSteps, WebReasons, Reasons, Never
<1>30. CASE Restart
    BY <1>30 DEF Restart, LoopSteps, RecStates, Reasons, WebReasons
<1>31. CASE Tick
    BY <1>31 DEF Tick
<1>32. CASE UNCHANGED vars
    BY <1>32 DEF vars
<1> QED
    BY <1>1, <1>2, <1>3, <1>4, <1>5, <1>6, <1>7, <1>8, <1>9, <1>10, <1>11, <1>12, <1>13,
      <1>14, <1>15, <1>16, <1>17, <1>18, <1>19, <1>20, <1>21, <1>22, <1>23, <1>24, <1>25,
      <1>26, <1>27, <1>28, <1>29, <1>30, <1>31, <1>32 DEF Next, HandlerStep, LoopStep,
      WorkerStep

(* Every step keeps the inductive invariant. *)
LEMMA IndInvStep == ASSUME TypeOK, IndInv, [Next]_vars PROVE IndInv'
<1> USE SentinelAssumption, ParameterAssumption
    DEF TypeOK, threadVars, archiveVars, ledgerVars, closeVars, sweepVars, loopVars, Never
<1> USE DEF IndInv, LockDiscipline, CreationIsPrivate, ArchiveConsistent, SessionConsistent,
    SnapshotSafe, ActiveArchiveOnDisk, CreationKeepsDirectory, ClosedIsComplete
<1>1. ASSUME NEW c \in Clients, Connect(c) PROVE IndInv'
    BY <1>1 DEF Connect
<1>2. ASSUME NEW c \in Clients, Disconnect(c) PROVE IndInv'
    BY <1>2 DEF Disconnect
<1>3. ASSUME NEW c \in Clients, NEW d \in Devices, AcquireLock(c, d) PROVE IndInv'
    BY <1>3 DEF AcquireLock, MayAppend, CreateSteps
<1>4. CASE MakeDirectory
    BY <1>4 DEF MakeDirectory, CreateSteps
<1>5. CASE Register
    BY <1>5 DEF Register, CreateSteps
<1>6. CASE OpenFile
    BY <1>6 DEF OpenFile, CreateSteps
<1>7. CASE CreateFails
    BY <1>7 DEF CreateFails, HandlerRaises, CreateSteps
<1>8. CASE WriteStarted
    BY <1>8 DEF WriteStarted, CreateSteps
<1>9. CASE StartedFails
    BY <1>9 DEF StartedFails, HandlerRaises, CreateSteps
<1>10. CASE AppendRecord
    BY <1>10 DEF AppendRecord, CreateSteps
<1>11. CASE AppendFails
    BY <1>11 DEF AppendFails, HandlerRaises, CreateSteps
<1>12. CASE BeginExpire
    BY <1>12 DEF BeginExpire
<1>13. CASE AcquireExpire
    BY <1>13 DEF AcquireExpire, Expired, Mapped
<1>14. CASE ReportClosed
    BY <1>14 DEF ReportClosed, FlushClosures, Failing, PendingIn, Closable
<1>15. CASE EndClose
  <2>1. step = "none" /\ step' = "none"
    BY <1>15 DEF EndClose
  <2>2. CreationIsPrivate'
    BY <2>1 DEF CreateSteps
  <2>3. LockDiscipline' /\ ArchiveConsistent' /\ SessionConsistent' /\ SnapshotSafe'
    BY <1>15, <2>1 DEF EndClose
  <2>4. ActiveArchiveOnDisk' /\ CreationKeepsDirectory' /\ ClosedIsComplete'
    BY <1>15, <2>1 DEF EndClose
  <2> QED BY <2>2, <2>3, <2>4
<1>16. ASSUME NEW f \in Files, CloseStream(f) PROVE IndInv'
    BY <1>16 DEF CloseStream, ReportedReason
<1>17. ASSUME NEW f \in Files, SweepUnlink(f) PROVE IndInv'
    BY <1>17 DEF SweepUnlink, Candidates
<1>18. CASE CheckRetention
    BY <1>18 DEF CheckRetention
<1>19. CASE SnapshotActive
    BY <1>19 DEF SnapshotActive, ActivePaths, Mapped
<1>20. CASE SnapshotProtected
    BY <1>20 DEF SnapshotProtected, Protected
<1>21. CASE SweepEnds
    BY <1>21 DEF SweepEnds
<1>22. CASE RemoveDirectories
    BY <1>22 DEF RemoveDirectories, MayRemove, InDirectory
<1>23. CASE CloseAll
    BY <1>23 DEF CloseAll, HandlersDone, Mapped
<1>24. CASE StopReporting
    BY <1>24 DEF StopReporting, FlushClosures, Failing, PendingIn, Closable
<1>25. CASE RetryClosures
    BY <1>25 DEF RetryClosures, FlushClosures, Failing, PendingIn, Closable
<1>26. ASSUME NEW f \in Files, Deliver(f) PROVE IndInv'
    BY <1>26 DEF Deliver
<1>27. ASSUME NEW f \in Files, BlockFile(f) PROVE IndInv'
    BY <1>27 DEF BlockFile
<1>28. CASE RequestShutdown
    BY <1>28 DEF RequestShutdown
<1>29. CASE Crash
  <2>1. CreationIsPrivate' /\ LockDiscipline'
    BY <1>29 DEF Crash, CreateSteps
  <2>2. ArchiveConsistent' /\ SessionConsistent' /\ SnapshotSafe'
    BY <1>29 DEF Crash
  <2>3. ActiveArchiveOnDisk' /\ CreationKeepsDirectory' /\ ClosedIsComplete'
    BY <1>29 DEF Crash
  <2> QED BY <2>1, <2>2, <2>3
<1>30. CASE Restart
    BY <1>30 DEF Restart
<1>31. CASE Tick
    BY <1>31 DEF Tick
<1>32. CASE UNCHANGED vars
    BY <1>32 DEF vars
<1> QED
    BY <1>1, <1>2, <1>3, <1>4, <1>5, <1>6, <1>7, <1>8, <1>9, <1>10, <1>11, <1>12, <1>13,
      <1>14, <1>15, <1>16, <1>17, <1>18, <1>19, <1>20, <1>21, <1>22, <1>23, <1>24, <1>25,
      <1>26, <1>27, <1>28, <1>29, <1>30, <1>31, <1>32 DEF Next, HandlerStep, LoopStep,
      WorkerStep

(* Every step keeps the closures faithful. *)
LEMMA FaithfulStep ==
  ASSUME TypeOK, IndInv, ClosureIsFaithful, [Next]_vars PROVE ClosureIsFaithful'
<1> USE SentinelAssumption, ParameterAssumption
    DEF TypeOK, threadVars, archiveVars, ledgerVars, closeVars, sweepVars, loopVars, Never
<1> USE DEF IndInv, LockDiscipline, CreationIsPrivate, ArchiveConsistent, SessionConsistent,
    ClosedIsComplete, ClosureIsFaithful, IdleCloseLosesNothing, CountedRecordsInFile
<1>1. ASSUME NEW c \in Clients, Connect(c) PROVE ClosureIsFaithful'
    BY <1>1 DEF Connect
<1>2. ASSUME NEW c \in Clients, Disconnect(c) PROVE ClosureIsFaithful'
    BY <1>2 DEF Disconnect
<1>3. ASSUME NEW c \in Clients, NEW d \in Devices, AcquireLock(c, d) PROVE ClosureIsFaithful'
    BY <1>3 DEF AcquireLock, MayAppend, CreateSteps
<1>4. CASE MakeDirectory
    BY <1>4 DEF MakeDirectory, CreateSteps
<1>5. CASE Register
    BY <1>5 DEF Register, CreateSteps
<1>6. CASE OpenFile
    BY <1>6 DEF OpenFile, CreateSteps
<1>7. CASE CreateFails
    BY <1>7 DEF CreateFails, HandlerRaises, CreateSteps
<1>8. CASE WriteStarted
    BY <1>8 DEF WriteStarted, CreateSteps
<1>9. CASE StartedFails
    BY <1>9 DEF StartedFails, HandlerRaises, CreateSteps
<1>10. CASE AppendRecord
    BY <1>10 DEF AppendRecord, CreateSteps
<1>11. CASE AppendFails
    BY <1>11 DEF AppendFails, HandlerRaises, CreateSteps
<1>12. CASE BeginExpire
    BY <1>12 DEF BeginExpire
<1>13. CASE AcquireExpire
    BY <1>13 DEF AcquireExpire, Expired, Mapped
<1>14. CASE ReportClosed
    BY <1>14 DEF ReportClosed, FlushClosures, Failing, PendingIn, Closable
<1>15. CASE EndClose
    BY <1>15 DEF EndClose
<1>16. ASSUME NEW f \in Files, CloseStream(f) PROVE ClosureIsFaithful'
    BY <1>16 DEF CloseStream, ReportedReason
<1>17. ASSUME NEW f \in Files, SweepUnlink(f) PROVE ClosureIsFaithful'
    BY <1>17 DEF SweepUnlink, Candidates
<1>18. CASE CheckRetention
    BY <1>18 DEF CheckRetention
<1>19. CASE SnapshotActive
    BY <1>19 DEF SnapshotActive, ActivePaths, Mapped
<1>20. CASE SnapshotProtected
    BY <1>20 DEF SnapshotProtected, Protected
<1>21. CASE SweepEnds
    BY <1>21 DEF SweepEnds
<1>22. CASE RemoveDirectories
    BY <1>22 DEF RemoveDirectories, MayRemove, InDirectory
<1>23. CASE CloseAll
    BY <1>23 DEF CloseAll, HandlersDone, Mapped
<1>24. CASE StopReporting
    BY <1>24 DEF StopReporting, FlushClosures, Failing, PendingIn, Closable
<1>25. CASE RetryClosures
    BY <1>25 DEF RetryClosures, FlushClosures, Failing, PendingIn, Closable
<1>26. ASSUME NEW f \in Files, Deliver(f) PROVE ClosureIsFaithful'
    BY <1>26 DEF Deliver
<1>27. ASSUME NEW f \in Files, BlockFile(f) PROVE ClosureIsFaithful'
    BY <1>27 DEF BlockFile
<1>28. CASE RequestShutdown
    BY <1>28 DEF RequestShutdown
<1>29. CASE Crash
    BY <1>29 DEF Crash, Reasons
<1>30. CASE Restart
    BY <1>30 DEF Restart
<1>31. CASE Tick
    BY <1>31 DEF Tick
<1>32. CASE UNCHANGED vars
    BY <1>32 DEF vars
<1> QED
    BY <1>1, <1>2, <1>3, <1>4, <1>5, <1>6, <1>7, <1>8, <1>9, <1>10, <1>11, <1>12, <1>13,
      <1>14, <1>15, <1>16, <1>17, <1>18, <1>19, <1>20, <1>21, <1>22, <1>23, <1>24, <1>25,
      <1>26, <1>27, <1>28, <1>29, <1>30, <1>31, <1>32 DEF Next, HandlerStep, LoopStep,
      WorkerStep

(* storage.py, server.py, reporting_service.py together: the invariant that  *)
(* explains the properties below holds in every reachable state.             *)
THEOREM Invariant == Spec => [](TypeOK /\ IndInv /\ ClosureIsFaithful)
<1>1. Init => TypeOK /\ IndInv /\ ClosureIsFaithful
  BY InitInv
<1>2. (TypeOK /\ IndInv /\ ClosureIsFaithful) /\ [Next]_vars
      => (TypeOK /\ IndInv /\ ClosureIsFaithful)'
  BY TypeStep, IndInvStep, FaithfulStep
<1> QED BY <1>1, <1>2, PTL DEF Spec

(* Every variable keeps its type: the ledger, for one, never holds a state   *)
(* or a reason outside the Web's vocabulary.                                 *)
THEOREM TypeCorrect == Spec => []TypeOK
  BY Invariant, PTL

(* A device never has two archives being written (storage.py:278-283). *)
THEOREM OneStream == Spec => []OneStreamPerDevice
<1>1. TypeOK /\ IndInv => OneStreamPerDevice
  BY SentinelAssumption DEF TypeOK, IndInv, ArchiveConsistent, CreationIsPrivate, CreateSteps,
     OneStreamPerDevice
<1> QED BY <1>1, Invariant, PTL

(* The retention sweep never unlinks the archive of an active session        *)
(* (storage.py:396-404).                                                     *)
THEOREM ActiveArchiveSafe == Spec => []ActiveArchiveOnDisk
<1>1. IndInv => ActiveArchiveOnDisk
  BY DEF IndInv
<1> QED BY <1>1, Invariant, PTL

(* A directory stays while a session is created in it (storage.py:423-425). *)
THEOREM DirectorySafe == Spec => []CreationKeepsDirectory
<1>1. IndInv => CreationKeepsDirectory
  BY DEF IndInv
<1> QED BY <1>1, Invariant, PTL

(* The ledger calls a recording closed only when its archive can no longer   *)
(* grow (storage.py:142-155).                                                *)
THEOREM ClosedComplete == Spec => []ClosedIsComplete
<1>1. IndInv => ClosedIsComplete
  BY DEF IndInv
<1> QED BY <1>1, Invariant, PTL

(* A recording reported as closed for idleness has lost no record            *)
(* (storage.py:138-155).                                                     *)
THEOREM IdleCloseLossless == Spec => []IdleCloseLosesNothing
<1>1. ClosureIsFaithful => IdleCloseLosesNothing
  BY DEF ClosureIsFaithful
<1> QED BY <1>1, Invariant, PTL

(* Every counted record is in the file (storage.py:84-87). *)
THEOREM CountedStored == Spec => []CountedRecordsInFile
<1>1. ClosureIsFaithful => CountedRecordsInFile
  BY DEF ClosureIsFaithful
<1> QED BY <1>1, Invariant, PTL

(* A sweep unlinks only what the ledger is through with (storage.py:403-404). *)
THEOREM SweepSafe == Spec => SweepSparesUnreported
<1>1. ASSUME TypeOK, IndInv, ClosureIsFaithful, [Next]_vars PROVE SweepSpares
  <2> USE <1>1
  <2>1. CASE \E f \in Files : SweepUnlink(f)
    BY <2>1, ParameterAssumption
    DEF TypeOK, IndInv, SnapshotSafe, SweepUnlink, Candidates, SweepSpares
  <2>2. CASE StartedFails
    BY <2>2 DEF StartedFails, SweepSpares
  <2>3. CASE OpenFile
    BY <2>3 DEF OpenFile, SweepSpares
  <2>4. (\E f \in Files : SweepUnlink(f)) \/ StartedFails \/ OpenFile \/ onDisk' = onDisk
    BY DEF Next, vars, HandlerStep, LoopStep, WorkerStep, threadVars, archiveVars,
      ledgerVars, closeVars, sweepVars, loopVars, Connect, Disconnect, AcquireLock,
      MakeDirectory, Register, CreateFails, WriteStarted, AppendRecord, AppendFails,
      BeginExpire, AcquireExpire, ReportClosed, EndClose, CloseStream, CheckRetention,
      SnapshotActive, SnapshotProtected, SweepEnds, RemoveDirectories, CloseAll,
      StopReporting, RetryClosures, Deliver, BlockFile, RequestShutdown, Crash, Restart,
      Tick
  <2> QED BY <2>1, <2>2, <2>3, <2>4 DEF SweepSpares
<1>2. TypeOK /\ IndInv /\ ClosureIsFaithful /\ [Next]_vars => [SweepSpares]_vars
  BY <1>1
<1> QED BY <1>2, Invariant, PTL DEF Spec, SweepSparesUnreported

(* Only an idle session is closed while the server runs (storage.py:354-368). *)
THEOREM IdleCloseJustified == Spec => StreamClosedOnlyWhenIdle
<1>1. ASSUME TypeOK, IndInv, ClosureIsFaithful, [Next]_vars PROVE ClosedWhenIdle
  <2> USE <1>1
  <2>1. CASE \E f \in Files : CloseStream(f)
    BY <2>1, ParameterAssumption
    DEF TypeOK, IndInv, LockDiscipline, ClosureIsFaithful, CloseStream, ClosedWhenIdle
  <2>2. CASE OpenFile
    BY <2>2 DEF OpenFile, ClosedWhenIdle, TypeOK
  <2>3. CASE StartedFails \/ Crash
    BY <2>3 DEF StartedFails, Crash, ClosedWhenIdle
  <2>4. \/ \E f \in Files : CloseStream(f)
        \/ OpenFile \/ StartedFails \/ Crash \/ stream' = stream
    BY DEF Next, vars, HandlerStep, LoopStep, WorkerStep, threadVars, archiveVars,
      ledgerVars, closeVars, sweepVars, loopVars, Connect, Disconnect, AcquireLock,
      MakeDirectory, Register, CreateFails, WriteStarted, AppendRecord, AppendFails,
      BeginExpire, AcquireExpire, ReportClosed, EndClose, CheckRetention, SnapshotActive,
      SnapshotProtected, SweepUnlink, SweepEnds, RemoveDirectories, CloseAll,
      StopReporting, RetryClosures, Deliver, BlockFile, RequestShutdown, Restart, Tick
  <2> QED BY <2>1, <2>2, <2>3, <2>4 DEF ClosedWhenIdle
<1>2. TypeOK /\ IndInv /\ ClosureIsFaithful /\ [Next]_vars => [ClosedWhenIdle]_vars
  BY <1>1
<1> QED BY <1>2, Invariant, PTL DEF Spec, StreamClosedOnlyWhenIdle

(* The ledger never takes a state back (reporting_store.py:110-118). *)
THEOREM LedgerForward == Spec => LedgerMovesForward
<1>1. ASSUME TypeOK, IndInv, ClosureIsFaithful, [Next]_vars PROVE MovesForward
  <2> USE <1>1
  <2> USE DEF MovesForward, TypeOK
  <2>1. CASE Register
    BY <2>1 DEF Register, IndInv, CreationIsPrivate
  <2>2. CASE ReportClosed
    <3>1. UNCHANGED ledgerVars
          \/ \E kept \in Failing([pending EXCEPT ![closing] = outcome]) :
               FlushClosures([pending EXCEPT ![closing] = outcome], kept)
      BY <2>2 DEF ReportClosed
    <3>2. \A p, kept : FlushClosures(p, kept) => MovesForward
      BY DEF FlushClosures, Closable
    <3> QED BY <3>1, <3>2 DEF ledgerVars
  <2>3. CASE StopReporting
    BY <2>3 DEF StopReporting, FlushClosures, Closable
  <2>4. CASE RetryClosures
    BY <2>4 DEF RetryClosures, FlushClosures, Closable
  <2>5. CASE (\E f \in Files : Deliver(f) \/ BlockFile(f)) \/ Restart
    BY <2>5 DEF Deliver, BlockFile, Restart
  <2>6. \/ Register \/ ReportClosed \/ StopReporting \/ RetryClosures \/ Restart
        \/ \E f \in Files : Deliver(f) \/ BlockFile(f)
        \/ rec' = rec /\ reason' = reason
    BY DEF Next, vars, HandlerStep, LoopStep, WorkerStep, threadVars, archiveVars,
      ledgerVars, closeVars, sweepVars, loopVars, Connect, Disconnect, AcquireLock,
      MakeDirectory, OpenFile, CreateFails, WriteStarted, StartedFails, AppendRecord,
      AppendFails, BeginExpire, AcquireExpire, EndClose, CloseStream, CheckRetention,
      SnapshotActive, SnapshotProtected, SweepUnlink, SweepEnds, RemoveDirectories,
      CloseAll, RequestShutdown, Crash, Tick
  <2> QED BY <2>1, <2>2, <2>3, <2>4, <2>5, <2>6
<1>2. TypeOK /\ IndInv /\ ClosureIsFaithful /\ [Next]_vars => [MovesForward]_vars
  BY <1>1
<1> QED BY <1>2, Invariant, PTL DEF Spec, LedgerMovesForward

(* Nothing is stored once the sessions are closed for shutdown               *)
(* (server.py:178-197).                                                      *)
THEOREM ShutdownIsFinal == Spec => NothingStoredAfterCloseAll
<1>1. ASSUME TypeOK, IndInv, ClosureIsFaithful, [Next]_vars PROVE NothingStored
  <2> USE <1>1
  <2> SUFFICES ASSUME loop \in {"stopped", "off"} PROVE NothingStored
    BY DEF NothingStored
  <2>1. step = "none" /\ conn = {} /\ lock # "loop"
    BY SentinelAssumption DEF TypeOK, IndInv, LockDiscipline, SessionConsistent
  <2>2. CASE Crash
    <3>1. \A d \in Devices : sessions[d] = NoFile
      BY DEF TypeOK, IndInv, SessionConsistent
    <3> QED BY <2>2, <3>1 DEF Crash, NothingStored, TypeOK
  <2>3. Crash \/ (size' = size /\ onDisk' = onDisk /\ sessions' = sessions)
    BY <2>1 DEF Next, vars, HandlerStep, LoopStep, WorkerStep, MayAppend, threadVars,
      archiveVars, ledgerVars, closeVars, sweepVars, loopVars, Connect, Disconnect,
      AcquireLock, MakeDirectory, Register, OpenFile, CreateFails, WriteStarted,
      StartedFails, AppendRecord, AppendFails, BeginExpire, AcquireExpire, ReportClosed,
      EndClose, CloseStream, CheckRetention, SnapshotActive, SnapshotProtected,
      SweepUnlink, SweepEnds, RemoveDirectories, CloseAll, StopReporting, RetryClosures,
      Deliver, BlockFile, RequestShutdown, Restart, Tick
  <2> QED BY <2>2, <2>3 DEF NothingStored
<1>2. TypeOK /\ IndInv /\ ClosureIsFaithful /\ [Next]_vars => [NothingStored]_vars
  BY <1>1
<1> QED BY <1>2, Invariant, PTL DEF Spec, NothingStoredAfterCloseAll

-----------------------------------------------------------------------------
(* The storage keeps its side of Handover. What the specification sees of an *)
(* archive, now and next.                                                    *)
HeldIs(s, disk, h) ==
  /\ s = "unused" => h = "absent"
  /\ s = "open" => h = "writing"
  /\ s = "closed" /\ disk => h = "final"
  /\ s = "closed" /\ ~disk => h = "gone"

LEMMA LifeMapping ==
  ASSUME NEW g \in Files
  PROVE  HeldIs(stream[g], g \in onDisk, held[g]) /\ HeldIs(stream'[g], g \in onDisk', held'[g])
  BY DEF held, HeldIs

(* What a step may do to the archive, and what to the entry.                 *)
ArchiveStays(g) ==
  stream'[g] = stream[g] /\ size'[g] = size[g] /\ (g \in onDisk' <=> g \in onDisk)
ArchiveEnds(g) == stream[g] = "open" /\ stream'[g] = "closed" /\ size'[g] \in Nat
EntryStays(g)  == rec'[g] = rec[g] /\ reason'[g] = reason[g]
EntryCloses(g) ==
  /\ rec[g] = "OPEN" /\ rec'[g] = "CLOSED" /\ reason'[g] \in WebReasons
  /\ stream'[g] # "open"

LEMMA StaysOrCloses ==
  ASSUME TypeOK, TypeOK', NEW g \in Files,
         ArchiveStays(g) \/ ArchiveEnds(g), EntryStays(g) \/ EntryCloses(g)
  PROVE  Life!Step(g)
<1>1. stream[g] \in {"unused", "open", "closed"} /\ stream'[g] \in {"unused", "open", "closed"}
  BY DEF TypeOK
<1>2. Life!End(g) \/ Life!SameArchive(g)
  BY <1>1, LifeMapping DEF ArchiveStays, ArchiveEnds, HeldIs, Life!End, Life!SameArchive
<1>3. Life!Close(g) \/ Life!SameEntry(g)
  BY <1>1, LifeMapping
  DEF EntryStays, EntryCloses, HeldIs, WebReasons, Life!CloseReasons, Life!Close, Life!SameEntry
<1> QED BY <1>2, <1>3 DEF Life!Step

(* A flush, whatever fails of it, closes what is open and nothing else.      *)
LEMMA FlushFacts ==
  ASSUME TypeOK, NEW p \in [Files -> Reasons], NEW kept, FlushClosures(p, kept), NEW g \in Files,
         p[g] # "none" => stream'[g] # "open"
  PROVE  EntryStays(g) \/ EntryCloses(g)
<1>1. \/ rec'[g] = rec[g] /\ reason'[g] = reason[g]
      \/ rec[g] = "OPEN" /\ rec'[g] = "CLOSED" /\ p[g] # "none" /\ reason'[g] = p[g]
  BY DEF FlushClosures, PendingIn, Closable, TypeOK
<1>2. p[g] # "none" => p[g] \in WebReasons
  BY DEF Reasons
<1> QED BY <1>1, <1>2 DEF EntryStays, EntryCloses

(* Every action of the storage is a step in the life of every recording.     *)
LEMMA LifeStep ==
  ASSUME TypeOK, TypeOK', IndInv, [Next]_vars, NEW g \in Files PROVE Life!Step(g)
<1> USE SentinelAssumption DEF threadVars, archiveVars, ledgerVars, closeVars, sweepVars, loopVars
<1>0. /\ step # "none" => cur \in Files
      /\ stream[g] = "unused" => g \notin onDisk
      /\ stream[g] \in {"unused", "open", "closed"}
  BY DEF TypeOK, IndInv, CreationIsPrivate, ArchiveConsistent
<1>1. CASE Register
  <2>1. /\ stream' = stream /\ size' = size /\ onDisk' = onDisk /\ reason' = reason
        /\ g = cur => rec[g] = "none" /\ stream[g] = "unused" /\ rec'[g] \in {rec[g], "OPEN"}
        /\ g # cur => rec'[g] = rec[g]
    BY <1>1 DEF Register, TypeOK, IndInv, CreationIsPrivate
  <2>2. CASE rec'[g] = rec[g]
    BY <2>1, <2>2, StaysOrCloses DEF ArchiveStays, EntryStays
  <2>3. CASE rec'[g] # rec[g]
    <3>1. Life!Register(g)
      BY <2>1, <2>3, LifeMapping DEF HeldIs, Life!Register, Life!SameArchive
    <3> QED BY <3>1 DEF Life!Step
  <2> QED BY <2>2, <2>3
<1>2. CASE OpenFile
  <2>1. /\ size' = size /\ rec' = rec /\ reason' = reason
        /\ g = cur => /\ stream[g] = "unused" /\ stream'[g] = "open"
                      /\ rec[g] \notin {"CLOSED", "DONE"} /\ (Reporting => rec[g] # "none")
        /\ g # cur => stream'[g] = stream[g] /\ (g \in onDisk' <=> g \in onDisk)
    BY <1>2 DEF OpenFile, TypeOK, IndInv, CreationIsPrivate
  <2>2. CASE g = cur
    <3>1. Life!Begin(g)
      BY <2>1, <2>2, LifeMapping DEF HeldIs, Life!Begin, Life!SameEntry
    <3> QED BY <3>1 DEF Life!Step
  <2>3. CASE g # cur
    BY <2>1, <2>3, StaysOrCloses DEF ArchiveStays, EntryStays
  <2> QED BY <2>2, <2>3
<1>3. CASE StartedFails
  <2>1. /\ size' = size /\ rec' = rec /\ reason' = reason
        /\ g = cur => stream[g] = "open" /\ stream'[g] = "closed"
        /\ g # cur => stream'[g] = stream[g] /\ (g \in onDisk' <=> g \in onDisk)
    BY <1>3 DEF StartedFails, TypeOK, IndInv, CreationIsPrivate
  <2> QED BY <2>1, StaysOrCloses DEF ArchiveStays, ArchiveEnds, EntryStays, TypeOK
<1>4. CASE AppendRecord
  <2>1. cur \in Files /\ owner[cur] \in Devices /\ sessions[owner[cur]] = cur /\ loop # "close"
    BY <1>4 DEF AppendRecord, TypeOK, IndInv, CreationIsPrivate, LockDiscipline
  <2>2. stream[cur] = "open"
    BY <2>1 DEF IndInv, SessionConsistent
  <2>3. /\ stream' = stream /\ onDisk' = onDisk /\ rec' = rec /\ reason' = reason
        /\ size' = [size EXCEPT ![cur] = @ + buf[cur] + 1]
    BY <1>4 DEF AppendRecord
  <2>4. CASE g = cur
    <3>1. size'[g] > size[g]
      BY <2>3, <2>4 DEF TypeOK
    <3>2. Life!Grow(g)
      BY <2>2, <2>3, <2>4, <3>1, LifeMapping DEF HeldIs, Life!Grow, Life!SameEntry
    <3> QED BY <3>2 DEF Life!Step
  <2>5. CASE g # cur
    BY <2>3, <2>5, StaysOrCloses DEF ArchiveStays, EntryStays, TypeOK
  <2> QED BY <2>4, <2>5
<1>5. ASSUME NEW f \in Files, CloseStream(f) PROVE Life!Step(g)
  <2>1. /\ onDisk' = onDisk /\ rec' = rec /\ reason' = reason
        /\ g = f => stream'[g] = "closed"
        /\ g # f => stream'[g] = stream[g] /\ size'[g] = size[g]
    BY <1>5 DEF CloseStream, TypeOK
  <2>2. stream[f] = "open"
    BY <1>5 DEF CloseStream, IndInv, SessionConsistent
  <2> QED BY <2>1, <2>2, StaysOrCloses DEF ArchiveStays, ArchiveEnds, EntryStays, TypeOK
<1>6. CASE ReportClosed
  <2> DEFINE p == [pending EXCEPT ![closing] = outcome]
  <2>1. p \in [Files -> Reasons] /\ stream' = stream /\ size' = size /\ onDisk' = onDisk
    BY <1>6 DEF ReportClosed, TypeOK
  <2>2. p[g] # "none" => stream'[g] # "open"
    BY <1>6, <2>1 DEF ReportClosed, TypeOK, IndInv, ArchiveConsistent, SessionConsistent
  <2>3. UNCHANGED ledgerVars \/ \E kept \in Failing(p) : FlushClosures(p, kept)
    BY <1>6 DEF ReportClosed
  <2> HIDE DEF p
  <2>4. EntryStays(g) \/ EntryCloses(g)
    BY <2>1, <2>2, <2>3, FlushFacts DEF EntryStays
  <2> QED BY <2>1, <2>4, StaysOrCloses DEF ArchiveStays
<1>7. CASE RetryClosures
  <2>1. /\ pending \in [Files -> Reasons] /\ stream' = stream /\ size' = size /\ onDisk' = onDisk
        /\ \E kept \in Failing(pending) : FlushClosures(pending, kept)
    BY <1>7 DEF RetryClosures, TypeOK
  <2>2. pending[g] # "none" => stream'[g] # "open"
    BY <2>1 DEF IndInv, ArchiveConsistent
  <2>3. EntryStays(g) \/ EntryCloses(g)
    BY <2>1, <2>2, FlushFacts
  <2> QED BY <2>1, <2>3, StaysOrCloses DEF ArchiveStays
<1>8. CASE StopReporting
  <2>1. PICK kept \in Failing(pending) :
          FlushClosures([f \in Files |-> IF f \in PendingIn(pending) \ kept THEN pending[f] ELSE "none"], {})
    BY <1>8 DEF StopReporting
  <2>2. PICK p : p = [f \in Files |-> IF f \in PendingIn(pending) \ kept THEN pending[f] ELSE "none"]
    OBVIOUS
  <2>3. p \in [Files -> Reasons] /\ FlushClosures(p, {}) /\ (p[g] # "none" => pending[g] # "none")
    BY <2>1, <2>2 DEF TypeOK, Reasons
  <2>4. stream' = stream /\ size' = size /\ onDisk' = onDisk
    BY <1>8 DEF StopReporting
  <2>5. EntryStays(g) \/ EntryCloses(g)
    BY <2>3, <2>4, FlushFacts DEF IndInv, ArchiveConsistent
  <2> QED BY <2>4, <2>5, StaysOrCloses DEF ArchiveStays
<1>9. ASSUME NEW f \in Files, Deliver(f) \/ BlockFile(f) PROVE Life!Step(g)
  <2>1. /\ stream' = stream /\ size' = size /\ onDisk' = onDisk /\ reason' = reason
        /\ g # f => rec'[g] = rec[g]
    BY <1>9 DEF Deliver, BlockFile, TypeOK
  <2>2. CASE g # f
    BY <2>1, <2>2, StaysOrCloses DEF ArchiveStays, EntryStays
  <2>3. CASE g = f /\ Deliver(f)
    <3>1. rec[g] = "CLOSED" /\ rec'[g] = "DONE" /\ g \in onDisk
      BY <2>3 DEF Deliver, TypeOK
    <3>2. stream[g] = "closed"
      BY <1>0, <3>1 DEF IndInv, ClosedIsComplete
    <3>3. Life!Deliver(g)
      BY <2>1, <3>1, <3>2, LifeMapping DEF HeldIs, Life!Deliver, Life!SameArchive
    <3> QED BY <3>3 DEF Life!Step
  <2>4. CASE g = f /\ BlockFile(f)
    <3>1. rec[g] \in {"OPEN", "CLOSED"} /\ rec'[g] = "ERROR"
      BY <2>4 DEF BlockFile, TypeOK
    <3>2. Life!Block(g)
      BY <1>0, <2>1, <3>1, LifeMapping DEF HeldIs, Life!Block, Life!SameArchive
    <3> QED BY <3>2 DEF Life!Step
  <2> QED BY <1>9, <2>2, <2>3, <2>4
<1>10. ASSUME NEW f \in Files, SweepUnlink(f) PROVE Life!Step(g)
  <2>1. /\ stream' = stream /\ size' = size /\ rec' = rec /\ reason' = reason
        /\ \/ g \in onDisk' <=> g \in onDisk
           \/ g = f /\ g \in onDisk /\ g \notin onDisk'
    BY <1>10 DEF SweepUnlink, Candidates, TypeOK
  <2>2. CASE g \in onDisk' <=> g \in onDisk
    BY <2>1, <2>2, StaysOrCloses DEF ArchiveStays, EntryStays
  <2>3. CASE g = f /\ g \in onDisk /\ g \notin onDisk'
    <3>1. rec[g] \in {"none", "DONE"} /\ stream[g] # "open"
      BY <1>10, <2>3, ParameterAssumption DEF SweepUnlink, Candidates, TypeOK, IndInv, SnapshotSafe
    <3>2. Life!Remove(g)
      BY <1>0, <2>1, <2>3, <3>1, LifeMapping DEF HeldIs, Life!Remove, Life!SameEntry
    <3> QED BY <3>2 DEF Life!Step
  <2> QED BY <2>1, <2>2, <2>3
<1>11. CASE Crash
  <2>1. /\ UNCHANGED <<size, onDisk, rec, reason>>
        /\ stream'[g] = IF stream[g] = "open" THEN "closed" ELSE stream[g]
    BY <1>11 DEF Crash
  <2> QED BY <2>1, StaysOrCloses DEF ArchiveStays, ArchiveEnds, EntryStays, TypeOK
<1>12. CASE Restart
  <2>1. UNCHANGED <<stream, size, onDisk>> /\ stream[g] # "open"
    BY <1>12 DEF Restart, IndInv, SessionConsistent
  <2>2. EntryStays(g) \/ EntryCloses(g)
    BY <1>12, <2>1 DEF Restart, EntryStays, EntryCloses, WebReasons, TypeOK
  <2> QED BY <2>1, <2>2, StaysOrCloses DEF ArchiveStays
<1>13. ASSUME UNCHANGED <<stream, size, onDisk, rec, reason>> PROVE Life!Step(g)
  BY <1>13, StaysOrCloses DEF ArchiveStays, EntryStays
<1>14. CASE \E c \in Clients : Connect(c) \/ Disconnect(c) \/ \E d \in Devices : AcquireLock(c, d)
  BY <1>13, <1>14 DEF Connect, Disconnect, AcquireLock
<1>15. CASE MakeDirectory \/ CreateFails \/ WriteStarted \/ AppendFails
  BY <1>13, <1>15 DEF MakeDirectory, CreateFails, WriteStarted, AppendFails
<1>16. CASE BeginExpire \/ AcquireExpire \/ EndClose \/ CheckRetention \/ SnapshotActive
  BY <1>13, <1>16 DEF BeginExpire, AcquireExpire, EndClose, CheckRetention, SnapshotActive
<1>17. CASE SnapshotProtected \/ SweepEnds \/ RemoveDirectories \/ CloseAll
  BY <1>13, <1>17 DEF SnapshotProtected, SweepEnds, RemoveDirectories, CloseAll
<1>18. CASE RequestShutdown \/ Tick \/ UNCHANGED vars
  BY <1>13, <1>18 DEF RequestShutdown, Tick, vars
<1> QED
  BY <1>1, <1>2, <1>3, <1>4, <1>5, <1>6, <1>7, <1>8, <1>9, <1>10, <1>11, <1>12, <1>14, <1>15,
    <1>16, <1>17, <1>18 DEF Next, HandlerStep, LoopStep, WorkerStep

(* Every recording the storage writes lives the life the ledger relies on:   *)
(* registered before it is written, closed once, with the first reason and   *)
(* when it can grow no more, removed only when it is reported - through      *)
(* failures, retries, crashes and restarts (storage.py, reporting_store.py). *)
THEOREM HandoverKept == Spec => ImplementsHandover
<1>1. Init => Life!Init
  BY DEF Init, held, Life!Init
<1>2. (TypeOK /\ IndInv) /\ (TypeOK /\ IndInv)' /\ [Next]_vars => [Life!Next]_Life!handoverVars
  BY LifeStep DEF Life!Next
<1>3. Spec => [](TypeOK /\ IndInv)
  BY Invariant, PTL
<1> QED BY <1>1, <1>2, <1>3, PTL DEF Spec, ImplementsHandover, Life!Spec
=============================================================================
