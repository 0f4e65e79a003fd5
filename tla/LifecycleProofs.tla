-------------------------- MODULE LifecycleProofs --------------------------
(***************************************************************************)
(* The safety properties of Lifecycle, for any number of connections,      *)
(* devices, signals and interrupts and any capacity of the pipe. They all  *)
(* follow from IndInv: what each stage of the two threads has already      *)
(* waited for or done.                                                     *)
(***************************************************************************)
EXTENDS Lifecycle, TLAPS

USE ConstantsOK

(* Nothing has happened yet. *)
LEMMA InitIndInv == Init => IndInv
<1> SUFFICES ASSUME Init PROVE IndInv
  OBVIOUS
<1>1. TypeOK
  <2>1. main \in MainStages /\ coord \in CoordStages
    BY DEF Init, MainStages, Raised, CoordStages
  <2>2. installed \in 0 .. 2 /\ signals \in 0 .. MaxSignals /\ pipe \in 0 .. PipeCapacity
    BY DEF Init
  <2> QED
    BY <2>1, <2>2 DEF Init, TypeOK
<1>2. CoordinatorStarted /\ LoopLeft /\ RequestsServed
  BY DEF Init, CoordinatorStarted, LoopLeft, RequestsServed, EarlyStages, ServeStages, ClosingStages
<1>3. RequestsGone /\ CoordinatorGone /\ SessionsGone /\ Released
  BY DEF Init, RequestsGone, CoordinatorGone, SessionsGone, Released, JoinedStages
<1> QED
  BY <1>1, <1>2, <1>3 DEF IndInv

(* Every stage that follows another is a stage. *)
LEMMA Stages ==
  /\ {"install", "publish", "clear", "loop", "handle", "dispatch", "service", "reset", "setdown",
      "complete", "notify", "cancel", "restore", "sessions", "reporting"} \subseteq MainStages
  /\ DOMAIN Then = {"fcancel", "fnotify", "notify", "join", "cancel", "cnotify", "cjoin", "ask", "wait",
                     "claim", "sessions", "reporting", "tcp", "pipe"}
  /\ DOMAIN Raised = {"start", "install", "fcancel", "fnotify", "join", "cancel", "cnotify", "cjoin",
                       "ask", "wait", "claim", "sessions", "reporting", "tcp", "pipe"}
  /\ \A s \in DOMAIN Then : Then[s] \in MainStages
  /\ \A s \in DOMAIN Raised : Raised[s] \in MainStages
  BY DEF MainStages, ServeStages, Then, Raised

(* Types are kept by every step on their own; one variable or group of them  *)
(* at a time.                                                                *)
LEMMA StepTypeOK == TypeOK /\ [Next]_vars => TypeOK'
<1> SUFFICES ASSUME TypeOK, [Next]_vars
             PROVE  TypeOK'
  OBVIOUS
<1>0. Next \/ UNCHANGED vars
  OBVIOUS
<1> USE <1>0 DEF TypeOK, CoordStages, vars, threads, environment, condition, loopFlags,
            connections, storage, descriptors, Next, Main, Coordinator,
            NotifyShutdown, Untrack, AskRequests, RequestsEnded, CloseSessions,
            CoordinatorEnded, MayProceed, Append, Finish,
            Signal, Interrupt, StartCoordinator, InstallHandler, SetupFails,
            EnterServe, PublishReady, EnterLoop, CheckRequest, Accept, Dispatch,
            ServiceActions, ResetRequest, SetIsShutDown, PublishCompleted,
            CancelCoordinator, Notify, JoinCoordinator, RestoreHandlers, CloseAsk,
            CloseWait, CloseClaim, CloseSessionsMain, StopReporting, CloseTcp,
            ClosePipe, CoordRead, CoordAwait, CoordRequest, CoordIsDown, CoordAsk,
            CoordWait, CoordClaim, CoordSessions
<1>1. main' \in MainStages
  BY Stages
<1>2. coord' \in CoordStages
  OBVIOUS
<1>3. tracked' \in BOOLEAN
  OBVIOUS
<1>4. installed' \in 0 .. 2 /\ signals' \in 0 .. MaxSignals
  OBVIOUS
<1>5. interrupted' \subseteq MainStages
  OBVIOUS
<1>6. pipe' \in 0 .. PipeCapacity
  OBVIOUS
<1>7. pipeOpen' \in BOOLEAN /\ tcpOpen' \in BOOLEAN
  OBVIOUS
<1>8. ready' \in BOOLEAN /\ completed' \in BOOLEAN /\ cancelled' \in BOOLEAN
  OBVIOUS
<1>9. request' \in BOOLEAN /\ isShutDown' \in BOOLEAN
  OBVIOUS
<1>10. active' \subseteq Requests /\ workers' \subseteq active' /\ asked' \subseteq active'
  OBVIOUS
<1>11. sessions' \subseteq Devices
  OBVIOUS
<1>12. claimed' \in BOOLEAN /\ reporting' \in BOOLEAN
  OBVIOUS
<1> QED
  BY Zenon, <1>1, <1>2, <1>3, <1>4, <1>5, <1>6, <1>7, <1>8, <1>9, <1>10, <1>11, <1>12 DEF TypeOK

(* One step per action. Most leave most parts alone; the interrupt is taken   *)
(* part by part.                                                             *)
LEMMA StepIndInv == IndInv /\ [Next]_vars => IndInv'
<1> SUFFICES ASSUME IndInv, [Next]_vars
             PROVE  IndInv'
  OBVIOUS
<1>0. TypeOK'
  BY StepTypeOK DEF IndInv
<1> USE <1>0 DEF IndInv, TypeOK, CoordinatorStarted, LoopLeft, RequestsServed, RequestsGone,
            CoordinatorGone, SessionsGone, Released, RequestsAwaited, Undisturbed,
            threads, environment, condition, loopFlags, connections, storage, descriptors,
            MainStages, CoordStages, ServeStages, EarlyStages, JoinedStages, ClosingStages,
            Then, Raised
<1>1. CASE Signal
  BY <1>1 DEF Signal, NotifyShutdown
<1>2. CASE Interrupt
  <2>1. /\ main \in DOMAIN Raised /\ main' = Raised[main]
        /\ interrupted' = interrupted \cup {main}
        /\ UNCHANGED <<installed, signals, ready, completed, cancelled, request, isShutDown,
                       active, workers, asked, sessions, claimed, reporting, pipe, pipeOpen, tcpOpen>>
    BY <1>2 DEF Interrupt
  <2>2. \/ main = "start" /\ main' = "restore"
        \/ main = "install" /\ main' = "fcancel"
        \/ main \in {"fcancel", "fnotify", "join"} /\ main' = "restore"
        \/ main \in {"cancel", "cnotify"} /\ main' = "cjoin"
        \/ main = "cjoin" /\ main' = "ask"
        \/ main \in {"ask", "wait"} /\ main' = "claim"
        \/ main \in {"claim", "sessions"} /\ main' = "reporting"
        \/ main = "reporting" /\ main' = "tcp"
        \/ main = "tcp" /\ main' = "pipe"
        \/ main = "pipe" /\ main' = "done"
    BY <2>1
  <2>3. \/ UNCHANGED <<coord, tracked>>
        \/ main = "start" /\ coord' = "read" /\ tracked' \in BOOLEAN
    BY <1>2 DEF Interrupt
  <2> HIDE DEF MainStages, Then, Raised
  <2>4. CoordinatorStarted'
    BY <2>1, <2>2, <2>3
  <2>5. LoopLeft'
    BY <2>1, <2>2, <2>3
  <2>6. RequestsServed'
    BY <2>1, <2>2, <2>3
  <2>7. RequestsGone'
    BY <2>1, <2>2, <2>3
  <2>8. CoordinatorGone'
    BY <2>1, <2>2, <2>3
  <2>9. SessionsGone'
    BY <2>1, <2>2, <2>3
  <2>10. Released'
    BY <2>1, <2>2, <2>3
  <2> QED BY <2>4, <2>5, <2>6, <2>7, <2>8, <2>9, <2>10
<1>3. CASE StartCoordinator
  BY <1>3 DEF StartCoordinator
<1>4. CASE InstallHandler
  BY <1>4 DEF InstallHandler
<1>5. CASE SetupFails
  BY <1>5 DEF SetupFails
<1>6. CASE EnterServe
  BY <1>6 DEF EnterServe
<1>7. CASE PublishReady
  BY <1>7 DEF PublishReady
<1>8. CASE EnterLoop
  BY <1>8 DEF EnterLoop
<1>9. CASE CheckRequest
  BY <1>9 DEF CheckRequest
<1>10. CASE Accept
  BY <1>10 DEF Accept
<1>11. CASE Dispatch
  BY <1>11 DEF Dispatch, Untrack
<1>12. CASE ServiceActions
  BY <1>12 DEF ServiceActions
<1>13. CASE ResetRequest
  BY <1>13 DEF ResetRequest
<1>14. CASE SetIsShutDown
  BY <1>14 DEF SetIsShutDown
<1>15. CASE PublishCompleted
  BY <1>15 DEF PublishCompleted
<1>16. CASE CancelCoordinator
  BY <1>16 DEF CancelCoordinator
<1>17. CASE Notify
  BY <1>17 DEF Notify, NotifyShutdown
<1>18. CASE JoinCoordinator
  BY <1>18 DEF JoinCoordinator, CoordinatorEnded
<1>19. CASE RestoreHandlers
  BY <1>19 DEF RestoreHandlers
<1>20. CASE CloseAsk
  BY <1>20 DEF CloseAsk, AskRequests
<1>21. CASE CloseWait
  BY <1>21 DEF CloseWait, RequestsEnded
<1>22. CASE CloseClaim
  BY <1>22 DEF CloseClaim
<1>23. CASE CloseSessionsMain
  BY <1>23 DEF CloseSessionsMain, CloseSessions
<1>24. CASE StopReporting
  BY <1>24 DEF StopReporting
<1>25. CASE CloseTcp
  BY <1>25 DEF CloseTcp
<1>26. CASE ClosePipe
  BY <1>26 DEF ClosePipe
<1>27. CASE CoordRead
  BY <1>27 DEF CoordRead
<1>28. CASE CoordAwait
  BY <1>28 DEF CoordAwait, MayProceed
<1>29. CASE CoordRequest
  BY <1>29 DEF CoordRequest
<1>30. CASE CoordIsDown
  BY <1>30 DEF CoordIsDown
<1>31. CASE CoordAsk
  BY <1>31 DEF CoordAsk, AskRequests
<1>32. CASE CoordWait
  BY <1>32 DEF CoordWait, RequestsEnded
<1>33. CASE CoordClaim
  BY <1>33 DEF CoordClaim
<1>34. CASE CoordSessions
  BY <1>34 DEF CoordSessions, CloseSessions
<1>35. ASSUME NEW r \in Requests, Append(r) PROVE IndInv'
  BY <1>35 DEF Append
<1>36. ASSUME NEW r \in Requests, Finish(r) PROVE IndInv'
  BY <1>36 DEF Finish, Untrack
<1>37. CASE UNCHANGED vars
  BY <1>37 DEF vars
<1> QED
  BY Zenon, <1>1, <1>2, <1>3, <1>4, <1>5, <1>6, <1>7, <1>8, <1>9, <1>10, <1>11, <1>12, <1>13,
     <1>14, <1>15, <1>16, <1>17, <1>18, <1>19, <1>20, <1>21, <1>22, <1>23, <1>24, <1>25,
     <1>26, <1>27, <1>28, <1>29, <1>30, <1>31, <1>32, <1>33, <1>34, <1>35, <1>36, <1>37
     DEF Next, Main, Coordinator

(* What holds in every state that can be reached. *)
THEOREM Invariance == Spec => []IndInv
<1>1. Init => IndInv
  BY InitIndInv
<1>2. IndInv /\ [Next]_vars => IndInv'
  BY StepIndInv
<1> QED
  BY <1>1, <1>2, PTL DEF Spec

(* Types, and the bounded pipe: a write never goes past what it can hold. *)
THEOREM TypeCorrect == Spec => []TypeOK
<1>1. IndInv => TypeOK
  BY DEF IndInv
<1> QED
  BY <1>1, Invariance, PTL

(* Shutdown never waits for a request that no thread serves. *)
THEOREM RequestsHaveThreads == Spec => []EveryRequestServed
<1>1. IndInv => EveryRequestServed
  BY DEF IndInv, RequestsServed, EveryRequestServed
<1> QED
  BY <1>1, Invariance, PTL

(* Requests end before sessions are closed, sessions before reporting stops, *)
(* and the coordinator before its pipe is closed. *)
THEOREM TeardownIsOrdered == Spec => []TeardownOrder
<1>1. IndInv => TeardownOrder
  BY DEF IndInv, TypeOK, LoopLeft, RequestsGone, CoordinatorGone, SessionsGone, Released,
         TeardownOrder, EarlyStages, JoinedStages, Undisturbed
<1> QED
  BY <1>1, Invariance, PTL

(* server_close leaves undone only what was itself interrupted. *)
THEOREM EverythingReleased == Spec => []ReleasedWhateverFails
<1>1. IndInv => ReleasedWhateverFails
  BY DEF IndInv, RequestsGone, SessionsGone, Released, ReleasedWhateverFails, JoinedStages
<1> QED
  BY <1>1, Invariance, PTL

(* No session is opened after the last close: only a worker opens one, and   *)
(* by then none is left. *)
THEOREM SessionsStayClosed == Spec => NoSessionAfterClosing
<1>1. IndInv /\ [Next]_vars => (claimed /\ RequestsAwaited => sessions' \subseteq sessions)
  <2> SUFFICES ASSUME IndInv, [Next]_vars, claimed, RequestsAwaited
               PROVE  sessions' \subseteq sessions
    OBVIOUS
  <2>1. workers = {}
    BY DEF IndInv, RequestsServed, RequestsGone
  <2>2. ~ \E r \in Requests : Append(r)
    BY <2>1 DEF Append
  <2>3. \/ UNCHANGED sessions
        \/ sessions' = {}
        \/ sessions' \in SUBSET sessions
    BY <2>2 DEF Next, Main, Coordinator, vars, storage, Finish, CloseSessions, Signal, Interrupt, StartCoordinator, InstallHandler, SetupFails, EnterServe,
             PublishReady, EnterLoop, CheckRequest, Accept, Dispatch, ServiceActions,
             ResetRequest, SetIsShutDown, PublishCompleted, CancelCoordinator,
             Notify, JoinCoordinator, RestoreHandlers, CloseAsk, CloseWait,
             CloseClaim, CloseSessionsMain, StopReporting, CloseTcp, ClosePipe,
             CoordRead, CoordAwait, CoordRequest, CoordIsDown, CoordAsk, CoordWait,
             CoordClaim, CoordSessions
  <2> QED
    BY <2>3
<1> QED
  BY <1>1, Invariance, PTL DEF Spec, NoSessionAfterClosing

-----------------------------------------------------------------------------
(* No shutdown is stuck. The facts about who will end which wait hold at     *)
(* first and are kept by every step.                                         *)
LEMMA InitWaitInv == Init => WaitInv
  BY DEF Init, WaitInv, CoordinatorServed, CoordinatorReleased, RequestsAsked, ServeStages,
         EarlyStages, JoinedStages

LEMMA StepWaitInv == IndInv /\ WaitInv /\ [Next]_vars => WaitInv'
<1> SUFFICES ASSUME IndInv, WaitInv, [Next]_vars
             PROVE  WaitInv'
  OBVIOUS
<1> USE DEF IndInv, TypeOK, CoordinatorStarted, LoopLeft, RequestsServed, RequestsGone,
            CoordinatorGone, Released, WaitInv, CoordinatorServed, CoordinatorReleased, RequestsAsked,
            CancelIsWhole, threads, environment, condition, loopFlags, connections, storage, descriptors,
            MainStages, CoordStages, ServeStages, EarlyStages, JoinedStages, ClosingStages,
            Then, Raised
<1>1. CASE Interrupt
  <2>1. /\ interrupted' = interrupted \cup {main}
        /\ UNCHANGED <<ready, completed, cancelled, request, isShutDown, active, workers, asked, pipe,
                       pipeOpen>>
        /\ \/ UNCHANGED <<coord, tracked>>
           \/ main = "start" /\ coord' = "read"
    BY <1>1 DEF Interrupt
  <2>2. \/ main = "start" /\ main' = "restore"
        \/ main = "install" /\ main' = "fcancel"
        \/ main \in {"fcancel", "fnotify", "join"} /\ main' = "restore"
        \/ main \in {"cancel", "cnotify"} /\ main' = "cjoin"
        \/ main = "cjoin" /\ main' = "ask"
        \/ main \in {"ask", "wait"} /\ main' = "claim"
        \/ main \in {"claim", "sessions"} /\ main' = "reporting"
        \/ main = "reporting" /\ main' = "tcp"
        \/ main = "tcp" /\ main' = "pipe"
        \/ main = "pipe" /\ main' = "done"
    BY <1>1 DEF Interrupt
  <2> HIDE DEF MainStages, Then, Raised
  <2>3. CoordinatorServed'
    BY <2>1, <2>2
  <2>4. CoordinatorReleased'
    BY <2>1, <2>2
  <2>5. RequestsAsked'
    BY <2>1, <2>2
  <2> QED BY <2>3, <2>4, <2>5
<1>2. CASE Signal
  BY <1>2 DEF Signal, NotifyShutdown
<1>3. CASE StartCoordinator
  BY <1>3 DEF StartCoordinator
<1>4. CASE InstallHandler
  BY <1>4 DEF InstallHandler
<1>5. CASE SetupFails
  BY <1>5 DEF SetupFails
<1>6. CASE EnterServe
  BY <1>6 DEF EnterServe
<1>7. CASE PublishReady
  BY <1>7 DEF PublishReady
<1>8. CASE EnterLoop
  BY <1>8 DEF EnterLoop
<1>9. CASE CheckRequest
  BY <1>9 DEF CheckRequest
<1>10. CASE Accept
  BY <1>10 DEF Accept
<1>11. CASE Dispatch
  BY <1>11 DEF Dispatch, Untrack
<1>12. CASE ServiceActions
  BY <1>12 DEF ServiceActions
<1>13. CASE ResetRequest
  BY <1>13 DEF ResetRequest
<1>14. CASE SetIsShutDown
  BY <1>14 DEF SetIsShutDown
<1>15. CASE PublishCompleted
  BY <1>15 DEF PublishCompleted
<1>16. CASE CancelCoordinator
  BY <1>16 DEF CancelCoordinator
<1>17. CASE Notify
  BY <1>17 DEF Notify, NotifyShutdown
<1>18. CASE JoinCoordinator
  BY <1>18 DEF JoinCoordinator, CoordinatorEnded
<1>19. CASE RestoreHandlers
  BY <1>19 DEF RestoreHandlers
<1>20. CASE CloseAsk
  BY <1>20 DEF CloseAsk, AskRequests
<1>21. CASE CloseWait
  BY <1>21 DEF CloseWait, RequestsEnded
<1>22. CASE CloseClaim
  BY <1>22 DEF CloseClaim
<1>23. CASE CloseSessionsMain
  BY <1>23 DEF CloseSessionsMain, CloseSessions
<1>24. CASE StopReporting
  BY <1>24 DEF StopReporting
<1>25. CASE CloseTcp
  BY <1>25 DEF CloseTcp
<1>26. CASE ClosePipe
  BY <1>26 DEF ClosePipe
<1>27. CASE CoordRead
  BY <1>27 DEF CoordRead
<1>28. CASE CoordAwait
  BY <1>28 DEF CoordAwait, MayProceed
<1>29. CASE CoordRequest
  BY <1>29 DEF CoordRequest
<1>30. CASE CoordIsDown
  BY <1>30 DEF CoordIsDown
<1>31. CASE CoordAsk
  BY <1>31 DEF CoordAsk, AskRequests
<1>32. CASE CoordWait
  BY <1>32 DEF CoordWait, RequestsEnded
<1>33. CASE CoordClaim
  BY <1>33 DEF CoordClaim
<1>34. CASE CoordSessions
  BY <1>34 DEF CoordSessions, CloseSessions
<1>35. ASSUME NEW r \in Requests, Append(r) PROVE WaitInv'
  BY <1>35 DEF Append
<1>36. ASSUME NEW r \in Requests, Finish(r) PROVE WaitInv'
  BY <1>36 DEF Finish, Untrack
<1>37. CASE UNCHANGED vars
  BY <1>37 DEF vars
<1> QED
  BY Zenon, <1>1, <1>2, <1>3, <1>4, <1>5, <1>6, <1>7, <1>8, <1>9, <1>10, <1>11, <1>12, <1>13,
     <1>14, <1>15, <1>16, <1>17, <1>18, <1>19, <1>20, <1>21, <1>22, <1>23, <1>24, <1>25, <1>26,
     <1>27, <1>28, <1>29, <1>30, <1>31, <1>32, <1>33, <1>34, <1>35, <1>36, <1>37
     DEF Next, Main, Coordinator

(* Whoever waits during a start-up or shutdown waits for a thread that can   *)
(* go on: no ring of threads that wait for each other, no lost byte, no      *)
(* event that was set too early or cleared too late (run_server,             *)
(* _run_shutdown_coordinator, server_close). With the fairness of the        *)
(* threads this is why ShutdownEnds holds.                                   *)
THEOREM NobodyIsStuck == Spec => []WaitsAreAnswered
<1>1. IndInv /\ WaitInv => WaitsAreAnswered
  <2> SUFFICES ASSUME IndInv, WaitInv PROVE WaitsAreAnswered
    OBVIOUS
  <2> USE DEF IndInv, TypeOK, WaitInv, WorkerMoves, RequestsEnded
  <2>1. main = "dispatch" => active \ workers # {}
    BY DEF RequestsServed, RequestsAsked
  <2>2. "wait" \in {main, coord} => RequestsEnded \/ WorkerMoves
    BY DEF RequestsServed, RequestsAsked, LoopLeft, EarlyStages, ServeStages, ClosingStages
  <2>3. coord = "isdown" =>
          isShutDown \/ main = "setdown" \/ (request /\ main \in ServeStages \cup {"reset"})
    BY DEF CoordinatorServed
  <2>4. CancelIsWhole /\ coord = "await" =>
          MayProceed \/ main \in {"install", "publish", "fcancel", "restore", "cancel"}
    BY DEF CancelIsWhole, MayProceed, CoordinatorStarted, CoordinatorReleased, CoordinatorServed, MainStages,
       ServeStages, EarlyStages, JoinedStages, Then, Raised
  <2>5. CancelIsWhole /\ main \in {"join", "cjoin"} => CoordinatorEnded \/ CoordMoves
    BY <2>2 DEF CoordMoves, CoordStages, CancelIsWhole, CoordinatorEnded, MayProceed, CoordinatorStarted,
       CoordinatorReleased, CoordinatorServed, ServeStages, EarlyStages
  <2> QED
    BY <2>1, <2>2, <2>3, <2>4, <2>5 DEF WaitsAreAnswered
<1>2. Init => WaitInv
  BY InitWaitInv
<1>3. IndInv /\ WaitInv /\ [Next]_vars => WaitInv'
  BY StepWaitInv
<1> QED
  BY <1>1, <1>2, <1>3, Invariance, PTL DEF Spec
=============================================================================
