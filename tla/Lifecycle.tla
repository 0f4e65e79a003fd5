----------------------------- MODULE Lifecycle -----------------------------
(***************************************************************************)
(* One life of the collector process, from run_server to the end of        *)
(* server_close: the main thread, which starts the shutdown coordinator,   *)
(* installs the signal handlers, serves, and takes everything down; the    *)
(* coordinator thread, which a byte in the self-pipe wakes; one worker     *)
(* thread per request; and the two signals, which may come at any moment.  *)
(*                                                                         *)
(* Every critical section of a condition or lock is one step: what it      *)
(* waits for is the guard of that step, because each change of the         *)
(* condition is followed by notify_all under the same lock. main and coord *)
(* name the next statement of their thread.                                *)
(***************************************************************************)
EXTENDS Integers, FiniteSets

CONSTANTS
  Requests,       \* client connections
  Devices,        \* devices that have sessions
  PipeCapacity,   \* bytes the self-pipe holds before a write would block
  MaxSignals,     \* signals that reach the server's own handler
  MaxInterrupts   \* Ctrl-C's that reach Python's handler, which raises

ASSUME ConstantsOK ==
  /\ IsFiniteSet(Requests) /\ IsFiniteSet(Devices)
  /\ PipeCapacity \in Nat \ {0} /\ MaxSignals \in Nat /\ MaxInterrupts \in Nat

VARIABLES
  main,          \* next step of the main thread
  coord,         \* next step of the coordinator, "none" before it starts
  tracked,       \* _shutdown_coordinator is the started thread
  installed,     \* how many of SIGINT, SIGTERM have the server's handler
  signals,       \* how many signals that handler has seen
  interrupted,   \* stages of the main thread that KeyboardInterrupt cut short
  pipe,          \* bytes in the self-pipe
  pipeOpen, tcpOpen,
  ready, completed, cancelled,   \* the coordinator's condition
  request, isShutDown,           \* BaseServer's __shutdown_request, __is_shut_down
  active,        \* _active_requests
  workers,       \* requests whose thread runs
  asked,         \* _shutdown_requests: their sockets are shut down
  sessions,      \* devices with an open session
  claimed,       \* _sessions_closed
  reporting      \* Web reporting has not been told to stop

threads == <<main, coord, tracked>>
environment == <<installed, signals, interrupted>>
condition == <<ready, completed, cancelled>>
loopFlags == <<request, isShutDown>>
connections == <<active, workers, asked>>
storage == <<sessions, claimed, reporting>>
descriptors == <<pipe, pipeOpen, tcpOpen>>
vars == <<threads, environment, condition, loopFlags, connections, storage, descriptors>>

ServeStages == {"clear", "loop", "handle", "dispatch", "service"}

(* The statement that follows one of run_server's and server_close's steps.  *)
Then == [fcancel |-> "fnotify", fnotify |-> "join", notify |-> "join", join |-> "restore",
         cancel |-> "cnotify", cnotify |-> "cjoin", cjoin |-> "ask", ask |-> "wait",
         wait |-> "claim", claim |-> "sessions", sessions |-> "reporting",
         reporting |-> "tcp", tcp |-> "pipe", pipe |-> "done"]

\* Mutant: server_close stops at the first step that raises.
BugRaised == [start |-> "restore", install |-> "fcancel",
              fcancel |-> "restore", fnotify |-> "restore", join |-> "restore",
              cancel |-> "done", cnotify |-> "done", cjoin |-> "done", ask |-> "done",
              wait |-> "done", claim |-> "done", sessions |-> "done",
              reporting |-> "done", tcp |-> "done", pipe |-> "done"]

(* Where the main thread goes when a step raises: run_server's except       *)
(* clause, its restore, and in server_close the next of its clean-up steps. *)
Raised == [start |-> "restore", install |-> "fcancel",
           fcancel |-> "restore", fnotify |-> "restore", join |-> "restore",
           cancel |-> "cjoin", cnotify |-> "cjoin", cjoin |-> "ask",
           ask |-> "claim", wait |-> "claim", claim |-> "reporting",
           sessions |-> "reporting", reporting |-> "tcp", tcp |-> "pipe", pipe |-> "done"]

MainStages == DOMAIN Then \cup DOMAIN Raised \cup ServeStages
                \cup {"publish", "reset", "setdown", "complete", "restore", "done"}
CoordStages == {"none", "read", "await", "request", "isdown",
                "ask", "wait", "claim", "sessions", "done"}

Init ==
  /\ main = "start" /\ coord = "none" /\ tracked = FALSE
  /\ installed = 0 /\ signals = 0 /\ interrupted = {}
  /\ pipe = 0 /\ pipeOpen = TRUE /\ tcpOpen = TRUE
  /\ ready = FALSE /\ completed = FALSE /\ cancelled = FALSE
  /\ request = FALSE /\ isShutDown = FALSE
  /\ active = {} /\ workers = {} /\ asked = {}
  /\ sessions = {} /\ claimed = FALSE /\ reporting = TRUE

-----------------------------------------------------------------------------
(* The self-pipe: a write to a full or a closed pipe is dropped.             *)
NotifyShutdown ==
  pipe' = IF pipeOpen /\ pipe < PipeCapacity THEN pipe + 1 ELSE pipe

(* A signal for which the server's handler is installed interrupts the main *)
(* thread; the handler only writes to the pipe.                              *)
Signal ==
  /\ installed > 0 /\ signals < MaxSignals
  /\ signals' = signals + 1
  /\ NotifyShutdown
  /\ UNCHANGED <<threads, installed, interrupted, condition, loopFlags, connections, storage,
                 pipeOpen, tcpOpen>>

(* Ctrl-C while Python's own handler is in place raises in the main thread   *)
(* and cuts the stage it is in short. Thread.start may already have started  *)
(* the coordinator, and may or may not have returned.                        *)
Interrupt ==
  /\ installed = 0 /\ main \in DOMAIN Raised
  /\ Cardinality(interrupted) < MaxInterrupts
  /\ interrupted' = interrupted \cup {main}
  /\ main' = Raised[main]
  /\ \/ UNCHANGED <<coord, tracked>>
     \/ main = "start" /\ coord' = "read" /\ tracked' \in BOOLEAN
  /\ UNCHANGED <<installed, signals, condition, loopFlags, connections, storage, descriptors>>

-----------------------------------------------------------------------------
(* The main thread: run_server up to serve_forever.                          *)
StartCoordinator ==
  /\ main = "start" /\ main' = "install"
  /\ coord' = "read" /\ tracked' = TRUE
  /\ UNCHANGED <<environment, condition, loopFlags, connections, storage, descriptors>>

InstallHandler ==
  /\ main = "install" /\ installed < 2
  /\ installed' = installed + 1
  /\ UNCHANGED <<threads, signals, interrupted, condition, loopFlags, connections, storage, descriptors>>

(* No thread can be started; run_server runs outside the main thread, where  *)
(* no handler can be installed.                                              *)
SetupFails ==
  /\ main = "start" \/ (main = "install" /\ installed < 2)
  /\ main' = Raised[main]
  /\ UNCHANGED <<coord, tracked, environment, condition, loopFlags, connections, storage, descriptors>>

EnterServe ==
  /\ main = "install" /\ installed = 2
  /\ main' = "publish" /\ isShutDown' = FALSE
  /\ UNCHANGED <<coord, tracked, environment, condition, request, connections, storage, descriptors>>

PublishReady ==
  /\ main = "publish" /\ main' = "clear"
  /\ ready' = TRUE /\ completed' = FALSE
  /\ UNCHANGED <<coord, tracked, environment, cancelled, loopFlags, connections, storage, descriptors>>

(* BaseServer.serve_forever.                                                 *)
EnterLoop ==
  /\ main = "clear" /\ main' = "loop"
  /\ isShutDown' = FALSE
  /\ UNCHANGED <<coord, tracked, environment, condition, request, connections, storage, descriptors>>

CheckRequest ==
  /\ main = "loop" /\ main' = IF request THEN "reset" ELSE "handle"
  /\ UNCHANGED <<coord, tracked, environment, condition, loopFlags, connections, storage, descriptors>>

(* select returned: a new request is tracked, or there is none.              *)
Accept ==
  /\ main = "handle"
  /\ \/ main' = "service" /\ UNCHANGED active
     \/ \E r \in Requests \ active : active' = active \cup {r} /\ main' = "dispatch"
  /\ UNCHANGED <<coord, tracked, environment, condition, loopFlags, workers, asked, storage, descriptors>>

(* Its thread starts, or cannot be started and the request is given up.      *)
Untrack(r) == active' = active \ {r} /\ asked' = asked \ {r}

Dispatch ==
  /\ main = "dispatch" /\ main' = "service"
  /\ \E r \in active \ workers :
       \/ workers' = workers \cup {r} /\ UNCHANGED <<active, asked>>
       \/ Untrack(r) /\ UNCHANGED workers
  /\ UNCHANGED <<coord, tracked, environment, condition, loopFlags, storage, descriptors>>

(* Some sessions expire; an error leaves the loop.                           *)
ServiceActions ==
  /\ main = "service" /\ main' \in {"loop", "reset"}
  /\ sessions' \in SUBSET sessions
  /\ UNCHANGED <<coord, tracked, environment, condition, loopFlags, connections,
                 claimed, reporting, descriptors>>

(* The finally clauses of the two serve_forever.                             *)
ResetRequest ==
  /\ main = "reset" /\ main' = "setdown"
  /\ request' = FALSE
  /\ UNCHANGED <<coord, tracked, environment, condition, isShutDown, connections, storage, descriptors>>

SetIsShutDown ==
  /\ main = "setdown" /\ main' = "complete"
  /\ isShutDown' = TRUE
  /\ UNCHANGED <<coord, tracked, environment, condition, request, connections, storage, descriptors>>

PublishCompleted ==
  /\ main = "complete" /\ main' = "notify"
  /\ ready' = FALSE /\ completed' = TRUE
  /\ UNCHANGED <<coord, tracked, environment, cancelled, loopFlags, connections, storage, descriptors>>

-----------------------------------------------------------------------------
(* The main thread: the end of run_server, and server_close.                 *)
CancelCoordinator ==
  /\ main \in {"fcancel", "cancel"} /\ main' = Then[main]
  /\ cancelled' = TRUE
  /\ UNCHANGED <<coord, tracked, environment, ready, completed, loopFlags, connections, storage, descriptors>>

Notify ==
  /\ main \in {"fnotify", "notify", "cnotify"} /\ main' = Then[main]
  /\ NotifyShutdown
  /\ UNCHANGED <<coord, tracked, environment, condition, loopFlags, connections, storage, pipeOpen, tcpOpen>>

CoordinatorEnded == tracked => coord = "done"

JoinCoordinator ==
  /\ main \in {"join", "cjoin"} /\ main' = Then[main]
  /\ CoordinatorEnded
  /\ UNCHANGED <<coord, tracked, environment, condition, loopFlags, connections, storage, descriptors>>

RestoreHandlers ==
  /\ main = "restore" /\ main' = "cancel"
  /\ installed' = 0
  /\ UNCHANGED <<coord, tracked, signals, interrupted, condition, loopFlags, connections, storage, descriptors>>

\* Mutant: the sockets of the requests that are waited for are not shut down.
BugAskRequests == UNCHANGED asked

(* _close_active_requests_and_wait: the sockets of a snapshot are shut down, *)
(* then the set itself is waited for.                                        *)
AskRequests == asked' = asked \cup active

\* Mutant: it is enough that every socket was shut down.
BugRequestsEnded == active \subseteq asked

RequestsEnded == active = {}

(* _close_all_sessions_once, in two steps: the flag is taken, then the       *)
(* sessions are closed by whoever took it.                                   *)
CloseSessions == sessions' = {}

CloseAsk ==
  /\ main = "ask" /\ main' = Then[main]
  /\ AskRequests
  /\ UNCHANGED <<coord, tracked, environment, condition, loopFlags, active, workers, storage, descriptors>>

CloseWait ==
  /\ main = "wait" /\ main' = Then[main]
  /\ RequestsEnded
  /\ UNCHANGED <<coord, tracked, environment, condition, loopFlags, connections, storage, descriptors>>

CloseClaim ==
  /\ main = "claim" /\ main' = IF claimed THEN "reporting" ELSE "sessions"
  /\ claimed' = TRUE
  /\ UNCHANGED <<coord, tracked, environment, condition, loopFlags, connections, sessions, reporting, descriptors>>

CloseSessionsMain ==
  /\ main = "sessions" /\ main' = Then[main]
  /\ CloseSessions
  /\ UNCHANGED <<coord, tracked, environment, condition, loopFlags, connections, claimed, reporting, descriptors>>

StopReporting ==
  /\ main = "reporting" /\ main' = Then[main]
  /\ reporting' = FALSE
  /\ UNCHANGED <<coord, tracked, environment, condition, loopFlags, connections, sessions, claimed, descriptors>>

CloseTcp ==
  /\ main = "tcp" /\ main' = Then[main]
  /\ tcpOpen' = FALSE
  /\ UNCHANGED <<coord, tracked, environment, condition, loopFlags, connections, storage, pipe, pipeOpen>>

ClosePipe ==
  /\ main = "pipe" /\ main' = Then[main]
  /\ pipeOpen' = FALSE
  /\ UNCHANGED <<coord, tracked, environment, condition, loopFlags, connections, storage, pipe, tcpOpen>>

-----------------------------------------------------------------------------
(* The coordinator: a byte, or the end of the pipe.                          *)
CoordRead ==
  /\ coord = "read"
  /\ \/ pipeOpen /\ pipe > 0 /\ pipe' = pipe - 1 /\ coord' = "await"
     \/ ~pipeOpen /\ coord' = "done" /\ UNCHANGED pipe
  /\ UNCHANGED <<main, tracked, environment, condition, loopFlags, connections, storage, pipeOpen, tcpOpen>>

\* Mutant: the coordinator waits for a loop that runs.
BugNoCompleted == ready \/ cancelled

MayProceed == ready \/ completed \/ cancelled

CoordAwait ==
  /\ coord = "await" /\ MayProceed
  /\ coord' = IF cancelled THEN "done" ELSE "request"
  /\ UNCHANGED <<main, tracked, environment, condition, loopFlags, connections, storage, descriptors>>

(* shutdown: BaseServer's flag, its event, then the requests and sessions.   *)
CoordRequest ==
  /\ coord = "request" /\ coord' = "isdown"
  /\ request' = TRUE
  /\ UNCHANGED <<main, tracked, environment, condition, isShutDown, connections, storage, descriptors>>

CoordIsDown ==
  /\ coord = "isdown" /\ coord' = "ask"
  /\ isShutDown
  /\ UNCHANGED <<main, tracked, environment, condition, loopFlags, connections, storage, descriptors>>

CoordAsk ==
  /\ coord = "ask" /\ coord' = "wait"
  /\ AskRequests
  /\ UNCHANGED <<main, tracked, environment, condition, loopFlags, active, workers, storage, descriptors>>

CoordWait ==
  /\ coord = "wait" /\ coord' = "claim"
  /\ RequestsEnded
  /\ UNCHANGED <<main, tracked, environment, condition, loopFlags, connections, storage, descriptors>>

CoordClaim ==
  /\ coord = "claim" /\ coord' = IF claimed THEN "done" ELSE "sessions"
  /\ claimed' = TRUE
  /\ UNCHANGED <<main, tracked, environment, condition, loopFlags, connections, sessions, reporting, descriptors>>

CoordSessions ==
  /\ coord = "sessions" /\ coord' = "done"
  /\ CloseSessions
  /\ UNCHANGED <<main, tracked, environment, condition, loopFlags, connections, claimed, reporting, descriptors>>

-----------------------------------------------------------------------------
(* A worker appends a record, which opens the device's session, or ends: by  *)
(* itself, or because its socket was shut down.                              *)
Append(r) ==
  /\ r \in workers
  /\ \E d \in Devices : sessions' = sessions \cup {d}
  /\ UNCHANGED <<threads, environment, condition, loopFlags, connections, claimed, reporting, descriptors>>

Finish(r) ==
  /\ r \in workers
  /\ workers' = workers \ {r} /\ Untrack(r)
  /\ UNCHANGED <<threads, environment, condition, loopFlags, storage, descriptors>>

Main ==
  \/ StartCoordinator \/ InstallHandler \/ SetupFails \/ EnterServe \/ PublishReady
  \/ EnterLoop \/ CheckRequest \/ Accept \/ Dispatch \/ ServiceActions
  \/ ResetRequest \/ SetIsShutDown \/ PublishCompleted
  \/ CancelCoordinator \/ Notify \/ JoinCoordinator \/ RestoreHandlers
  \/ CloseAsk \/ CloseWait \/ CloseClaim \/ CloseSessionsMain
  \/ StopReporting \/ CloseTcp \/ ClosePipe

Coordinator ==
  \/ CoordRead \/ CoordAwait \/ CoordRequest \/ CoordIsDown
  \/ CoordAsk \/ CoordWait \/ CoordClaim \/ CoordSessions

Next ==
  \/ Main \/ Coordinator \/ Signal \/ Interrupt
  \/ \E r \in Requests : Append(r) \/ Finish(r)

Spec == Init /\ [][Next]_vars

(* Threads run. A worker need only end once its socket was shut down: a      *)
(* client may keep an undisturbed one busy for ever.                         *)
FairSpec ==
  /\ Spec
  /\ WF_vars(Main) /\ WF_vars(Coordinator)
  /\ \A r \in Requests : WF_vars(r \in asked /\ Finish(r))

-----------------------------------------------------------------------------
(* Every variable has its type; the pipe never holds more than it can.       *)
TypeOK ==
  /\ main \in MainStages /\ coord \in CoordStages /\ tracked \in BOOLEAN
  /\ installed \in 0 .. 2 /\ signals \in 0 .. MaxSignals
  /\ interrupted \subseteq MainStages
  /\ pipe \in 0 .. PipeCapacity /\ pipeOpen \in BOOLEAN /\ tcpOpen \in BOOLEAN
  /\ ready \in BOOLEAN /\ completed \in BOOLEAN /\ cancelled \in BOOLEAN
  /\ request \in BOOLEAN /\ isShutDown \in BOOLEAN
  /\ active \subseteq Requests /\ workers \subseteq active /\ asked \subseteq active
  /\ sessions \subseteq Devices /\ claimed \in BOOLEAN /\ reporting \in BOOLEAN

(* Every tracked request has a thread that will untrack it, except while it  *)
(* is being started: no clean-up waits for a request nobody serves           *)
(* (process_request, shutdown_request).                                      *)
EveryRequestServed == main # "dispatch" => active = workers

(* Nothing is taken down while something still needs it: sessions are closed *)
(* for good only when no request is tracked and none can be accepted, Web    *)
(* reporting stops only when every session is closed, and the pipe is closed *)
(* only when the coordinator has ended (shutdown, server_close). A Ctrl-C    *)
(* gives up what the stage it cuts short waits for, and nothing else.        *)
RequestsAwaited == interrupted \cap {"ask", "wait"} = {}
Undisturbed == interrupted \cap {"cjoin", "ask", "wait", "claim", "sessions"} = {}

TeardownOrder ==
  /\ claimed /\ RequestsAwaited => active = {} /\ main \notin ServeStages
  /\ ~reporting /\ Undisturbed => sessions = {}
  /\ ~pipeOpen /\ "cjoin" \notin interrupted /\ tracked => coord = "done"

(* Once the sessions have been claimed for closing, no step opens one that   *)
(* nothing would close (_close_all_sessions_once closes only once).          *)
NoSessionAfterClosing ==
  [][claimed /\ RequestsAwaited => sessions' \subseteq sessions]_vars

(* server_close goes through all its steps whatever one of them does: a      *)
(* Ctrl-C during one leaves undone what that one does and nothing else       *)
(* (_run_cleanup_step).                                                      *)
ReleasedWhateverFails ==
  main = "done" =>
    /\ "pipe" \notin interrupted => ~pipeOpen
    /\ "tcp" \notin interrupted => ~tcpOpen
    /\ "reporting" \notin interrupted => ~reporting
    /\ "claim" \notin interrupted => claimed
    /\ RequestsAwaited => active = {}
    /\ Undisturbed => sessions = {}

(* A signal, an error of the serve loop or a failed start-up ends in a       *)
(* closed server: no thread waits for one that waits for it (run_server,     *)
(* _run_shutdown_coordinator).                                               *)
ShutdownEnds ==
  signals > 0 \/ main \in {"reset", "restore", "fcancel"} ~> main = "done"

(* What ShutdownEnds needs of every state: whoever waits waits for a thread   *)
(* that can go on and will end the wait. The coordinator's byte, condition   *)
(* and event are on their way, a request that is waited for has a worker     *)
(* whose socket is shut down, and the coordinator that is joined is not      *)
(* itself waiting for the main thread. A Ctrl-C that cuts                    *)
(* cancel_shutdown_coordinator short is the exception.                       *)
WorkerMoves == workers \cap asked # {}

CoordMoves ==
  \/ coord \in {"request", "ask", "claim", "sessions"}
  \/ coord = "read" /\ (pipe > 0 \/ ~pipeOpen)
  \/ coord = "await" /\ MayProceed
  \/ coord = "isdown" /\ isShutDown
  \/ coord = "wait" /\ (RequestsEnded \/ WorkerMoves)

CancelIsWhole == interrupted \cap {"cancel", "cnotify"} = {}

WaitsAreAnswered ==
  /\ main = "dispatch" => active \ workers # {}
  /\ "wait" \in {main, coord} => RequestsEnded \/ WorkerMoves
  /\ coord = "isdown" =>
       isShutDown \/ main = "setdown" \/ (request /\ main \in ServeStages \cup {"reset"})
  /\ CancelIsWhole /\ coord = "await" =>
       MayProceed \/ main \in {"install", "publish", "fcancel", "restore", "cancel"}
  /\ CancelIsWhole /\ main \in {"join", "cjoin"} => CoordinatorEnded \/ CoordMoves

-----------------------------------------------------------------------------
(* What the safety properties rest on, step by step of the two threads.      *)
EarlyStages == ServeStages \cup {"start", "install", "publish", "reset", "setdown"}
JoinedStages == {"ask", "wait", "claim", "sessions", "reporting", "tcp", "pipe", "done"}
ClosingStages == {"ask", "wait", "claim", "sessions"}

CoordinatorStarted ==
  /\ main = "start" \/ coord = "none" => ~tracked
  /\ main = "start" => coord = "none"
  /\ \/ main \in (EarlyStages \ {"start"}) \cup {"complete", "notify"}
     \/ ready \/ completed
     \/ coord \in {"request", "isdown"} \cup ClosingStages
     => tracked

LoopLeft == isShutDown \/ claimed \/ coord \in ClosingStages => main \notin EarlyStages

RequestsServed ==
  /\ workers \subseteq active
  /\ main # "dispatch" => active = workers
  /\ main = "dispatch" => \E r \in Requests : active \subseteq workers \cup {r}

RequestsGone ==
  /\ coord \in {"claim", "sessions"} => active = {}
  /\ RequestsAwaited /\ (claimed \/ main \in JoinedStages \ {"ask", "wait"}) => active = {}

CoordinatorGone ==
  main \in JoinedStages /\ "cjoin" \notin interrupted /\ tracked => coord = "done"

SessionsGone ==
  /\ Undisturbed /\ claimed => sessions = {} \/ coord = "sessions" \/ main = "sessions"
  /\ Undisturbed /\ main \in {"reporting", "tcp", "pipe", "done"} => claimed /\ sessions = {}

Released ==
  /\ ~reporting => main \in {"tcp", "pipe", "done"}
  /\ ~pipeOpen => main = "done"
  /\ main = "done" /\ "pipe" \notin interrupted => ~pipeOpen
  /\ main \in {"pipe", "done"} /\ "tcp" \notin interrupted => ~tcpOpen
  /\ main \in {"tcp", "pipe", "done"} /\ "reporting" \notin interrupted => ~reporting
  /\ main \in JoinedStages \ {"ask", "wait", "claim"} /\ "claim" \notin interrupted => claimed

(* The inductive invariant behind TypeOK, EveryRequestServed, TeardownOrder  *)
(* and ReleasedWhateverFails.                                                *)
IndInv ==
  /\ TypeOK /\ CoordinatorStarted /\ LoopLeft /\ RequestsServed /\ RequestsGone
  /\ CoordinatorGone /\ SessionsGone /\ Released

(* And what WaitsAreAnswered adds to it.                                     *)
CoordinatorServed ==
  /\ ready \/ coord = "request" \/ coord = "isdown" =>
       completed \/ main \in ServeStages \cup {"reset", "setdown", "complete"}
  /\ main \in ServeStages \cup {"reset", "setdown", "complete"} => ready
  /\ coord \in {"request", "isdown"} => ready \/ completed
  /\ completed => main \notin EarlyStages \cup {"complete", "fcancel", "fnotify"}
  /\ completed \/ main \in {"complete", "notify"} => isShutDown
  /\ coord = "isdown" /\ main \in ServeStages \cup {"reset"} => request

CoordinatorReleased ==
  /\ main = "notify" => completed
  /\ main \in {"fnotify", "cnotify"} => cancelled
  /\ main = "join" => completed \/ cancelled
  /\ main \in {"cjoin"} \cup JoinedStages /\ "cancel" \notin interrupted => cancelled
  /\ CancelIsWhole /\ main \in {"join", "cjoin"} /\ coord = "read" => pipe > 0

RequestsAsked ==
  /\ main = "dispatch" => active # workers
  /\ "wait" \in {main, coord} => active \subseteq asked

WaitInv == CoordinatorServed /\ CoordinatorReleased /\ RequestsAsked
=============================================================================
