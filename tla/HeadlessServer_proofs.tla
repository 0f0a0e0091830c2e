----------------------- MODULE HeadlessServer_proofs -----------------------
(***************************************************************************)
(* Proofs about HeadlessServer, for any set of signals: type correctness,  *)
(* and that Server.stop neither closes a socket twice nor closes it under  *)
(* the serve loop.                                                         *)
(***************************************************************************)
EXTENDS HeadlessServer, TLAPS

\* Past the test on _server, with the lock.
Holding(c) == pc[c] \in {"test", "shutdown", "wait", "close"}

\* The main thread's progress up to a point of main().
BeforeWatch == {"bind", "hooks", "publish", "signals", "watcher"}
BeforeServe == {"hooks", "publish", "signals", "watcher", "atexit", "serve"}
BeforeLeft  == {"bind", "check", "serving", "load", "enter", "loop", "handle", "left"}
                 \cup BeforeServe
Served      == {"load", "enter", "loop", "handle", "left"}
Entered     == {"enter", "loop", "handle"}

\* Whoever is past the test holds the lock, so there is one of them.
LockInv == \A c \in Contexts : Holding(c) => lock = c

\* The instance a stop works on is open, and no longer Server._server.
HeldInv ==
  \A c \in Contexts :
    Holding(c) => srv[c] \in Instances /\ sock[srv[c]] = "open" /\ srv[c] # server

ServerOpen == server # None => sock[server] = "open"

\* What holds at each stage of main().
PhaseInv ==
  /\ pc[Main] = "bind" => server = None /\ \A i \in Instances : sock[i] = "none"
  /\ pc[Main] \in BeforeWatch => pc[Watch] = "off"
  /\ pc[Main] \in BeforeServe => sock[2] = "none"
  /\ pc[Main] \in BeforeLeft => \A i \in Instances : ~isShut[i]
  /\ pc[Main] \in Served => serving

\* While the loop runs, a stop of its instance is still on this side of the close.
LoopInv ==
  pc[Main] \in Entered =>
    /\ srv[Main] \in Instances
    /\ sock[srv[Main]] = "open"
    /\ \A c \in Contexts : pc[c] = "close" => srv[c] # srv[Main]

IInv == TypeOK /\ LockInv /\ HeldInv /\ ServerOpen /\ PhaseInv /\ LoopInv

(* The second invariant: what is left when the process exits.              *)

\* Points of main() at which the sidecar may exist.
Advertising == {"signals", "watcher", "atexit", "serve", "check", "serving", "load",
                "enter", "loop", "handle", "left", "unserve", "killclean", "remove",
                "killed", "escaped"}

\* An open socket is the current server's, or in the hands of a stop.
OpenInv ==
  pc[Main] # "killed" => \A i \in Instances :
    sock[i] = "open" => server = i \/ \E c \in Contexts : Holding(c) /\ srv[c] = i

\* After main()'s own stop nothing is left to stop.
QuietInv ==
  /\ Holding(Main) => server = None
  /\ pc[Main] \in {"qexit", "exited"} =>
       server = None /\ \A c \in Contexts : ~Holding(c)

WithdrawnInv ==
  /\ pc[Main] \notin Advertising => sidecar = None
  /\ code = 0 /\ pc[Main] \in StopPcs \cup {"qexit", "exited"} => ~hooks

\* Before the event is set only the main thread stops the server.
AdvertInv ==
  ~event =>
    /\ \A c \in Contexts \ {Main} : pc[c] \notin StopPcs
    /\ sidecar # None => sock[sidecar] = "open"

ExitInv == OpenInv /\ QuietInv /\ WithdrawnInv /\ AdvertInv

-----------------------------------------------------------------------------
\* The contexts and the free lock are different things.
LEMMA ContextsDistinct ==
  /\ Main \in Contexts /\ Watch \in Contexts /\ Main # Watch
  /\ \A s \in Signals : s \in Contexts /\ s # Main /\ s # Watch
  /\ Free \notin Contexts
  BY SignalsAssumption DEF Contexts, OnMain, Main, Watch, Free

\* Every step keeps the types; one case per action.
LEMMA TypeStep ==
  ASSUME TypeOK, [Next]_vars
  PROVE  TypeOK'
  <1> USE ContextsDistinct DEF TypeOK, stackVars, serverVars, bootVars, At, CanRun,
        Goto, Contexts, OnMain, Instances, None, MainPcs, SignalPcs, WatchPcs, StopPcs
  <1>1. CASE Bind
    BY <1>1 DEF Bind, BindServer, NewInstance
  <1>2. CASE InstallHooks
    BY <1>2 DEF InstallHooks
  <1>3. CASE PublishSidecar
    BY <1>3 DEF PublishSidecar
  <1>4. CASE InstallSignalHandlers
    BY <1>4 DEF InstallSignalHandlers
  <1>5. CASE InstallKillSwitchWatcher
    BY <1>5 DEF InstallKillSwitchWatcher
  <1>6. CASE RegisterAtexit
    BY <1>6 DEF RegisterAtexit
  <1>7. CASE ServeBind
    BY <1>7 DEF ServeBind, BindServer, NewInstance
  <1>8. CASE ServeCheck
    BY <1>8 DEF ServeCheck
  <1>9. CASE SetServing
    BY <1>9 DEF SetServing
  <1>10. CASE LoadServer
    BY <1>10 DEF LoadServer
  <1>11. CASE EnterServeForever
    BY <1>11 DEF EnterServeForever
  <1>12. CASE FinishRequest
    BY <1>12 DEF FinishRequest
  <1>13. CASE LeaveOnRequest
    BY <1>13 DEF LeaveOnRequest
  <1>14. CASE LeaveServeForever
    BY <1>14 DEF LeaveServeForever
  <1>15. CASE ClearServing
    BY <1>15 DEF ClearServing
  <1>16. CASE CleanupKillSwitch
    BY <1>16 DEF CleanupKillSwitch
  <1>17. CASE RemoveSidecar
    BY <1>17 DEF RemoveSidecar
  <1>18. CASE UninstallHooks
    BY <1>18 DEF UninstallHooks
  <1>19. CASE Qexit
    BY <1>19 DEF Qexit
  <1>20. CASE WatchTest
    BY <1>20 DEF WatchTest
  <1>21. CASE WatchLook
    BY <1>21 DEF WatchLook
  <1>22. CASE StartRequest
    BY <1>22 DEF StartRequest
  <1>23. CASE LoopCrash
    BY <1>23 DEF LoopCrash
  <1>24. CASE RequestShutdown
    BY <1>24 DEF RequestShutdown
  <1>25. CASE CloserCleanup
    <2>1. kill' \in BOOLEAN
      BY <1>25 DEF CloserCleanup
    <2>2. UNCHANGED <<pc, stackVars, serverVars, bootVars>>
      BY <1>25 DEF CloserCleanup
    <2> QED
      BY <2>1, <2>2
  <1>26. CASE HardKill
    BY <1>26 DEF HardKill
  <1>27. ASSUME NEW c \in Contexts, StopTake(c)
         PROVE  TypeOK'
    BY <1>27 DEF StopTake, Return
  <1>28. ASSUME NEW c \in Contexts, StopTest(c)
         PROVE  TypeOK'
    BY <1>28 DEF StopTest
  <1>29. ASSUME NEW c \in Contexts, StopRequest(c)
         PROVE  TypeOK'
    <2>1. shutReq' \in [Instances -> BOOLEAN]
      BY <1>29 DEF StopRequest
    <2>2. pc' = [pc EXCEPT ![c] = "wait"]
      BY <1>29 DEF StopRequest
    <2>3. UNCHANGED <<stackVars, lock, server, serving, srv, sock, isShut, bootVars, kill>>
      BY <1>29 DEF StopRequest
    <2> QED
      BY <2>1, <2>2, <2>3
  <1>30. ASSUME NEW c \in Contexts, StopWait(c)
         PROVE  TypeOK'
    BY <1>30 DEF StopWait
  <1>31. ASSUME NEW c \in Contexts, StopClose(c)
         PROVE  TypeOK'
    <2>1. sock' \in [Instances -> {"none", "open", "closed"}]
      BY <1>31 DEF StopClose
    <2>2. running' \in OnMain /\ UNCHANGED under
      BY <1>31 DEF StopClose, Return
    <2>3. pc' = [pc EXCEPT ![c] = CASE c = Main -> "qexit" [] c = Watch -> "gone"
                                    [] OTHER -> "done"]
      BY <1>31 DEF StopClose, Return
    <2>4. lock' = Free /\ UNCHANGED <<server, serving, srv, shutReq, isShut, bootVars, kill>>
      BY <1>31 DEF StopClose
    <2> QED
      BY <2>1, <2>2, <2>3, <2>4
  <1>32. ASSUME NEW s \in Signals, Interrupt(s)
         PROVE  TypeOK'
    BY <1>32 DEF Interrupt
  <1>33. ASSUME NEW s \in Signals, SignalHandler(s)
         PROVE  TypeOK'
    BY <1>33 DEF SignalHandler
  <1>34. CASE UNCHANGED vars
    BY <1>34 DEF vars
  <1> QED
    BY <1>1, <1>2, <1>3, <1>4, <1>5, <1>6, <1>7, <1>8, <1>9, <1>10, <1>11, <1>12, <1>13, <1>14, <1>15, <1>16, <1>17, <1>18, <1>19, <1>20, <1>21, <1>22, <1>23, <1>24, <1>25, <1>26, <1>27, <1>28, <1>29, <1>30, <1>31, <1>32, <1>33, <1>34
    DEF Next, MainStep, WatchStep, SignalStep, Environment, Bootstrap, Serve, Teardown, Stop

\* Every step keeps the inductive invariant of Server.stop and the serve loop.
LEMMA InvStep ==
  ASSUME IInv, [Next]_vars
  PROVE  IInv'
  <1> USE ContextsDistinct, TypeStep DEF IInv, LockInv, HeldInv, ServerOpen, PhaseInv,
        LoopInv, Holding, TypeOK, stackVars, serverVars, bootVars, At, CanRun, Goto,
        Instances, None, BeforeWatch, BeforeServe, BeforeLeft, Served, Entered
  <1>1. CASE Bind
    BY <1>1 DEF Bind, BindServer, NewInstance
  <1>2. CASE InstallHooks
    BY <1>2 DEF InstallHooks
  <1>3. CASE PublishSidecar
    BY <1>3 DEF PublishSidecar
  <1>4. CASE InstallSignalHandlers
    BY <1>4 DEF InstallSignalHandlers
  <1>5. CASE InstallKillSwitchWatcher
    BY <1>5 DEF InstallKillSwitchWatcher
  <1>6. CASE RegisterAtexit
    BY <1>6 DEF RegisterAtexit
  <1>7. CASE ServeBind
    BY <1>7 DEF ServeBind, BindServer, NewInstance
  <1>8. CASE ServeCheck
    BY <1>8 DEF ServeCheck
  <1>9. CASE SetServing
    BY <1>9 DEF SetServing
  <1>10. CASE LoadServer
    BY <1>10 DEF LoadServer
  <1>11. CASE EnterServeForever
    BY <1>11 DEF EnterServeForever
  <1>12. CASE FinishRequest
    BY <1>12 DEF FinishRequest
  <1>13. CASE LeaveOnRequest
    BY <1>13 DEF LeaveOnRequest
  <1>14. CASE LeaveServeForever
    BY <1>14 DEF LeaveServeForever
  <1>15. CASE ClearServing
    BY <1>15 DEF ClearServing
  <1>16. CASE CleanupKillSwitch
    BY <1>16 DEF CleanupKillSwitch
  <1>17. CASE RemoveSidecar
    BY <1>17 DEF RemoveSidecar
  <1>18. CASE UninstallHooks
    BY <1>18 DEF UninstallHooks
  <1>19. CASE Qexit
    BY <1>19 DEF Qexit
  <1>20. CASE WatchTest
    BY <1>20 DEF WatchTest
  <1>21. CASE WatchLook
    BY <1>21 DEF WatchLook
  <1>22. CASE StartRequest
    BY <1>22 DEF StartRequest
  <1>23. CASE LoopCrash
    BY <1>23 DEF LoopCrash
  <1>24. CASE RequestShutdown
    BY <1>24 DEF RequestShutdown
  <1>25. CASE CloserCleanup
    BY <1>25 DEF CloserCleanup
  <1>26. CASE HardKill
    BY <1>26 DEF HardKill
  <1>27. ASSUME NEW c \in Contexts, StopTake(c)
         PROVE  IInv'
    <2>1. CASE server # None
      <3>1. /\ lock = Free /\ lock' = c /\ server' = None
            /\ srv' = [srv EXCEPT ![c] = server]
            /\ pc' = [pc EXCEPT ![c] = "test"]
            /\ pc[c] = "stop"
            /\ UNCHANGED <<stackVars, serving, sock, shutReq, isShut, bootVars, kill>>
        BY <1>27, <2>1 DEF StopTake
      <3>2. TypeOK' /\ ServerOpen'
        BY <3>1
      <3>3. LockInv'
        BY <3>1
      <3>4. HeldInv'
        BY <3>1, <2>1
      <3>5. PhaseInv'
        BY <3>1
      <3>6. LoopInv'
        BY <3>1
      <3> QED
        BY <3>2, <3>3, <3>4, <3>5, <3>6
    <2>2. CASE server = None
      BY <1>27, <2>2 DEF StopTake, Return
    <2> QED
      BY <2>1, <2>2
  <1>28. ASSUME NEW c \in Contexts, StopTest(c)
         PROVE  IInv'
    BY <1>28 DEF StopTest
  <1>29. ASSUME NEW c \in Contexts, StopRequest(c)
         PROVE  IInv'
    BY <1>29 DEF StopRequest
  <1>30. ASSUME NEW c \in Contexts, StopWait(c)
         PROVE  IInv'
    BY <1>30 DEF StopWait
  <1>31. ASSUME NEW c \in Contexts, StopClose(c)
         PROVE  IInv'
    BY <1>31 DEF StopClose, Return
  <1>32. ASSUME NEW s \in Signals, Interrupt(s)
         PROVE  IInv'
    BY <1>32 DEF Interrupt
  <1>33. ASSUME NEW s \in Signals, SignalHandler(s)
         PROVE  IInv'
    BY <1>33 DEF SignalHandler
  <1>34. CASE UNCHANGED vars
    BY <1>34 DEF vars
  <1> QED
    BY <1>1, <1>2, <1>3, <1>4, <1>5, <1>6, <1>7, <1>8, <1>9, <1>10, <1>11, <1>12, <1>13, <1>14, <1>15, <1>16, <1>17, <1>18, <1>19, <1>20, <1>21, <1>22, <1>23, <1>24, <1>25, <1>26, <1>27, <1>28, <1>29, <1>30, <1>31, <1>32, <1>33, <1>34
    DEF Next, MainStep, WatchStep, SignalStep, Environment, Bootstrap, Serve, Teardown, Stop

\* Every step keeps the invariant about what is left at the exit.
LEMMA ExitStep ==
  ASSUME IInv, IInv', ExitInv, [Next]_vars
  PROVE  ExitInv'
  <1> USE ContextsDistinct DEF IInv, LockInv, HeldInv, ServerOpen, PhaseInv, ExitInv,
        OpenInv, QuietInv, WithdrawnInv, AdvertInv, Advertising, Holding, TypeOK,
        stackVars, serverVars, bootVars, At, CanRun, Goto, Instances, None, BeforeWatch, BeforeServe,
        StopPcs
  <1>1. CASE Bind
    BY <1>1 DEF Bind, BindServer, NewInstance
  <1>2. CASE InstallHooks
    BY <1>2 DEF InstallHooks
  <1>3. CASE PublishSidecar
    BY <1>3 DEF PublishSidecar
  <1>4. CASE InstallSignalHandlers
    BY <1>4 DEF InstallSignalHandlers
  <1>5. CASE InstallKillSwitchWatcher
    <2>1. \/ pc' = [pc EXCEPT ![Main] = "atexit", ![Watch] = "poll"]
          \/ pc' = [pc EXCEPT ![Main] = "escaped"]
      BY <1>5 DEF InstallKillSwitchWatcher
    <2>2. UNCHANGED <<stackVars, serverVars, bootVars, kill>> /\ pc[Main] = "watcher"
      BY <1>5 DEF InstallKillSwitchWatcher
    <2>3. \A x \in Contexts : Holding(x)' <=> Holding(x)
      BY <2>1, <2>2
    <2>4. OpenInv'
      BY <2>1, <2>2, <2>3
    <2>5. QuietInv' /\ WithdrawnInv'
      BY <2>1, <2>2
    <2>6. AdvertInv'
      BY <2>1, <2>2
    <2> QED
      BY <2>4, <2>5, <2>6
  <1>6. CASE RegisterAtexit
    BY <1>6 DEF RegisterAtexit
  <1>7. CASE ServeBind
    BY <1>7 DEF ServeBind, BindServer, NewInstance
  <1>8. CASE ServeCheck
    BY <1>8 DEF ServeCheck
  <1>9. CASE SetServing
    BY <1>9 DEF SetServing
  <1>10. CASE LoadServer
    BY <1>10 DEF LoadServer
  <1>11. CASE EnterServeForever
    BY <1>11 DEF EnterServeForever
  <1>12. CASE FinishRequest
    BY <1>12 DEF FinishRequest
  <1>13. CASE LeaveOnRequest
    BY <1>13 DEF LeaveOnRequest
  <1>14. CASE LeaveServeForever
    BY <1>14 DEF LeaveServeForever
  <1>15. CASE ClearServing
    BY <1>15 DEF ClearServing
  <1>16. CASE CleanupKillSwitch
    BY <1>16 DEF CleanupKillSwitch
  <1>17. CASE RemoveSidecar
    BY <1>17 DEF RemoveSidecar
  <1>18. CASE UninstallHooks
    BY <1>18 DEF UninstallHooks
  <1>19. CASE Qexit
    BY <1>19 DEF Qexit
  <1>20. CASE WatchTest
    BY <1>20 DEF WatchTest
  <1>21. CASE WatchLook
    BY <1>21 DEF WatchLook
  <1>22. CASE StartRequest
    BY <1>22 DEF StartRequest
  <1>23. CASE LoopCrash
    BY <1>23 DEF LoopCrash
  <1>24. CASE RequestShutdown
    BY <1>24 DEF RequestShutdown
  <1>25. CASE CloserCleanup
    BY <1>25 DEF CloserCleanup
  <1>26. CASE HardKill
    BY <1>26 DEF HardKill
  <1>27. ASSUME NEW c \in Contexts, StopTake(c)
         PROVE  ExitInv'
    <2>1. CASE server # None
      BY <1>27, <2>1 DEF StopTake
    <2>2. CASE server = None
      <3>1. /\ lock = Free
            /\ pc[c] = "stop"
            /\ pc' = [pc EXCEPT ![c] = CASE c = Main -> "qexit" [] c = Watch -> "gone"
                                          [] OTHER -> "done"]
            /\ UNCHANGED <<lock, srv, server, serving, sock, shutReq, isShut, bootVars, kill>>
        BY <1>27, <2>2 DEF StopTake, Return
      <3>2. \A x \in Contexts : ~Holding(x) /\ ~Holding(x)'
        BY <3>1
      <3>3. OpenInv'
        BY <3>1, <3>2
      <3>4. QuietInv'
        BY <3>1, <3>2, <2>2
      <3>5. WithdrawnInv'
        BY <3>1
      <3>6. AdvertInv'
        BY <3>1
      <3> QED
        BY <3>3, <3>4, <3>5, <3>6
    <2> QED
      BY <2>1, <2>2
  <1>28. ASSUME NEW c \in Contexts, StopTest(c)
         PROVE  ExitInv'
    BY <1>28 DEF StopTest
  <1>29. ASSUME NEW c \in Contexts, StopRequest(c)
         PROVE  ExitInv'
    BY <1>29 DEF StopRequest
  <1>30. ASSUME NEW c \in Contexts, StopWait(c)
         PROVE  ExitInv'
    BY <1>30 DEF StopWait
  <1>31. ASSUME NEW c \in Contexts, StopClose(c)
         PROVE  ExitInv'
    <2>1. /\ pc[c] = "close"
          /\ pc' = [pc EXCEPT ![c] = CASE c = Main -> "qexit" [] c = Watch -> "gone"
                                        [] OTHER -> "done"]
          /\ sock' = [sock EXCEPT ![srv[c]] = "closed"]
          /\ UNCHANGED <<server, serving, srv, shutReq, isShut, bootVars, kill>>
      BY <1>31 DEF StopClose, Return
    <2>2. \A x \in Contexts : (Holding(x) => x = c) /\ ~Holding(x)'
      BY <2>1
    <2>3. OpenInv'
      BY <2>1, <2>2
    <2>4. WithdrawnInv' /\ AdvertInv'
      BY <2>1
    <2>5. QuietInv'
      BY <2>1, <2>2
    <2> QED
      BY <2>3, <2>4, <2>5
  <1>32. ASSUME NEW s \in Signals, Interrupt(s)
         PROVE  ExitInv'
    BY <1>32 DEF Interrupt
  <1>33. ASSUME NEW s \in Signals, SignalHandler(s)
         PROVE  ExitInv'
    BY <1>33 DEF SignalHandler
  <1>34. CASE UNCHANGED vars
    BY <1>34 DEF vars
  <1> QED
    BY <1>1, <1>2, <1>3, <1>4, <1>5, <1>6, <1>7, <1>8, <1>9, <1>10, <1>11, <1>12, <1>13, <1>14, <1>15, <1>16, <1>17, <1>18, <1>19, <1>20, <1>21, <1>22, <1>23, <1>24, <1>25, <1>26, <1>27, <1>28, <1>29, <1>30, <1>31, <1>32, <1>33, <1>34
    DEF Next, MainStep, WatchStep, SignalStep, Environment, Bootstrap, Serve, Teardown, Stop

\* Both invariants hold when the process starts.
LEMMA Initially ==
  ASSUME Init
  PROVE  IInv /\ ExitInv
  <1> USE ContextsDistinct DEF Init, Instances, None
  <1>1. TypeOK
    <2>1. /\ pc \in [Contexts -> {"bind", "off", "idle"}]
          /\ pc[Main] = "bind" /\ pc[Watch] = "off" /\ \A s \in Signals : pc[s] = "idle"
      OBVIOUS
    <2>2. /\ running \in OnMain /\ under \in [Signals -> OnMain]
          /\ lock \in Contexts \cup {Free}
      BY DEF OnMain
    <2>3. /\ shutReq \in [Instances -> BOOLEAN]
          /\ isShut \in [Instances -> BOOLEAN]
          /\ sock \in [Instances -> {"none", "open", "closed"}]
          /\ srv \in [Contexts -> Instances \cup {None}]
      OBVIOUS
    <2>4. serving \in BOOLEAN /\ event \in BOOLEAN /\ kill \in BOOLEAN /\ hooks \in BOOLEAN
      OBVIOUS
    <2> QED
      BY <2>1, <2>2, <2>3, <2>4 DEF TypeOK, MainPcs, SignalPcs, WatchPcs
  <1>2. pc[Main] = "bind" /\ \A c \in Contexts : ~Holding(c) /\ pc[c] \notin StopPcs
    BY DEF Holding, StopPcs
  <1>3. LockInv /\ HeldInv /\ ServerOpen /\ LoopInv
    BY <1>2 DEF LockInv, HeldInv, ServerOpen, LoopInv, Entered
  <1>4. PhaseInv
    BY <1>2 DEF PhaseInv, BeforeWatch, BeforeServe, BeforeLeft, Served
  <1>5. ExitInv
    BY <1>2 DEF ExitInv, OpenInv, QuietInv, WithdrawnInv, AdvertInv, StopPcs
  <1> QED
    BY <1>1, <1>3, <1>4, <1>5 DEF IInv

\* Both invariants hold in every reachable state.
THEOREM Invariance == Spec => [](IInv /\ ExitInv)
  <1>1. Init => IInv /\ ExitInv
    BY Initially
  <1>2. IInv /\ ExitInv /\ [Next]_vars => (IInv /\ ExitInv)'
    BY InvStep, ExitStep
  <1> QED
    BY <1>1, <1>2, PTL DEF Spec

-----------------------------------------------------------------------------
(* The theorems.                                                           *)

\* Every variable keeps its type, for any set of signals.
THEOREM TypeCorrect == Spec => []TypeOK
  <1>1. IInv => TypeOK
    BY DEF IInv
  <1> QED
    BY <1>1, Invariance, PTL

\* Server.stop never closes a socket twice: a caller past the test on _server
\* holds an open one, however many handlers and threads call stop.
THEOREM SingleClose == Spec => []HeldSocketOpen
  <1>1. IInv => HeldSocketOpen
    BY DEF IInv, HeldInv, Holding, HeldSocketOpen, Instances, None
  <1> QED
    BY <1>1, Invariance, PTL

\* Server.stop never closes the socket under the running serve loop.
THEOREM LoopSocketOpen == Spec => []ServingSocketOpen
  <1>1. IInv => ServingSocketOpen
    BY DEF IInv, LoopInv, Entered, LoopPcs, ServingSocketOpen,
           Instances, None
  <1> QED
    BY <1>1, Invariance, PTL

\* Until a shutdown is asked for, the advertised port is listened on.
THEOREM AdvertisedPort == Spec => []AdvertisedPortOpen
  <1>1. ExitInv => AdvertisedPortOpen
    BY DEF ExitInv, AdvertInv, AdvertisedPortOpen
  <1> QED
    BY <1>1, Invariance, PTL

\* A process that reaches the end of qexit has withdrawn its sidecar and closed
\* every socket it opened.
THEOREM CleanExit == Spec => []ExitLeavesNothing
  <1>1. IInv /\ ExitInv => ExitLeavesNothing
    BY DEF IInv, ExitInv, OpenInv, QuietInv, WithdrawnInv, Advertising, TypeOK,
           ExitLeavesNothing, Instances, None
  <1> QED
    BY <1>1, Invariance, PTL
=============================================================================
