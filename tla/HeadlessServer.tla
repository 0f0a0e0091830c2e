--------------------------- MODULE HeadlessServer ---------------------------
(***************************************************************************)
(* One headless IDA process: plugin/headless_bootstrap.py driving the      *)
(* HTTP server of plugin/http_server.py.                                   *)
(*                                                                         *)
(* Three kinds of context run Server.stop and meet on its lock:            *)
(*   Main     the IDA main thread (bootstrap, serve loop, finally, atexit) *)
(*   Watch    the daemon thread that polls the kill-switch file            *)
(*   Signals  one context per delivered signal; CPython runs a Python      *)
(*            signal handler on the main thread, on top of whatever that   *)
(*            thread is doing, so Main is suspended until it returns.      *)
(*                                                                         *)
(* A server instance is one _RPCHTTPServer: the first bind makes instance  *)
(* 1, a bind after a stop makes instance 2 (there is no third call).       *)
(***************************************************************************)
EXTENDS Integers

CONSTANT Signals            \* signals delivered to the process; {} on Windows

Main  == "main"
Watch == "watch"
Free  == "free"              \* no holder of the lock

ASSUME SignalsAssumption == Signals \cap {Main, Watch, Free} = {}

OnMain    == {Main} \cup Signals         \* contexts that share the main thread
Contexts  == OnMain \cup {Watch}
Instances == 1..2
None      == 0

VARIABLES
  pc,         \* context -> where it is
  running,    \* the context that has the main thread
  under,      \* signal -> the context its handler interrupted
  lock,       \* Server._stop_lock: the holder, or Free
  server,     \* Server._server: an instance or None
  serving,    \* Server._serving
  srv,        \* context -> its local reference to an instance
  sock,       \* instance -> listening socket: "none", "open", "closed"
  shutReq,    \* instance -> BaseServer.__shutdown_request
  isShut,     \* instance -> BaseServer.__is_shut_down is set
  event,      \* the shutdown threading.Event
  kill,       \* the kill-switch file exists
  sidecar,    \* the instance whose port the sidecar advertises, or None
  hooks,      \* the IDB hooks are installed
  atexit,     \* "none", "registered", "ran"
  code        \* status qexit is called with

serverVars == <<lock, server, serving, srv, sock, shutReq, isShut>>
bootVars   == <<event, sidecar, hooks, atexit, code>>
stackVars  == <<running, under>>
vars       == <<pc, running, under, lock, server, serving, srv, sock, shutReq,
                isShut, event, kill, sidecar, hooks, atexit, code>>

StopPcs == {"stop", "test", "shutdown", "wait", "close"}
MainPcs == StopPcs \cup
  {"bind", "hooks", "publish", "signals", "watcher", "atexit", "serve", "check",
   "serving", "load", "enter", "loop", "handle", "left", "unserve",
   "killclean", "remove", "unhook", "qexit", "exited", "killed", "escaped"}
SignalPcs == StopPcs \cup {"idle", "handler", "done"}
WatchPcs  == StopPcs \cup {"off", "poll", "look", "gone"}

LoopPcs == {"loop", "handle"}                       \* inside serve_forever
Gone    == pc[Main] \in {"exited", "killed", "escaped"}

TypeOK ==
  /\ pc \in [Contexts -> MainPcs \cup SignalPcs \cup WatchPcs]
  /\ pc[Main] \in MainPcs
  /\ pc[Watch] \in WatchPcs
  /\ \A s \in Signals : pc[s] \in SignalPcs
  /\ running \in OnMain
  /\ under \in [Signals -> OnMain]
  /\ lock \in Contexts \cup {Free}
  /\ server \in Instances \cup {None}
  /\ serving \in BOOLEAN
  /\ srv \in [Contexts -> Instances \cup {None}]
  /\ sock \in [Instances -> {"none", "open", "closed"}]
  /\ shutReq \in [Instances -> BOOLEAN]
  /\ isShut \in [Instances -> BOOLEAN]
  /\ event \in BOOLEAN
  /\ kill \in BOOLEAN
  /\ sidecar \in Instances \cup {None}
  /\ hooks \in BOOLEAN
  /\ atexit \in {"none", "registered", "ran"}
  /\ code \in 0..1

Init ==
  /\ pc = [c \in Contexts |-> IF c = Main THEN "bind"
                              ELSE IF c = Watch THEN "off" ELSE "idle"]
  /\ running = Main
  /\ under = [s \in Signals |-> Main]
  /\ lock = Free
  /\ server = None
  /\ serving = FALSE
  /\ srv = [c \in Contexts |-> None]
  /\ sock = [i \in Instances |-> "none"]
  /\ shutReq = [i \in Instances |-> FALSE]
  /\ isShut = [i \in Instances |-> FALSE]
  /\ event = FALSE
  /\ kill \in BOOLEAN             \* a file left by a closer that died is not cleared
  /\ sidecar = None
  /\ hooks = FALSE
  /\ atexit = "none"
  /\ code = 0

\* The context has its thread and the process is there.
CanRun(c) == ~Gone /\ (c = Watch \/ running = c)

At(c, p)   == CanRun(c) /\ pc[c] = p
Goto(c, p) == pc' = [pc EXCEPT ![c] = p]

-----------------------------------------------------------------------------
(* Bootstrap, on the main thread.                                          *)

\* Server.bind when _server is None: a fresh instance with an open socket.
NewInstance == IF sock[1] = "none" THEN 1 ELSE 2

BindServer ==
  /\ server' = NewInstance
  /\ sock' = [sock EXCEPT ![NewInstance] = "open"]

Bind ==                                                     \* _bind_server
  /\ At(Main, "bind")
  /\ \/ /\ BindServer
        /\ Goto(Main, "hooks")
        /\ UNCHANGED code
     \/ /\ code' = 1                                        \* _abort(None, ...)
        /\ Goto(Main, "qexit")
        /\ UNCHANGED <<server, sock>>
  /\ UNCHANGED <<stackVars, lock, serving, srv, shutReq, isShut, event, kill,
                 sidecar, hooks, atexit>>

InstallHooks ==                            \* a failure is logged, no more
  /\ At(Main, "hooks")
  /\ hooks' \in BOOLEAN
  /\ Goto(Main, "publish")
  /\ UNCHANGED <<stackVars, serverVars, event, kill, sidecar, atexit, code>>

\* Build the session info and write the sidecar, or _abort(server, ...).
PublishSidecar ==
  /\ At(Main, "publish")
  /\ \/ sidecar' = server /\ Goto(Main, "signals") /\ UNCHANGED code
     \/ code' = 1 /\ Goto(Main, "stop") /\ UNCHANGED sidecar
  /\ UNCHANGED <<stackVars, serverVars, event, kill, hooks, atexit>>

InstallSignalHandlers ==
  /\ At(Main, "signals")
  /\ Goto(Main, "watcher")
  /\ UNCHANGED <<stackVars, serverVars, bootVars, kill>>

\* The kill directory or the thread may fail to be made: nothing catches that.
InstallKillSwitchWatcher ==
  /\ At(Main, "watcher")
  /\ \/ pc' = [pc EXCEPT ![Main] = "atexit", ![Watch] = "poll"]
     \/ Goto(Main, "escaped")
  /\ UNCHANGED <<stackVars, serverVars, bootVars, kill>>

RegisterAtexit ==
  /\ At(Main, "atexit")
  /\ atexit' = "registered"
  /\ Goto(Main, "serve")
  /\ UNCHANGED <<stackVars, serverVars, event, kill, sidecar, hooks, code>>

-----------------------------------------------------------------------------
(* Server.serve_in_current_thread, on the main thread.                     *)

\* Mutated: binds even though a server is there.
ServeBindAlways ==
  /\ At(Main, "serve")
  /\ BindServer
  /\ Goto(Main, "check")
  /\ UNCHANGED <<stackVars, lock, serving, srv, shutReq, isShut, bootVars, kill>>

\* self.bind(): nothing when bound, otherwise a new instance (or OSError).
ServeBind ==
  /\ At(Main, "serve")
  /\ \/ /\ server # None
        /\ Goto(Main, "check")
        /\ UNCHANGED <<server, sock>>
     \/ /\ server = None
        /\ BindServer
        /\ Goto(Main, "check")
     \/ /\ server = None
        /\ Goto(Main, "killclean")
        /\ UNCHANGED <<server, sock>>
  /\ UNCHANGED <<stackVars, lock, serving, srv, shutReq, isShut, bootVars, kill>>

ServeCheck ==                              \* None here: RuntimeError, to finally
  /\ At(Main, "check")
  /\ Goto(Main, IF server = None THEN "killclean" ELSE "serving")
  /\ UNCHANGED <<stackVars, serverVars, bootVars, kill>>

SetServing ==
  /\ At(Main, "serving")
  /\ serving' = TRUE
  /\ Goto(Main, "load")
  /\ UNCHANGED <<stackVars, lock, server, srv, sock, shutReq, isShut, bootVars, kill>>

\* self._server.serve_forever: None is an AttributeError, logged and swallowed.
LoadServer ==
  /\ At(Main, "load")
  /\ srv' = [srv EXCEPT ![Main] = server]
  /\ Goto(Main, IF server = None THEN "unserve" ELSE "enter")
  /\ UNCHANGED <<stackVars, lock, server, serving, sock, shutReq, isShut,
                 bootVars, kill>>

EnterServeForever ==
  /\ At(Main, "enter")
  /\ isShut' = [isShut EXCEPT ![srv[Main]] = FALSE]
  /\ Goto(Main, "loop")
  /\ UNCHANGED <<stackVars, lock, server, serving, srv, sock, shutReq, bootVars, kill>>

StartRequest ==
  /\ At(Main, "loop")
  /\ ~shutReq[srv[Main]]
  /\ Goto(Main, "handle")
  /\ UNCHANGED <<stackVars, serverVars, bootVars, kill>>

FinishRequest ==
  /\ At(Main, "handle")
  /\ Goto(Main, "loop")
  /\ UNCHANGED <<stackVars, serverVars, bootVars, kill>>

LeaveOnRequest ==                          \* the poll sees __shutdown_request
  /\ At(Main, "loop")
  /\ shutReq[srv[Main]]
  /\ Goto(Main, "left")
  /\ UNCHANGED <<stackVars, serverVars, bootVars, kill>>

LoopCrash ==                               \* serve_forever raises
  /\ At(Main, "loop")
  /\ Goto(Main, "left")
  /\ UNCHANGED <<stackVars, serverVars, bootVars, kill>>

LeaveServeForever ==                       \* serve_forever's own finally
  /\ At(Main, "left")
  /\ shutReq' = [shutReq EXCEPT ![srv[Main]] = FALSE]
  /\ isShut' = [isShut EXCEPT ![srv[Main]] = TRUE]
  /\ Goto(Main, "unserve")
  /\ UNCHANGED <<stackVars, lock, server, serving, srv, sock, bootVars, kill>>

ClearServing ==
  /\ At(Main, "unserve")
  /\ serving' = FALSE
  /\ Goto(Main, "killclean")
  /\ UNCHANGED <<stackVars, lock, server, srv, sock, shutReq, isShut, bootVars, kill>>

-----------------------------------------------------------------------------
(* main()'s finally, _cleanup and the exit.                                *)

\* Mutated: the server is stopped before the sidecar is removed.
CleanupStopsFirst ==
  /\ At(Main, "killclean")
  /\ kill' = FALSE
  /\ Goto(Main, "stop")
  /\ UNCHANGED <<stackVars, serverVars, bootVars>>

CleanupKillSwitch ==
  /\ At(Main, "killclean")
  /\ kill' = FALSE
  /\ Goto(Main, "remove")
  /\ UNCHANGED <<stackVars, serverVars, bootVars>>

RemoveSidecar ==
  /\ At(Main, "remove")
  /\ sidecar' = None
  /\ Goto(Main, "unhook")
  /\ UNCHANGED <<stackVars, serverVars, event, kill, hooks, atexit, code>>

UninstallHooks ==
  /\ At(Main, "unhook")
  /\ hooks' = FALSE
  /\ Goto(Main, "stop")
  /\ UNCHANGED <<stackVars, serverVars, event, kill, sidecar, atexit, code>>

\* qexit runs the registered _cleanup once more, then the process is gone.
Qexit ==
  /\ At(Main, "qexit")
  /\ \/ atexit = "registered" /\ atexit' = "ran" /\ Goto(Main, "remove")
     \/ atexit # "registered" /\ Goto(Main, "exited") /\ UNCHANGED atexit
  /\ UNCHANGED <<stackVars, serverVars, event, kill, sidecar, hooks, code>>

-----------------------------------------------------------------------------
(* Server.stop, by any context.                                            *)

\* Mutated: a return leaves the main thread to whoever returned.
ReturnKeepsThread(c) ==
  /\ Goto(c, CASE c = Main -> "qexit" [] c = Watch -> "gone" [] OTHER -> "done")
  /\ running' = IF c \in Signals THEN under[c] ELSE c
  /\ UNCHANGED under

\* Where the caller of stop continues; a handler hands the thread back.
Return(c) ==
  /\ Goto(c, CASE c = Main -> "qexit" [] c = Watch -> "gone" [] OTHER -> "done")
  /\ running' = IF c \in Signals THEN under[c] ELSE running
  /\ UNCHANGED under

\* Mutated: _server is not reset to None.
StopTakeNoReset(c) ==
  /\ At(c, "stop")
  /\ lock = Free
  /\ server # None
  /\ lock' = c
  /\ srv' = [srv EXCEPT ![c] = server]
  /\ Goto(c, "test")
  /\ UNCHANGED <<stackVars, server, serving, sock, shutReq, isShut, bootVars, kill>>

\* Take the lock and the server; a caller that finds None leaves at once.
StopTake(c) ==
  /\ At(c, "stop")
  /\ lock = Free
  /\ \/ /\ server # None
        /\ lock' = c
        /\ srv' = [srv EXCEPT ![c] = server]
        /\ server' = None
        /\ Goto(c, "test")
        /\ UNCHANGED stackVars
     \/ /\ server = None
        /\ Return(c)
        /\ UNCHANGED <<lock, srv, server>>
  /\ UNCHANGED <<serving, sock, shutReq, isShut, bootVars, kill>>

\* Mutated: closes the socket without shutting the loop down.
StopTestCloses(c) ==
  /\ At(c, "test")
  /\ Goto(c, "close")
  /\ UNCHANGED <<stackVars, serverVars, bootVars, kill>>

StopTest(c) ==
  /\ At(c, "test")
  /\ Goto(c, IF serving THEN "shutdown" ELSE "close")
  /\ UNCHANGED <<stackVars, serverVars, bootVars, kill>>

\* Mutated: waits for the loop without asking it to end.
StopRequestForgotten(c) ==
  /\ At(c, "shutdown")
  /\ Goto(c, "wait")
  /\ UNCHANGED <<stackVars, serverVars, bootVars, kill>>

StopRequest(c) ==                          \* BaseServer.shutdown, first half
  /\ At(c, "shutdown")
  /\ shutReq' = [shutReq EXCEPT ![srv[c]] = TRUE]
  /\ Goto(c, "wait")
  /\ UNCHANGED <<stackVars, lock, server, serving, srv, sock, isShut, bootVars, kill>>

StopWait(c) ==                             \* ... and its wait for the loop to end
  /\ At(c, "wait")
  /\ isShut[srv[c]]
  /\ Goto(c, "close")
  /\ UNCHANGED <<stackVars, serverVars, bootVars, kill>>

StopClose(c) ==                            \* server_close, release the lock
  /\ At(c, "close")
  /\ sock' = [sock EXCEPT ![srv[c]] = "closed"]
  /\ lock' = Free
  /\ Return(c)
  /\ UNCHANGED <<server, serving, srv, shutReq, isShut, bootVars, kill>>

Stop(c) == StopTake(c) \/ StopTest(c) \/ StopRequest(c) \/ StopWait(c) \/ StopClose(c)

-----------------------------------------------------------------------------
(* The two wake-up sources, and the rest of the world.                     *)

WatchTest ==                               \* while not event.is_set()
  /\ At(Watch, "poll")
  /\ Goto(Watch, IF event THEN "gone" ELSE "look")
  /\ UNCHANGED <<stackVars, serverVars, bootVars, kill>>

WatchLook ==                               \* target.exists(), or wait a second
  /\ At(Watch, "look")
  /\ event' = (event \/ kill)
  /\ Goto(Watch, IF kill THEN "stop" ELSE "poll")
  /\ UNCHANGED <<stackVars, serverVars, kill, sidecar, hooks, atexit, code>>

HandlersInstalled ==
  pc[Main] \notin {"bind", "hooks", "publish", "signals"} /\ ~(code = 1)

Interrupt(s) ==                            \* the handler starts on the main thread
  /\ ~Gone /\ HandlersInstalled
  /\ pc[s] = "idle"
  /\ under' = [under EXCEPT ![s] = running]
  /\ running' = s
  /\ Goto(s, "handler")
  /\ UNCHANGED <<serverVars, bootVars, kill>>

SignalHandler(s) ==
  /\ At(s, "handler")
  /\ event' = TRUE
  /\ Goto(s, "stop")
  /\ UNCHANGED <<stackVars, serverVars, kill, sidecar, hooks, atexit, code>>

RequestShutdown ==                         \* a closer touches the kill switch
  /\ kill' = TRUE
  /\ UNCHANGED <<pc, stackVars, serverVars, bootVars>>

CloserCleanup ==                           \* a closer removes it again
  /\ kill' = FALSE
  /\ UNCHANGED <<pc, stackVars, serverVars, bootVars>>

HardKill ==                                \* SIGKILL / TerminateProcess, or a crash
  /\ ~(pc[Main] \in {"exited", "killed"})
  /\ Goto(Main, "killed")
  /\ UNCHANGED <<stackVars, serverVars, bootVars, kill>>

-----------------------------------------------------------------------------
Bootstrap == \/ Bind \/ InstallHooks \/ PublishSidecar \/ InstallSignalHandlers
             \/ InstallKillSwitchWatcher \/ RegisterAtexit
Serve     == \/ ServeBind \/ ServeCheck \/ SetServing \/ LoadServer
             \/ EnterServeForever \/ FinishRequest \/ LeaveOnRequest
             \/ LeaveServeForever \/ ClearServing
Teardown  == CleanupKillSwitch \/ RemoveSidecar \/ UninstallHooks \/ Qexit

MainStep     == Bootstrap \/ Serve \/ Teardown \/ Stop(Main)
WatchStep    == WatchTest \/ WatchLook \/ Stop(Watch)
SignalStep(s) == SignalHandler(s) \/ Stop(s)
Environment  == StartRequest \/ LoopCrash \/ RequestShutdown \/ CloserCleanup \/ HardKill

Next ==
  \/ MainStep
  \/ WatchStep
  \/ \E s \in Signals : Interrupt(s) \/ SignalStep(s)
  \/ Environment

Fairness ==
  /\ WF_vars(MainStep)
  /\ WF_vars(WatchStep)
  /\ \A s \in Signals : WF_vars(SignalStep(s))

Spec     == Init /\ [][Next]_vars
FairSpec == Spec /\ Fairness

-----------------------------------------------------------------------------
(* Safety.                                                                 *)

\* No double server_close: whoever is past the test on _server holds a socket
\* that is still open, however the watcher, the handlers and the main thread's
\* teardown race through Server.stop (http_server.py, _stop_lock).
HeldSocketOpen ==
  \A c \in Contexts :
    pc[c] \in {"test", "shutdown", "wait", "close"}
      => srv[c] # None /\ sock[srv[c]] = "open"

\* The socket is never closed under a running serve loop: a stop that began before
\* the loop did waits for it, or has closed a socket the loop is not using.
ServingSocketOpen ==
  pc[Main] \in LoopPcs
    => srv[Main] # None /\ sock[srv[Main]] = "open"

\* Until a shutdown is asked for, the port in the sidecar is a port somebody
\* listens on: published after the bind, withdrawn before the close.
AdvertisedPortOpen ==
  sidecar # None /\ ~event /\ ~Gone => sock[sidecar] = "open"

\* A process that ends through qexit leaves no sidecar and no listening socket,
\* whichever path led there; qexit(0) also means the hooks were uninstalled.
ExitLeavesNothing ==
  pc[Main] = "exited" =>
    /\ sidecar = None
    /\ \A i \in Instances : sock[i] # "open"
    /\ code = 0 => ~hooks

(* Liveness, and what the source says that its code does not do.           *)

\* The kill switch works while the loop runs: once the watcher has begun its
\* stop with the main thread in serve_forever, the process ends, unless a signal
\* handler got in (see SignalStopSafe).
KillSwitchStopsLoop ==
  (pc[Watch] = "stop" /\ pc[Main] \in LoopPcs)
    ~> (Gone \/ \E s \in Signals : pc[s] # "idle")

\* headless_bootstrap.py on the signal handlers: "Calling ``stop`` from a signal
\* handler is safe". A handler that waits for the serve loop it has itself
\* suspended would never return.
SignalStopSafe ==
  \A s \in Signals :
    ~(pc[s] = "wait" /\ ~isShut[srv[s]] /\ pc[Main] \in LoopPcs /\ ~Gone)

\* http_server.py on stop: shutdown is only called when _serving is set, because
\* before the loop ever started it would deadlock. Whoever waits in shutdown has
\* a loop that is running, is about to be entered, or has ended.
ShutdownHasLoop ==
  \A c \in Contexts :
    pc[c] = "wait" /\ ~Gone =>
      isShut[srv[c]] \/ (pc[Main] \in {"enter", "loop", "handle", "left"} /\ srv[Main] = srv[c])
=============================================================================
