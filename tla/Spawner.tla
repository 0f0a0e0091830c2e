------------------------------ MODULE Spawner ------------------------------
(***************************************************************************)
(* The life of one session id: Spawner.open and Spawner.close of           *)
(* spawner/core.py, called by threads of several proxy and CLI processes,  *)
(* with the IDA processes they spawn, the sidecar and the kill switch.     *)
(* All of this state is keyed by the session id, so one id is followed.    *)
(*                                                                         *)
(* A file operation of session.py is one step here (SessionStore has their *)
(* interleavings), and an IDA process is reduced to what its spawner can   *)
(* see of it (HeadlessServer has the inside).                              *)
(***************************************************************************)
EXTENDS FiniteSets

CONSTANTS
  Openers,      \* threads that call open once
  Closers,      \* threads that call close once
  HostOf,       \* thread -> the proxy or CLI process it runs in
  Idas,         \* IDA processes; pids are not reused
  Platforms,    \* subset of {"posix", "windows"}
  None

Threads == Openers \cup Closers
Hosts   == {HostOf[t] : t \in Threads}

ASSUME SpawnerAssumption ==
  /\ Openers \cap Closers = {}
  /\ None \notin Idas \cup Hosts \cup Threads
  /\ Platforms \subseteq {"posix", "windows"}

VARIABLES
  platform,
  ida,        \* IDA process -> state, see IdaStates
  parent,     \* IDA process -> the host that spawned it
  up,         \* host -> it is running
  sidecar,    \* the process the sidecar describes, or None
  kill,       \* the kill-switch file exists
  lock,       \* host -> holder of the per-session-id spawn lock, or None
  handles,    \* host -> set of <<pid, process>>: Spawner._handles
  pc,         \* thread -> where it is
  child,      \* opener -> the Popen it made, or None
  target,     \* thread -> the SessionInfo it got hold of, or None
  outcome     \* thread -> how the call ended

idaVars  == <<ida, parent>>
hostVars == <<platform, up>>
callVars == <<child, target, outcome>>
vars     == <<platform, ida, parent, up, sidecar, kill, lock, handles, pc, child,
              target, outcome>>

IdaStates ==
  {"unused", "booting",  \* before session.write
   "published",          \* sidecar written, shutdown hooks not yet in place
   "serving",
   "draining",           \* the watcher has asked the serve loop to end
   "stopping",           \* main()'s finally: kill switch first,
   "withdrawing",        \* then the sidecar,
   "exiting",            \* then qexit
   "wedged",             \* deaf to kill switch and signals, sidecar in place
   "stuck",              \* blocked on the stop lock, sidecar withdrawn
   "zombie", "gone"}

OpenerPcs == {"idle", "lock", "get", "spawn", "await", "reap", "record", "done", "dead"}
CloserPcs == {"idle", "get", "touch", "sigterm", "poll", "kclean", "hardkill",
              "remove", "reap", "done", "dead"}
Outcomes  == {"none", "opened", "reused", "refused", "failed", "closed", "forced",
              "notfound"}

TypeOK ==
  /\ platform \in Platforms
  /\ ida \in [Idas -> IdaStates]
  /\ parent \in [Idas -> Hosts \cup {None}]
  /\ up \in [Hosts -> BOOLEAN]
  /\ sidecar \in Idas \cup {None}
  /\ kill \in BOOLEAN
  /\ lock \in [Hosts -> Openers \cup {None}]
  /\ handles \in [Hosts -> SUBSET (Idas \X Idas)]
  /\ pc \in [Threads -> OpenerPcs \cup CloserPcs]
  /\ \A t \in Openers : pc[t] \in OpenerPcs
  /\ \A c \in Closers : pc[c] \in CloserPcs
  /\ child \in [Openers -> Idas \cup {None}]
  /\ target \in [Threads -> Idas \cup {None}]
  /\ outcome \in [Threads -> Outcomes]

Init ==
  /\ platform \in Platforms
  /\ ida = [p \in Idas |-> "unused"]
  /\ parent = [p \in Idas |-> None]
  /\ up = [h \in Hosts |-> TRUE]
  /\ sidecar = None
  /\ kill = FALSE
  /\ lock = [h \in Hosts |-> None]
  /\ handles = [h \in Hosts |-> {}]
  /\ pc = [t \in Threads |-> "idle"]
  /\ child = [t \in Openers |-> None]
  /\ target = [t \in Threads |-> None]
  /\ outcome = [t \in Threads |-> "none"]

At(t, p)   == up[HostOf[t]] /\ pc[t] = p
Goto(t, p) == pc' = [pc EXCEPT ![t] = p]

-----------------------------------------------------------------------------
(* What a step on an IDA process can do.                                   *)

\* is_pid_alive says yes to a zombie.
IsPidAlive(p) == ida[p] \notin {"unused", "gone"}
IsRunning(p)  == ida[p] \notin {"unused", "zombie", "gone"}

\* A dead child stays a zombie while its parent runs and has not waited for it;
\* Windows has no zombies.
Dead(p) == IF platform = "posix" /\ up[parent[p]] THEN "zombie" ELSE "gone"

\* session.get: a sidecar whose pid is not alive is removed and answers None.
SessionGet == IF sidecar # None /\ IsPidAlive(sidecar) THEN sidecar ELSE None
CollectSidecar == sidecar' = SessionGet

-----------------------------------------------------------------------------
(* Spawner.open.                                                           *)

OpenCall(t) ==
  /\ At(t, "idle")
  /\ Goto(t, "lock")
  /\ UNCHANGED <<hostVars, idaVars, sidecar, kill, lock, handles, callVars>>

\* Mutated: open goes ahead without waiting for the lock.
OpenNoLock(t) ==
  /\ At(t, "lock")
  /\ lock' = [lock EXCEPT ![HostOf[t]] = t]
  /\ Goto(t, "get")
  /\ UNCHANGED <<hostVars, idaVars, sidecar, kill, handles, callVars>>

OpenLock(t) ==
  /\ At(t, "lock")
  /\ lock[HostOf[t]] = None
  /\ lock' = [lock EXCEPT ![HostOf[t]] = t]
  /\ Goto(t, "get")
  /\ UNCHANGED <<hostVars, idaVars, sidecar, kill, handles, callVars>>

OpenDone(t, how) ==
  /\ outcome' = [outcome EXCEPT ![t] = how]
  /\ lock' = [lock EXCEPT ![HostOf[t]] = None]
  /\ Goto(t, "done")

\* Mutated: the lock covers the check and not the spawn.
OpenGetReleases(t) ==
  /\ At(t, "get")
  /\ CollectSidecar
  /\ lock' = [lock EXCEPT ![HostOf[t]] = None]
  /\ \/ /\ SessionGet # None
        /\ target' = [target EXCEPT ![t] = SessionGet]
        /\ outcome' = [outcome EXCEPT ![t] = "reused"]
        /\ Goto(t, "done")
     \/ /\ SessionGet = None
        /\ Goto(t, "spawn")
        /\ UNCHANGED <<target, outcome>>
  /\ UNCHANGED <<hostVars, idaVars, kill, handles, child>>

\* Reuse a live session, refuse a fresh analysis of one, or go on to spawn.
OpenGet(t) ==
  /\ At(t, "get")
  /\ CollectSidecar
  /\ \/ /\ SessionGet # None
        /\ target' = [target EXCEPT ![t] = SessionGet]
        /\ \E fresh \in BOOLEAN : OpenDone(t, IF fresh THEN "refused" ELSE "reused")
     \/ /\ SessionGet = None
        /\ Goto(t, "spawn")
        /\ UNCHANGED <<target, outcome, lock>>
  /\ UNCHANGED <<hostVars, idaVars, kill, handles, child>>

\* Delete the IDB artefacts if fresh, locate idat, Popen: any of these may raise.
OpenSpawn(t) ==
  /\ At(t, "spawn")
  /\ \/ \E p \in Idas :
          /\ ida[p] = "unused"
          /\ ida' = [ida EXCEPT ![p] = "booting"]
          /\ parent' = [parent EXCEPT ![p] = HostOf[t]]
          /\ child' = [child EXCEPT ![t] = p]
          /\ Goto(t, "await")
          /\ UNCHANGED <<lock, outcome>>
     \/ OpenDone(t, "failed") /\ UNCHANGED <<idaVars, child>>
  /\ UNCHANGED <<hostVars, sidecar, kill, handles, target>>

\* Mutated: a child that exits early ends the wait without an exception.
OpenAwaitReturnsNone(t) ==
  /\ At(t, "await")
  /\ \/ SessionGet # None
     \/ ~IsRunning(child[t])
  /\ target' = [target EXCEPT ![t] = SessionGet]
  /\ CollectSidecar
  /\ Goto(t, "record")
  /\ UNCHANGED <<hostVars, idaVars, kill, lock, handles, child, outcome>>

\* One round of _await_sidecar that ends it: the deadline, which may have passed at
\* any round (it runs from the call, and waiting for the lock counts), a sidecar
\* (anybody's), or a child that exited, which the poll also reaps.
OpenAwait(t) ==
  /\ At(t, "await")
  /\ \/ /\ Goto(t, "reap")
        /\ UNCHANGED <<ida, sidecar, target>>
     \/ /\ SessionGet # None
        /\ target' = [target EXCEPT ![t] = SessionGet]
        /\ Goto(t, "record")
        /\ UNCHANGED <<ida, sidecar>>
     \/ /\ SessionGet = None
        /\ CollectSidecar
        /\ ~IsRunning(child[t])
        /\ ida' = [ida EXCEPT ![child[t]] = "gone"]
        /\ Goto(t, "reap")
        /\ UNCHANGED target
  /\ UNCHANGED <<hostVars, parent, kill, lock, handles, child, outcome>>

\* Mutated: the failure path forgets the child.
OpenReapNothing(t) ==
  /\ At(t, "reap")
  /\ OpenDone(t, "failed")
  /\ UNCHANGED <<hostVars, idaVars, sidecar, kill, handles, child, target>>

OpenReap(t) ==                             \* _best_effort_reap: kill and wait
  /\ At(t, "reap")
  /\ ida' = [ida EXCEPT ![child[t]] = "gone"]
  /\ OpenDone(t, "failed")
  /\ UNCHANGED <<hostVars, parent, sidecar, kill, handles, child, target>>

\* self._handles[info.pid] = proc: the pid of the sidecar, the Popen of the child.
OpenRecord(t) ==
  /\ At(t, "record")
  /\ handles' = [handles EXCEPT ![HostOf[t]] =
                   {h \in @ : h[1] # target[t]} \cup {<<target[t], child[t]>>}]
  /\ OpenDone(t, "opened")
  /\ UNCHANGED <<hostVars, idaVars, sidecar, kill, child, target>>

Open(t) == \/ OpenLock(t) \/ OpenGet(t) \/ OpenSpawn(t) \/ OpenAwait(t)
           \/ OpenReap(t) \/ OpenRecord(t)

-----------------------------------------------------------------------------
(* Spawner.close.                                                          *)

CloseCall(c) ==
  /\ At(c, "idle")
  /\ Goto(c, "get")
  /\ UNCHANGED <<hostVars, idaVars, sidecar, kill, lock, handles, callVars>>

CloseDone(c, how) ==
  /\ outcome' = [outcome EXCEPT ![c] = how]
  /\ Goto(c, "done")

CloseGet(c) ==
  /\ At(c, "get")
  /\ CollectSidecar
  /\ target' = [target EXCEPT ![c] = SessionGet]
  /\ IF SessionGet = None THEN CloseDone(c, "notfound")
                          ELSE Goto(c, "touch") /\ UNCHANGED outcome
  /\ UNCHANGED <<hostVars, idaVars, kill, lock, handles, child>>

\* kill_switch.request_shutdown never raises: the file may not come to be.
CloseRequest(c) ==
  /\ At(c, "touch")
  /\ kill' \in {TRUE, kill}
  /\ Goto(c, IF platform = "posix" THEN "sigterm" ELSE "poll")
  /\ UNCHANGED <<hostVars, idaVars, sidecar, lock, handles, callVars>>

\* What SIGTERM does to a process in each state: before the handlers are there it
\* kills; after, the handler stops the server from on top of the main thread.
AfterSigterm(p) ==
  CASE ida[p] = "published"               -> {Dead(p), "wedged", "stopping"}
    [] ida[p] \in {"serving", "draining"} -> {"wedged"}
    [] ida[p] = "exiting"                 -> {"exiting", "stuck"}
    [] OTHER                              -> {ida[p]}

CloseSigterm(c) ==
  /\ At(c, "sigterm")
  /\ \E s \in AfterSigterm(target[c]) : ida' = [ida EXCEPT ![target[c]] = s]
  /\ Goto(c, "poll")
  /\ UNCHANGED <<hostVars, parent, sidecar, kill, lock, handles, callVars>>

\* Mutated: the polling has no deadline.
ClosePollForever(c) ==
  /\ At(c, "poll")
  /\ SessionGet = None
  /\ CollectSidecar
  /\ outcome' = [outcome EXCEPT ![c] = "closed"]
  /\ Goto(c, "kclean")
  /\ UNCHANGED <<hostVars, idaVars, kill, lock, handles, child, target>>

\* The polling ends when the sidecar is gone or the deadline has passed.
ClosePoll(c) ==
  /\ At(c, "poll")
  /\ \/ /\ SessionGet = None
        /\ CollectSidecar
        /\ outcome' = [outcome EXCEPT ![c] = "closed"]
        /\ Goto(c, "kclean")
     \/ /\ outcome' = [outcome EXCEPT ![c] = "forced"]
        /\ Goto(c, "hardkill")
        /\ UNCHANGED sidecar
  /\ UNCHANGED <<hostVars, idaVars, kill, lock, handles, child, target>>

CloseHardKill(c) ==
  /\ At(c, "hardkill")
  /\ ida' = IF IsRunning(target[c]) THEN [ida EXCEPT ![target[c]] = Dead(target[c])]
            ELSE ida
  /\ Goto(c, "remove")
  /\ UNCHANGED <<hostVars, parent, sidecar, kill, lock, handles, callVars>>

\* Mutated: the escalation leaves the kill switch behind.
CloseRemoveOnly(c) ==
  /\ At(c, "remove")
  /\ sidecar' = None
  /\ Goto(c, "reap")
  /\ UNCHANGED <<hostVars, idaVars, kill, lock, handles, callVars>>

CloseRemove(c) ==                          \* by id, whoever's it is by now
  /\ At(c, "remove")
  /\ sidecar' = None
  /\ Goto(c, "kclean")
  /\ UNCHANGED <<hostVars, idaVars, kill, lock, handles, callVars>>

CloseCleanup(c) ==                         \* kill_switch.cleanup
  /\ At(c, "kclean")
  /\ kill' = FALSE
  /\ Goto(c, "reap")
  /\ UNCHANGED <<hostVars, idaVars, sidecar, lock, handles, callVars>>

\* _reap: pop the handle, if this host has one, and wait five seconds for it.
CloseReap(c) ==
  /\ At(c, "reap")
  /\ LET mine == {h \in handles[HostOf[c]] : h[1] = target[c]}
     IN /\ handles' = [handles EXCEPT ![HostOf[c]] = @ \ mine]
        /\ ida' = [p \in Idas |-> IF \E h \in mine : h[2] = p /\ ida[p] = "zombie"
                                  THEN "gone" ELSE ida[p]]
  /\ Goto(c, "done")
  /\ UNCHANGED <<hostVars, parent, sidecar, kill, lock, callVars>>

Close(c) == \/ CloseGet(c) \/ CloseRequest(c) \/ CloseSigterm(c) \/ ClosePoll(c)
            \/ CloseHardKill(c) \/ CloseRemove(c) \/ CloseCleanup(c) \/ CloseReap(c)

-----------------------------------------------------------------------------
(* The IDA processes.                                                      *)

Become(p, s) == ida' = [ida EXCEPT ![p] = s] /\ UNCHANGED parent

Boot(p) ==                                 \* publish the sidecar, or _abort
  /\ ida[p] = "booting"
  /\ \/ Become(p, "published") /\ sidecar' = p
     \/ Become(p, Dead(p)) /\ UNCHANGED sidecar
  /\ UNCHANGED kill

\* A kill switch that is there before the loop runs is not always obeyed: see
\* HeadlessServer for the re-bind ("wedged") and the shutdown without a loop,
\* which gets through the cleanup but not past the stop lock ("stuck").
StartServing(p) ==
  /\ ida[p] = "published"
  /\ \/ Become(p, "serving") /\ UNCHANGED <<sidecar, kill>>
     \/ kill /\ (Become(p, "wedged") \/ Become(p, "stopping")) /\ UNCHANGED <<sidecar, kill>>
     \/ kill /\ Become(p, "stuck") /\ kill' = FALSE /\ sidecar' = None

ObserveKillSwitch(p) ==
  /\ ida[p] = "serving" /\ kill
  /\ Become(p, "draining")
  /\ UNCHANGED <<sidecar, kill>>

LeaveLoop(p) ==                            \* asked to, or the loop crashed
  /\ ida[p] \in {"draining", "serving"}
  /\ Become(p, "stopping")
  /\ UNCHANGED <<sidecar, kill>>

CleanupKillSwitch(p) ==
  /\ ida[p] = "stopping"
  /\ Become(p, "withdrawing")
  /\ kill' = FALSE
  /\ UNCHANGED sidecar

Withdraw(p) ==
  /\ ida[p] = "withdrawing"
  /\ Become(p, "exiting")
  /\ sidecar' = None
  /\ UNCHANGED kill

Exit(p) ==                                 \* qexit: atexit removes once more, by id
  /\ ida[p] = "exiting"
  /\ Become(p, Dead(p))
  /\ sidecar' = None
  /\ UNCHANGED kill

Crash(p) ==                                \* dies with everything left in place
  /\ IsRunning(p)
  /\ Become(p, Dead(p))
  /\ UNCHANGED <<sidecar, kill>>

Ida(p) == \/ Boot(p) \/ StartServing(p) \/ ObserveKillSwitch(p) \/ LeaveLoop(p)
          \/ CleanupKillSwitch(p) \/ Withdraw(p) \/ Exit(p) \/ Crash(p)

-----------------------------------------------------------------------------
(* Hosts that go away with their threads.                                  *)

HostDies(h) ==
  /\ up[h]
  /\ up' = [up EXCEPT ![h] = FALSE]
  /\ pc' = [t \in Threads |-> IF HostOf[t] = h /\ pc[t] # "done" THEN "dead" ELSE pc[t]]
  /\ ida' = [p \in Idas |-> IF ida[p] = "zombie" /\ parent[p] = h THEN "gone" ELSE ida[p]]
  /\ UNCHANGED <<platform, parent, sidecar, kill, lock, handles, callVars>>


Next ==
  \/ \E t \in Openers : OpenCall(t) \/ Open(t)
  \/ \E c \in Closers : CloseCall(c) \/ Close(c)
  \/ \E p \in Idas : Ida(p) /\ UNCHANGED <<hostVars, lock, handles, pc, callVars>>
  \/ \E h \in Hosts : HostDies(h)

\* A thread that can go on does, the time that passes included; nothing is assumed
\* of IDA, which may analyse for ever, or of when calls are made.
Fairness == /\ \A t \in Openers : WF_vars(Open(t))
            /\ \A c \in Closers : WF_vars(Close(c))

Spec     == Init /\ [][Next]_vars
FairSpec == Spec /\ Fairness

-----------------------------------------------------------------------------
(* Properties.                                                             *)

Spawning(t) == pc[t] \in {"get", "spawn", "await", "reap", "record"}

\* In one proxy at most one open per session id is past the lock, and a child of
\* a proxy that is up has either been handed out by an open or has a thread that
\* will hand it out or kill it.
SpawnsSerialised ==
  /\ \A s, t \in Openers :
       HostOf[s] = HostOf[t] /\ Spawning(s) /\ Spawning(t) => s = t
  /\ \A p \in Idas : ida[p] = "booting" /\ up[parent[p]] =>
       \E t \in Openers : child[t] = p /\ pc[t] \in {"await", "reap", "record"}

\* A failed open leaves no half-spawned process.
FailedOpenLeavesNoChild ==
  \A t \in Openers : outcome[t] = "failed" /\ child[t] # None => ida[child[t]] = "gone"

\* The Popen kept for a pid is the process with that pid (one proxy only; two
\* proxies may each find the other's sidecar).
HandlesMatch == \A h \in Hosts : \A e \in handles[h] : e[1] = e[2]

\* A kill switch is there only while a close is under way, or because the host of
\* one died: no path of close, and no exit of IDA, leaves it for the next session.
KillSwitchOwned ==
  kill => \E c \in Closers : pc[c] \in {"sigterm", "poll", "hardkill", "remove",
                                        "kclean", "dead"}

\* Every open and every close returns, whatever IDA does.
CallsReturn ==
  \A t \in Threads : pc[t] # "idle" ~> pc[t] \in {"done", "dead"}

\* spawner/core.py on open: serialising calls for the same binary "closes the
\* otherwise unavoidable check-then-spawn TOCTOU window", also when "two agents
\* target the same binary concurrently".
OneIdaPerBinary ==
  \A p, q \in Idas :
    ida[p] \in {"booting", "published", "serving"} /\
    ida[q] \in {"booting", "published", "serving"} => p = q
=============================================================================
