------------------------------ MODULE Service ------------------------------
(***************************************************************************)
(* The Windows service: the install and uninstall commands (installer/     *)
(* service/_windows/__init__.py with schtasks.py, health.py and            *)
(* service_spec.py), the supervisor that the scheduled task runs           *)
(* (runner.py, windows_job.py) and the proxies it launches.                *)
(*                                                                         *)
(* One user types one command at a time; the task may start at any logon.  *)
(***************************************************************************)
EXTENDS Naturals, FiniteSets

CONSTANTS
  Specs,         \* service configurations
  PortOf,        \* configuration -> the port it listens on
  Proxies,       \* bound: proxy processes alive at one time
  MaxOrphans,    \* bound: proxies alive without a supervisor
  MaxCommands,   \* bound: commands typed
  MaxFaults,     \* bound: things that go wrong outside
  None

Ports == {PortOf[s] : s \in Specs}

ASSUME ServiceAssumption ==
  /\ PortOf \in [Specs -> Ports]
  /\ None \notin Specs \cup Proxies
  /\ MaxOrphans \in Nat /\ MaxCommands \in Nat /\ MaxFaults \in Nat

VARIABLES
  task,       \* the registered definition: "absent", "legacy" or "runner"
  dir,        \* the service directory exists
  config,     \* the configuration in service.json, or None
  wrapper,    \* proxy.cmd of an old version is there
  english,    \* schtasks speaks the language that schtasks.py looks for
  sup,        \* the supervisor: "none", "begin", "open", "launch", "assign", "wait", "sleep"
  spec,       \* the configuration it has read
  child,      \* the proxy it has launched
  proxy,      \* proxy -> "gone", "starting", "listening" or "killed"
  serves,     \* proxy -> its configuration
  job,        \* proxies assigned to their supervisor's job object
  foreign,    \* ports held by other programs
  at,         \* where the command is
  want,       \* install: the configuration asked for; uninstall: what it has read
  stopped,    \* what _end_task returned
  answered,   \* install: what answered the health check, a configuration or None
  excused,    \* install: something came in between that it cannot see (history)
  result,     \* of the last command
  commands, faults

taskVars == <<task, dir, config, wrapper>>
supVars == <<sup, spec, child>>
proxyVars == <<proxy, serves, job>>
cmdVars == <<at, want, stopped, answered, result, commands>>
vars == <<taskVars, english, supVars, proxyVars, foreign, cmdVars, excused, faults>>

Stages == {"idle", "check", "write", "end", "closing", "register", "start", "opening",
           "unlink", "readspec", "stop", "drain", "unregister", "rmtree"}

TaskTypes ==
  /\ task \in {"absent", "legacy", "runner"}
  /\ dir \in BOOLEAN /\ wrapper \in BOOLEAN /\ english \in BOOLEAN
  /\ config \in Specs \cup {None}

ProcessTypes ==
  /\ sup \in {"none", "begin", "open", "launch", "assign", "wait", "sleep"}
  /\ spec \in Specs \cup {None}
  /\ child \in Proxies \cup {None}
  /\ child # None <=> sup \in {"assign", "wait"}
  /\ proxy \in [Proxies -> {"gone", "starting", "listening", "killed"}]
  /\ serves \in [Proxies -> Specs \cup {None}]
  /\ job \subseteq Proxies
  /\ foreign \subseteq Ports

CommandTypes ==
  /\ at \in Stages
  /\ want \in Specs \cup {None} /\ answered \in Specs \cup {None}
  /\ stopped \in {"none", "stopped", "absent", "already-stopped", "failed"}
  /\ result \in {"none", "installed", "removed", "error"}
  /\ commands \in 0 .. MaxCommands

TypeOK ==
  /\ TaskTypes /\ ProcessTypes /\ CommandTypes
  /\ excused \in BOOLEAN
  /\ faults \in 0 .. MaxFaults

\* A machine on which nothing is installed, or an old version is.
Init ==
  /\ \E old \in BOOLEAN :
       /\ task = IF old THEN "legacy" ELSE "absent"
       /\ dir = old
       /\ wrapper = old
  /\ config = None
  /\ english \in BOOLEAN
  /\ sup = "none" /\ spec = None /\ child = None
  /\ proxy = [p \in Proxies |-> "gone"]
  /\ serves = [p \in Proxies |-> None]
  /\ job = {}
  /\ foreign = {}
  /\ at = "idle" /\ want = None /\ stopped = "none" /\ answered = None
  /\ excused = FALSE /\ result = "none"
  /\ commands = 0 /\ faults = 0

Fault == faults < MaxFaults /\ faults' = faults + 1
NoFault == UNCHANGED faults

Alive == {p \in Proxies : proxy[p] # "gone"}
Orphans == {p \in Alive : p # child /\ p \notin job}

\* Killed proxies hold their port until the system is done with them.
Listeners(port) == {p \in Alive : proxy[p] \in {"listening", "killed"} /\ PortOf[serves[p]] = port}
Free(port) == port \notin foreign /\ Listeners(port) = {}

-----------------------------------------------------------------------------
(* The supervisor and its proxy.                                           *)

\* Python's exit closes the job object, and the system kills what is in it.
SupervisorEnds ==
  /\ sup = "assign" => Cardinality(Orphans) < MaxOrphans
  /\ sup' = "none"
  /\ spec' = None
  /\ child' = None
  /\ proxy' = [p \in Proxies |-> IF p \in job /\ proxy[p] # "gone" THEN "killed" ELSE proxy[p]]
  /\ excused' = (excused \/ sup = "assign")

\* At logon the task runs; a second instance is ignored.
Logon ==
  /\ task = "runner"
  /\ sup = "none"
  /\ sup' = "begin"
  /\ UNCHANGED <<taskVars, english, spec, child, proxyVars, foreign, cmdVars, excused>>
  /\ NoFault

ReadSpec ==                                \* ServiceSpec.read raises ValueError
  /\ sup = "begin"
  /\ sup' = IF config = None THEN "none" ELSE "open"
  /\ spec' = config
  /\ UNCHANGED <<taskVars, english, child, proxyVars, foreign, cmdVars, excused>>
  /\ NoFault

OpenLogs ==
  /\ sup = "open"
  /\ dir' = TRUE
  /\ sup' = "launch"
  /\ UNCHANGED <<task, config, wrapper, english, spec, child, proxyVars, foreign, cmdVars, excused>>
  /\ NoFault

\* Popen, or anything before it, may raise.
Launch ==
  /\ sup = "launch"
  /\ \/ \E p \in Proxies \ Alive :
          /\ child' = p
          /\ proxy' = [proxy EXCEPT ![p] = "starting"]
          /\ serves' = [serves EXCEPT ![p] = spec]
          /\ sup' = "assign"
          /\ NoFault
     \/ sup' = "sleep" /\ Fault /\ UNCHANGED <<child, proxy, serves>>
  /\ UNCHANGED <<taskVars, english, spec, job, foreign, cmdVars, excused>>

\* AssignProcessToJobObject; when it fails, as for a process that has exited, the
\* proxy is ended and waited for.
Assign ==
  /\ sup = "assign"
  /\ \/ /\ proxy[child] # "gone"
        /\ job' = job \cup {child}
        /\ sup' = "wait"
        /\ NoFault
        /\ UNCHANGED <<child, proxy, serves>>
     \/ /\ proxy' = [proxy EXCEPT ![child] = "gone"]
        /\ serves' = [serves EXCEPT ![child] = None]
        /\ child' = None
        /\ sup' = "sleep"
        /\ IF proxy[child] = "gone" THEN NoFault ELSE Fault
        /\ UNCHANGED job
  /\ UNCHANGED <<taskVars, english, spec, foreign, cmdVars, excused>>

\* Mutated: the supervisor ends with its proxy.
AwaitOnce ==
  /\ sup = "wait"
  /\ proxy[child] = "gone"
  /\ sup' = "none"
  /\ spec' = None
  /\ child' = None
  /\ UNCHANGED <<taskVars, english, proxyVars, foreign, cmdVars, excused, faults>>

\* Mutated: the supervisor forgets to drop the process it has waited for.
AwaitKeeps ==
  /\ sup = "wait"
  /\ proxy[child] = "gone"
  /\ sup' = "sleep"
  /\ UNCHANGED <<taskVars, english, spec, child, proxyVars, foreign, cmdVars, excused, faults>>

Await ==
  /\ sup = "wait"
  /\ proxy[child] = "gone"
  /\ sup' = "sleep"
  /\ child' = None
  /\ UNCHANGED <<taskVars, english, spec, proxyVars, foreign, cmdVars, excused, faults>>

Sleep ==
  /\ sup = "sleep"
  /\ sup' = "launch"
  /\ UNCHANGED <<taskVars, english, spec, child, proxyVars, foreign, cmdVars, excused, faults>>

Exit(p) ==
  /\ proxy' = [proxy EXCEPT ![p] = "gone"]
  /\ serves' = [serves EXCEPT ![p] = None]
  /\ job' = job \ {p}

\* A proxy that cannot have its port exits.
Bind(p) ==
  /\ proxy[p] = "starting"
  /\ \/ /\ Free(PortOf[serves[p]])
        /\ proxy' = [proxy EXCEPT ![p] = "listening"]
        /\ UNCHANGED <<serves, job>>
     \/ ~Free(PortOf[serves[p]]) /\ Exit(p)
  /\ UNCHANGED <<taskVars, english, supVars, foreign, cmdVars, excused, faults>>

Vanish(p) ==
  /\ proxy[p] = "killed"
  /\ Exit(p)
  /\ UNCHANGED <<taskVars, english, supVars, foreign, cmdVars, excused, faults>>

ProxyCrash(p) ==
  /\ proxy[p] \in {"starting", "listening"}
  /\ Exit(p)
  /\ Fault
  /\ UNCHANGED <<taskVars, english, supVars, foreign, cmdVars, excused>>

SupervisorCrash ==
  /\ sup # "none"
  /\ SupervisorEnds
  /\ Fault
  /\ UNCHANGED <<taskVars, english, serves, job, foreign, cmdVars>>

\* Another program takes a port, or gives it back.
OtherProgram ==
  /\ \E port \in Ports :
       \/ /\ Free(port)
          /\ foreign' = foreign \cup {port}
          /\ Fault
          /\ excused' = TRUE
       \/ foreign' = foreign \ {port} /\ port \in foreign /\ NoFault /\ UNCHANGED excused
  /\ UNCHANGED <<taskVars, english, supVars, proxyVars, cmdVars>>

-----------------------------------------------------------------------------
(* Steps that both commands are made of.                                   *)

worldVars == <<english, serves, job, foreign>>

Go(stage) == at' = stage /\ UNCHANGED <<want, stopped, answered, result, commands>>

\* A command's variables end with it; what install has seen is kept with its report.
Done(how) ==
  /\ at' = "idle"
  /\ result' = how
  /\ stopped' = "none"
  /\ want' = IF how = "installed" THEN want ELSE None
  /\ answered' = IF how = "installed" THEN answered ELSE None
  /\ UNCHANGED commands

Raise == Done("error")

\* schtasks /end. The exit code tells success; the rest is read off the message.
EndTask(next) ==
  /\ at' = next
  /\ \/ /\ sup # "none"
        /\ SupervisorEnds
        /\ stopped' = "stopped"
        /\ NoFault
     \/ /\ sup = "none"
        /\ stopped' = IF ~english THEN "failed"
                      ELSE IF task = "absent" THEN "absent"
                      ELSE "already-stopped"
        /\ UNCHANGED <<supVars, proxy, excused>>
        /\ NoFault
     \/ /\ stopped' = "failed"
        /\ excused' = (excused \/ sup # "none")
        /\ UNCHANGED <<supVars, proxy>>
        /\ Fault
  /\ UNCHANGED <<taskVars, worldVars, want, answered, result, commands>>

\* Mutated: the listener of the old task is not waited for.
PortClosesUnseen(port, next) ==
  /\ Go(next)
  /\ UNCHANGED <<taskVars, worldVars, supVars, proxy, excused, faults>>

\* wait_for_listener_to_close: it gives up only where it has seen the port taken.
PortCloses(port, next) ==
  /\ \/ Free(port) /\ Go(next)
     \/ ~Free(port) /\ Raise
  /\ UNCHANGED <<taskVars, worldVars, supVars, proxy, excused, faults>>

\* Ctrl-C, an OSError, or schtasks that fails: the command ends where it is.
Abort ==
  /\ at # "idle"
  /\ Raise
  /\ Fault
  /\ UNCHANGED <<taskVars, worldVars, supVars, proxy, excused>>

\* What an operation of a command leaves alone when it only changes files.
Elsewhere == UNCHANGED <<worldVars, supVars, proxy, excused, faults>>

-----------------------------------------------------------------------------
(* install.                                                                *)

\* A proxy without a supervisor that has no port yet cannot be seen by the checks.
StartInstall(s) ==
  /\ at = "idle"
  /\ commands < MaxCommands
  /\ commands' = commands + 1
  /\ at' = "check"
  /\ want' = s
  /\ result' = "none" /\ stopped' = "none" /\ answered' = None
  /\ excused' = (\E p \in Orphans : proxy[p] = "starting")
  /\ UNCHANGED <<taskVars, worldVars, supVars, proxy, faults>>

\* mkdir; then the IDA home, the interpreter and the settings may be refused.
CheckArguments ==
  /\ at = "check"
  /\ dir' = TRUE
  /\ Go("write") \/ Raise
  /\ UNCHANGED <<task, config, wrapper>>
  /\ Elsewhere

\* The new file replaces the old one in one step. The task XML is written too; only
\* _register_task reads it.
WriteConfig ==
  /\ at = "write"
  /\ config' = want
  /\ Go("end")
  /\ UNCHANGED <<task, dir, wrapper>>
  /\ Elsewhere

EndOld == at = "end" /\ EndTask("closing")

PortOfOldCloses == at = "closing" /\ PortCloses(PortOf[want], "register")

Register ==
  /\ at = "register"
  /\ task' = "runner"
  /\ Go("start")
  /\ UNCHANGED <<dir, config, wrapper>>
  /\ Elsewhere

Start ==                                   \* ignored when an instance is running
  /\ at = "start"
  /\ sup' = IF sup = "none" THEN "begin" ELSE sup
  /\ Go("opening")
  /\ UNCHANGED <<taskVars, worldVars, spec, child, proxy, excused, faults>>

\* wait_for_listener: whatever answers HTTP on the port will do.
PortOpens ==
  LET answering == {p \in Listeners(PortOf[want]) : proxy[p] = "listening"}
  IN /\ at = "opening"
     /\ \/ /\ \/ \E p \in answering : answered' = serves[p]
              \/ PortOf[want] \in foreign /\ answered' = None
           /\ at' = "unlink"
           /\ UNCHANGED <<want, stopped, result, commands>>
        \/ answering = {} /\ Raise
     /\ UNCHANGED taskVars
     /\ Elsewhere

RemoveWrapper ==
  /\ at = "unlink"
  /\ wrapper' = FALSE
  /\ Done("installed")
  /\ UNCHANGED <<task, dir, config>>
  /\ Elsewhere

-----------------------------------------------------------------------------
(* uninstall.                                                              *)

StartUninstall ==
  /\ at = "idle"
  /\ commands < MaxCommands
  /\ commands' = commands + 1
  /\ at' = "readspec"
  /\ want' = None
  /\ result' = "none" /\ stopped' = "none" /\ answered' = None
  /\ excused' = FALSE
  /\ UNCHANGED <<taskVars, worldVars, supVars, proxy, faults>>

ReadConfig ==
  /\ at = "readspec"
  /\ want' = config
  /\ at' = "stop"
  /\ UNCHANGED <<taskVars, stopped, answered, result, commands>>
  /\ Elsewhere

Stop == at = "stop" /\ EndTask("drain")

Drain ==
  /\ at = "drain"
  /\ IF want # None /\ stopped = "stopped"
     THEN PortCloses(PortOf[want], "unregister")
     ELSE Go("unregister") /\ UNCHANGED taskVars /\ Elsewhere

\* Mutated: what schtasks says is not looked at.
UnregisterIgnores ==
  /\ at = "unregister"
  /\ \/ task' = "absent" /\ NoFault
     \/ task' = task /\ Fault
  /\ Go("rmtree")
  /\ UNCHANGED <<dir, config, wrapper, worldVars, supVars, proxy, excused>>

\* A task that is not there is told from a failure by the message.
Unregister ==
  /\ at = "unregister"
  /\ task' = "absent"
  /\ IF task = "absent" /\ ~english THEN Raise ELSE Go("rmtree")
  /\ UNCHANGED <<dir, config, wrapper>>
  /\ Elsewhere

\* The supervisor and its proxies run in the directory and have its logs open.
Held == sup # "none" \/ Alive # {}

\* Mutated: rmtree with ignore_errors.
RemoveAnyway ==
  /\ at = "rmtree"
  /\ dir' = (dir /\ Held)
  /\ config' = None
  /\ wrapper' = FALSE
  /\ Done("removed")
  /\ UNCHANGED task
  /\ Elsewhere

\* Windows removes neither an open file nor a process's working directory; what
\* rmtree has removed until then is gone.
RemoveFiles ==
  /\ at = "rmtree"
  /\ \/ /\ dir /\ Held
        /\ config' \in {config, None}
        /\ wrapper' = wrapper \/ wrapper' = FALSE
        /\ Raise
        /\ UNCHANGED dir
     \/ /\ ~(dir /\ Held)
        /\ dir' = FALSE /\ config' = None /\ wrapper' = FALSE
        /\ Done("removed")
  /\ UNCHANGED task
  /\ Elsewhere

-----------------------------------------------------------------------------
Supervisor == ReadSpec \/ OpenLogs \/ Launch \/ Assign \/ Await \/ Sleep

Command ==
  \/ CheckArguments \/ WriteConfig \/ EndOld \/ PortOfOldCloses \/ Register \/ Start
  \/ PortOpens \/ RemoveWrapper
  \/ ReadConfig \/ Stop \/ Drain \/ Unregister \/ RemoveFiles

Next ==
  \/ \E s \in Specs : StartInstall(s)
  \/ StartUninstall \/ Command \/ Abort
  \/ Logon \/ Supervisor \/ SupervisorCrash
  \/ \E p \in Proxies : Bind(p) \/ Vanish(p) \/ ProxyCrash(p)
  \/ OtherProgram

Spec == Init /\ [][Next]_vars

Fairness ==
  /\ WF_vars(Supervisor)
  /\ \A p \in Proxies : WF_vars(Bind(p)) /\ WF_vars(Vanish(p))

FairSpec == Spec /\ Fairness

-----------------------------------------------------------------------------
(* Properties.                                                             *)

\* Whatever a command got to, and whatever failed, the registered task finds the
\* file it needs: the next logon starts the service and not an error loop.
DefinitionBacked ==
  /\ task = "runner" => config # None
  /\ task = "legacy" => wrapper

\* When install reports success, what answered is a proxy with the new settings,
\* not one left from before and not another program, save for what took the port
\* after install had seen it free, and for an old task that schtasks did not end.
InstallTruthful ==
  result = "installed" /\ ~excused => task = "runner" /\ answered = want

\* When uninstall reports success nothing of the service is left, running or on
\* disk, although it ignores a failure to stop the task.
UninstallComplete ==
  result = "removed" => task = "absent" /\ ~dir /\ sup = "none" /\ Alive = {}

\* From here on nobody types a command and nothing fails.
LeftAlone == at = "idle" /\ commands = MaxCommands /\ faults = MaxFaults

Served ==
  \E s \in Specs :
    /\ spec = s
    /\ \/ PortOf[s] \in foreign
       \/ \E p \in Listeners(PortOf[s]) : proxy[p] = "listening"

\* A supervisor that is left alone gets a proxy to listen again, whatever has become
\* of the earlier ones, or finds its port taken.
ServiceRecovers == LeftAlone /\ sup \notin {"none", "begin"} ~> Served
=============================================================================
