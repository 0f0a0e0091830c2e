--------------------------- MODULE Service_proofs ---------------------------
(***************************************************************************)
(* Proofs about Service, for any configurations, ports and bounds: types,  *)
(* that a registered task can start, and that install and uninstall report *)
(* success only when they have succeeded.                                  *)
(***************************************************************************)
EXTENDS Service, FiniteSetTheorems, TLAPS

Installing == {"check", "write", "end", "closing", "register", "start", "opening", "unlink"}

\* An install knows its configuration.
WantInv == at \in Installing => want \in Specs

TypeInv == TypeOK /\ WantInv

\* How far a command is tells what is registered and on disk.
FileInv ==
  /\ config # None => dir
  /\ at \in Installing \ {"check"} => dir
  /\ at \in Installing \ {"check", "write"} => config = want
  /\ at \in {"start", "opening", "unlink"} => task = "runner"
  /\ at = "rmtree" => task = "absent"
  /\ DefinitionBacked

\* Whatever runs for the service keeps its directory.
HeldInv == Held => dir

\* A command reports when it is over.
ReportInv == at # "idle" => result = "none"

RemoveInv == HeldInv /\ ReportInv /\ UninstallComplete

SafeInv == TypeInv /\ FileInv /\ RemoveInv

\* A supervisor past its start has read a configuration, and its proxy serves that one.
SpecInv == sup \notin {"none", "begin"} => spec \in Specs

ChildInv ==
  sup \in {"assign", "wait"} =>
    /\ proxy[child] # "gone" => serves[child] = spec /\ (sup = "wait" => child \in job)
    /\ sup = "assign" => child \notin job

\* A job object holds the proxy of its supervisor; the others in it are being ended.
JobInv ==
  \A p \in job : proxy[p] = "killed" \/ (proxy[p] # "gone" /\ sup = "wait" /\ p = child)

ServesInv == \A p \in Proxies : proxy[p] # "gone" => serves[p] \in Specs

ProcInv == SpecInv /\ ChildInv /\ JobInv /\ ServesInv

\* While an install runs and nothing comes in between, only the supervisor's own
\* proxy is about to listen ...
StartingInv ==
  ~excused /\ at \in Installing =>
    \A p \in Proxies : proxy[p] = "starting" => p = child

\* ... the supervisor serves the new configuration from when the old task has ended ...
NewSpecInv ==
  /\ ~excused
  /\ at \in {"closing", "register", "start", "opening"}
  /\ sup \notin {"none", "begin"}
  => spec = want

\* ... and the port, once seen free, is taken for nothing else.
PortInv ==
  ~excused /\ at \in {"register", "start", "opening"} =>
    /\ PortOf[want] \notin foreign
    /\ \A p \in Proxies :
         proxy[p] = "listening" /\ PortOf[serves[p]] = PortOf[want] => serves[p] = want

AnswerInv == ~excused /\ at = "unlink" => answered = want

TruthInv == StartingInv /\ NewSpecInv /\ PortInv /\ AnswerInv /\ InstallTruthful
-----------------------------------------------------------------------------
(* Types.                                                                  *)

\* Init has the types of Service's variables.
LEMMA InitTypes == Init => TypeInv
<1> SUFFICES ASSUME Init
             PROVE  TypeInv
  OBVIOUS
<1>1. TaskTypes
  BY ServiceAssumption DEF Init, TaskTypes
<1>2. ProcessTypes
  BY ServiceAssumption DEF Init, ProcessTypes
<1>3. CommandTypes
  BY ServiceAssumption DEF Init, CommandTypes, Stages
<1>4. excused \in BOOLEAN
  BY DEF Init
<1>5. faults \in 0 .. MaxFaults
  BY ServiceAssumption DEF Init
<1>6. WantInv
  BY DEF Init, WantInv, Installing
<1>7. QED
  BY <1>1, <1>2, <1>3, <1>4, <1>5, <1>6 DEF TypeInv, TypeOK

\* A proxy's exit keeps the types (Bind, Vanish, ProxyCrash).
LEMMA ExitTypes ==
  ASSUME TypeInv, NEW p \in Proxies, Exit(p)
  PROVE  /\ proxy' \in [Proxies -> {"gone", "starting", "listening", "killed"}]
         /\ serves' \in [Proxies -> Specs \cup {None}]
         /\ job' \subseteq Proxies
  BY DEF TypeInv, TypeOK, ProcessTypes, Exit

\* Every step of the supervisor and of its proxies keeps the types.
LEMMA WorldTypes ==
  ASSUME TypeInv,
         Logon \/ Supervisor \/ SupervisorCrash \/ OtherProgram
           \/ (\E p \in Proxies : Bind(p) \/ Vanish(p) \/ ProxyCrash(p))
  PROVE  TypeInv'
<1> USE ServiceAssumption DEF TypeInv, TypeOK, TaskTypes, ProcessTypes, CommandTypes, WantInv, Stages, taskVars, supVars, proxyVars, cmdVars,
                              Fault, NoFault
<1>1. CASE Logon
  BY <1>1 DEF Logon
<1>2. CASE ReadSpec
  BY <1>2 DEF ReadSpec
<1>3. CASE OpenLogs
  BY <1>3 DEF OpenLogs
<1>4. CASE Launch
  <2>1. CASE \E p \in Proxies \ Alive :
               /\ child' = p
               /\ proxy' = [proxy EXCEPT ![p] = "starting"]
               /\ serves' = [serves EXCEPT ![p] = spec]
               /\ sup' = "assign"
               /\ NoFault
    BY <1>4, <2>1 DEF Launch
  <2>2. CASE sup' = "sleep" /\ Fault /\ UNCHANGED <<child, proxy, serves>>
    BY <1>4, <2>2 DEF Launch
  <2>3. QED
    BY <1>4, <2>1, <2>2 DEF Launch
<1>5. CASE Assign
  BY <1>5 DEF Assign
<1>6. CASE Await
  BY <1>6 DEF Await
<1>7. CASE Sleep
  BY <1>7 DEF Sleep
<1>8. CASE SupervisorCrash
  BY <1>8 DEF SupervisorCrash, SupervisorEnds
<1>9. CASE OtherProgram
  <2>1. TaskTypes'
    BY <1>9 DEF OtherProgram, TaskTypes
  <2>2. ProcessTypes'
    BY <1>9 DEF OtherProgram, ProcessTypes
  <2>3. CommandTypes'
    BY <1>9 DEF OtherProgram, CommandTypes
  <2>4. (excused \in BOOLEAN)'
    BY <1>9 DEF OtherProgram
  <2>5. (faults \in 0 .. MaxFaults)'
    BY <1>9 DEF OtherProgram
  <2>6. WantInv'
    BY <1>9 DEF OtherProgram, WantInv
  <2>7. QED
    BY <2>1, <2>2, <2>3, <2>4, <2>5, <2>6 DEF TypeInv, TypeOK
<1>10. ASSUME NEW p \in Proxies, Bind(p)
       PROVE  TypeInv'
  BY <1>10, ExitTypes DEF Bind
<1>11. ASSUME NEW p \in Proxies, Vanish(p)
       PROVE  TypeInv'
  BY <1>11, ExitTypes DEF Vanish
<1>12. ASSUME NEW p \in Proxies, ProxyCrash(p)
       PROVE  TypeInv'
  BY <1>12, ExitTypes DEF ProxyCrash
<1>13. QED
  BY <1>1, <1>2, <1>3, <1>4, <1>5, <1>6, <1>7, <1>8, <1>9, <1>10, <1>11, <1>12 DEF Supervisor

\* schtasks /end keeps the types of what it changes.
LEMMA EndTaskTypes ==
  ASSUME TypeInv, NEW next \in Stages \ {"idle"}, EndTask(next), next \in Installing => want \in Specs
  PROVE  TypeInv'
<1> USE DEF TypeInv, TypeOK, taskVars, supVars, proxyVars, worldVars, Stages, Fault, NoFault, SupervisorEnds
<1>1. TaskTypes'
  BY DEF EndTask, TaskTypes
<1>2. ProcessTypes'
  BY DEF EndTask, ProcessTypes
<1>3. CommandTypes'
  BY DEF EndTask, CommandTypes
<1>4. (excused \in BOOLEAN)'
  BY DEF EndTask
<1>5. (faults \in 0 .. MaxFaults)'
  BY ServiceAssumption DEF EndTask
<1>6. WantInv'
  BY DEF EndTask, WantInv
<1>7. QED
  BY <1>1, <1>2, <1>3, <1>4, <1>5, <1>6 DEF TypeInv, TypeOK

\* Every step of a command keeps the types.
LEMMA CommandStepTypes ==
  ASSUME TypeInv,
         (\E s \in Specs : StartInstall(s)) \/ StartUninstall \/ Command \/ Abort
  PROVE  TypeInv'
<1> USE DEF TypeInv, TypeOK, TaskTypes, ProcessTypes, CommandTypes, WantInv, Installing, Stages, taskVars, supVars, worldVars, Elsewhere,
            Go, Done, Raise, Fault, NoFault
<1>1. ASSUME NEW s \in Specs, StartInstall(s)
      PROVE  TypeInv'
  BY <1>1, ServiceAssumption DEF StartInstall
<1>2. CASE StartUninstall
  <2>1. TaskTypes'
    BY <1>2, ServiceAssumption DEF StartUninstall, TaskTypes
  <2>2. ProcessTypes'
    BY <1>2, ServiceAssumption DEF StartUninstall, ProcessTypes
  <2>3. CommandTypes'
    BY <1>2, ServiceAssumption DEF StartUninstall, CommandTypes
  <2>4. (excused \in BOOLEAN)'
    BY <1>2, ServiceAssumption DEF StartUninstall
  <2>5. (faults \in 0 .. MaxFaults)'
    BY <1>2, ServiceAssumption DEF StartUninstall
  <2>6. WantInv'
    BY <1>2, ServiceAssumption DEF StartUninstall, WantInv
  <2>7. QED
    BY <2>1, <2>2, <2>3, <2>4, <2>5, <2>6 DEF TypeInv, TypeOK
<1>3. CASE CheckArguments
  BY <1>3 DEF CheckArguments
<1>4. CASE WriteConfig
  BY <1>4 DEF WriteConfig
<1>5. CASE EndOld
  BY <1>5, EndTaskTypes DEF EndOld
<1>6. CASE PortOfOldCloses
  BY <1>6 DEF PortOfOldCloses, PortCloses
<1>7. CASE Register
  BY <1>7 DEF Register
<1>8. CASE Start
  BY <1>8 DEF Start
<1>9. CASE PortOpens
  BY <1>9 DEF PortOpens, Listeners, Alive
<1>10. CASE RemoveWrapper
  BY <1>10 DEF RemoveWrapper
<1>11. CASE ReadConfig
  BY <1>11 DEF ReadConfig
<1>12. CASE Stop
  BY <1>12, EndTaskTypes DEF Stop
<1>13. CASE Drain
  BY <1>13 DEF Drain, PortCloses
<1>14. CASE Unregister
  BY <1>14 DEF Unregister
<1>15. CASE RemoveFiles
  <2>1. TaskTypes'
    <3>1. CASE dir /\ Held
      <4>1. (config' = config \/ config' = None) /\ UNCHANGED <<task, dir, english>>
        BY <1>15, <3>1 DEF RemoveFiles
      <4>2. wrapper' \in BOOLEAN
        BY <1>15, <3>1 DEF RemoveFiles, TaskTypes
      <4>3. QED
        BY <4>1, <4>2 DEF TaskTypes
    <3>2. CASE ~(dir /\ Held)
      BY <1>15, <3>2 DEF RemoveFiles, TaskTypes
    <3>3. QED
      BY <3>1, <3>2
  <2>2. ProcessTypes'
    BY <1>15 DEF RemoveFiles, ProcessTypes
  <2>3. CommandTypes'
    BY <1>15 DEF RemoveFiles, CommandTypes
  <2>4. (excused \in BOOLEAN)'
    BY <1>15 DEF RemoveFiles
  <2>5. (faults \in 0 .. MaxFaults)'
    BY <1>15 DEF RemoveFiles
  <2>6. WantInv'
    BY <1>15 DEF RemoveFiles, WantInv
  <2>7. QED
    BY <2>1, <2>2, <2>3, <2>4, <2>5, <2>6 DEF TypeInv, TypeOK
<1>16. CASE Abort
  <2>1. TaskTypes'
    BY <1>16 DEF Abort, TaskTypes
  <2>2. ProcessTypes'
    BY <1>16 DEF Abort, ProcessTypes
  <2>3. CommandTypes'
    BY <1>16 DEF Abort, CommandTypes
  <2>4. (excused \in BOOLEAN)'
    BY <1>16 DEF Abort
  <2>5. (faults \in 0 .. MaxFaults)'
    BY <1>16, ServiceAssumption DEF Abort
  <2>6. WantInv'
    BY <1>16 DEF Abort, WantInv
  <2>7. QED
    BY <2>1, <2>2, <2>3, <2>4, <2>5, <2>6 DEF TypeInv, TypeOK
<1>17. QED
  BY <1>1, <1>2, <1>3, <1>4, <1>5, <1>6, <1>7, <1>8, <1>9, <1>10, <1>11, <1>12, <1>13, <1>14,
     <1>15, <1>16 DEF Command

\* Types of every step.
LEMMA StepTypes == TypeInv /\ [Next]_vars => TypeInv'
<1> SUFFICES ASSUME TypeInv, [Next]_vars
             PROVE  TypeInv'
  OBVIOUS
<1>1. CASE Next
  BY <1>1, WorldTypes, CommandStepTypes DEF Next
<1>2. CASE UNCHANGED vars
  BY <1>2 DEF vars, taskVars, supVars, proxyVars, cmdVars, TypeInv, TypeOK, TaskTypes, ProcessTypes,
             CommandTypes, WantInv
<1>3. QED
  BY <1>1, <1>2
-----------------------------------------------------------------------------
(* What is registered, and what is left after an uninstall.                *)

World ==
  \/ Logon \/ Supervisor \/ SupervisorCrash \/ OtherProgram
  \/ \E p \in Proxies : Bind(p) \/ Vanish(p) \/ ProxyCrash(p)

\* A step of the supervisor, its proxies or other programs changes no file but the
\* logs, and no command.
LEMMA WorldFrame ==
  ASSUME World
  PROVE  UNCHANGED <<task, config, wrapper, cmdVars>> /\ (dir' = dir \/ dir' = TRUE)
<1> USE DEF taskVars, cmdVars
<1>1. CASE Logon
  BY <1>1 DEF Logon
<1>2. CASE Supervisor
  BY <1>2 DEF Supervisor, ReadSpec, OpenLogs, Launch, Assign, Await, Sleep
<1>3. CASE SupervisorCrash
  BY <1>3 DEF SupervisorCrash
<1>4. CASE OtherProgram
  BY <1>4 DEF OtherProgram
<1>5. CASE \E p \in Proxies : Bind(p) \/ Vanish(p) \/ ProxyCrash(p)
  BY <1>5 DEF Bind, Vanish, ProxyCrash
<1>6. QED
  BY <1>1, <1>2, <1>3, <1>4, <1>5 DEF World

\* ... and starts something only where something runs, or where a task is registered.
LEMMA WorldHeld ==
  ASSUME TypeInv, World, Held'
  PROVE  Held \/ task = "runner"
<1> USE DEF Held, Alive, TypeInv, TypeOK, ProcessTypes
<1>1. CASE Logon
  BY <1>1 DEF Logon
<1>2. CASE Supervisor
  BY <1>2 DEF Supervisor, ReadSpec, OpenLogs, Launch, Assign, Await, Sleep
<1>3. CASE SupervisorCrash
  BY <1>3 DEF SupervisorCrash
<1>4. CASE OtherProgram
  BY <1>4 DEF OtherProgram, supVars, proxyVars
<1>5. ASSUME NEW p \in Proxies, Bind(p) \/ Vanish(p) \/ ProxyCrash(p)
      PROVE  Held
  BY <1>5 DEF Bind, Vanish, ProxyCrash
<1>6. QED
  BY <1>1, <1>2, <1>3, <1>4, <1>5 DEF World

\* The world keeps the task able to start, and what uninstall has removed removed.
LEMMA WorldSafe ==
  ASSUME SafeInv, World
  PROVE  FileInv' /\ RemoveInv'
<1>1. UNCHANGED <<task, config, wrapper, cmdVars>> /\ (dir' = dir \/ dir' = TRUE)
  BY WorldFrame
<1>2. FileInv'
  BY <1>1 DEF SafeInv, FileInv, DefinitionBacked, cmdVars
<1>3. HeldInv' /\ (result = "removed" => ~Held')
  BY <1>1, WorldHeld DEF SafeInv, FileInv, DefinitionBacked, RemoveInv, HeldInv, UninstallComplete, Held
<1>4. ReportInv'
  BY <1>1 DEF SafeInv, RemoveInv, ReportInv, cmdVars
<1>5. CASE result = "removed"
  <2>1. ~dir /\ task = "absent" /\ sup = "none" /\ Alive = {}
    BY <1>5 DEF SafeInv, RemoveInv, UninstallComplete
  <2>2. dir' = dir
    <3>1. ~OpenLogs
      BY <2>1 DEF OpenLogs
    <3>2. QED
      BY <3>1 DEF World, Logon, Supervisor, ReadSpec, Launch, Assign, Await, Sleep, SupervisorCrash,
                  OtherProgram, Bind, Vanish, ProxyCrash, taskVars
  <2>3. UninstallComplete'
    <3>1. ~Held'
      BY <1>3, <1>5
    <3>2. task' = "absent" /\ ~dir'
      BY <1>1, <2>1, <2>2
    <3>3. sup' = "none" /\ Alive' = {}
      BY <3>1 DEF Held
    <3>4. QED
      BY <3>2, <3>3 DEF UninstallComplete
  <2>4. QED
    BY <1>2, <1>3, <1>4, <2>3 DEF RemoveInv
<1>6. CASE result # "removed"
  <2>1. result' # "removed"
    BY <1>1, <1>6 DEF cmdVars
  <2>2. UninstallComplete'
    BY <2>1 DEF UninstallComplete
  <2>3. QED
    BY <1>2, <1>3, <1>4, <2>2 DEF RemoveInv
<1>7. QED
  BY <1>2, <1>5, <1>6

\* schtasks /end starts nothing.
LEMMA EndTaskFrame ==
  ASSUME TypeInv, NEW next, EndTask(next)
  PROVE  /\ UNCHANGED <<task, dir, config, wrapper, want, result>>
         /\ at' = next
         /\ Held' => Held
  BY DEF EndTask, SupervisorEnds, Held, Alive, TypeInv, TypeOK, ProcessTypes, taskVars, supVars

\* Every step of a command keeps the task able to start, and reports a removal only
\* when it is complete.
LEMMA CommandSafe ==
  ASSUME SafeInv,
         (\E s \in Specs : StartInstall(s)) \/ StartUninstall \/ Command \/ Abort
  PROVE  FileInv' /\ RemoveInv'
<1> USE DEF SafeInv, FileInv, DefinitionBacked, RemoveInv, HeldInv, ReportInv, UninstallComplete,
            Installing, taskVars, supVars, Elsewhere, Go, Done, Raise
<1> DEFINE Still == UNCHANGED <<sup, proxy>>
<1>0. Still => Held' = Held
  BY DEF Held, Alive
<1>1. ASSUME NEW s \in Specs, StartInstall(s)
      PROVE  FileInv' /\ RemoveInv'
  BY <1>0, <1>1 DEF StartInstall
<1>2. CASE StartUninstall
  BY <1>0, <1>2 DEF StartUninstall
<1>3. CASE CheckArguments
  BY <1>0, <1>3 DEF CheckArguments
<1>4. CASE WriteConfig
  BY <1>0, <1>4, ServiceAssumption DEF WriteConfig, TypeInv, WantInv
<1>5. CASE EndOld
  <2>1. /\ at = "end" /\ at' = "closing" /\ UNCHANGED <<task, dir, config, wrapper, want, result>>
        /\ Held' => Held
    BY <1>5, EndTaskFrame DEF EndOld
  <2>2. FileInv'
    BY <2>1
  <2>3. HeldInv'
    BY <2>1
  <2>4. ReportInv'
    BY <2>1
  <2>5. UninstallComplete'
    BY <2>1
  <2>6. QED
    BY <2>2, <2>3, <2>4, <2>5
<1>6. CASE PortOfOldCloses
  BY <1>0, <1>6 DEF PortOfOldCloses, PortCloses
<1>7. CASE Register
  BY <1>0, <1>7, ServiceAssumption DEF Register, TypeInv, WantInv
<1>8. CASE Start
  BY <1>8, ServiceAssumption DEF Start
<1>9. CASE PortOpens
  BY <1>0, <1>9 DEF PortOpens
<1>10. CASE RemoveWrapper
  BY <1>0, <1>10 DEF RemoveWrapper
<1>11. CASE ReadConfig
  BY <1>0, <1>11 DEF ReadConfig
<1>12. CASE Stop
  BY <1>12, EndTaskFrame DEF Stop
<1>13. CASE Drain
  BY <1>0, <1>13 DEF Drain, PortCloses
<1>14. CASE Unregister
  BY <1>0, <1>14 DEF Unregister
<1>15. CASE RemoveFiles
  BY <1>0, <1>15 DEF RemoveFiles, Held
<1>16. CASE Abort
  BY <1>0, <1>16 DEF Abort
<1>17. QED
  BY <1>1, <1>2, <1>3, <1>4, <1>5, <1>6, <1>7, <1>8, <1>9, <1>10, <1>11, <1>12, <1>13, <1>14,
     <1>15, <1>16 DEF Command

\* Before any command the task, the port and the probes are as they should be.
LEMMA InitSafe == Init => SafeInv
  BY InitTypes DEF Init, SafeInv, FileInv, DefinitionBacked, RemoveInv, HeldInv, ReportInv,
                   UninstallComplete, Installing, Held, Alive

\* Every step of the world or of a command keeps that.
LEMMA StepSafe == SafeInv /\ [Next]_vars => SafeInv'
<1> SUFFICES ASSUME SafeInv, [Next]_vars
             PROVE  SafeInv'
  OBVIOUS
<1>1. TypeInv'
  BY StepTypes DEF SafeInv
<1>2. CASE Next
  BY <1>1, <1>2, WorldSafe, CommandSafe DEF Next, World, SafeInv
<1>3. CASE UNCHANGED vars
  BY <1>1, <1>3 DEF vars, taskVars, supVars, proxyVars, cmdVars, SafeInv, FileInv, DefinitionBacked,
                    RemoveInv, HeldInv, ReportInv, UninstallComplete, Held, Alive
<1>4. QED
  BY <1>2, <1>3

\* So it holds in every reachable state.
LEMMA Safe == Spec => []SafeInv
  BY InitSafe, StepSafe, PTL DEF Spec

\* Service's variables keep their types.
THEOREM TypeCorrect == Spec => []TypeOK
<1>1. SafeInv => TypeOK
  BY DEF SafeInv, TypeInv
<1>2. QED
  BY <1>1, Safe, PTL

\* Whatever install and uninstall got to, a registered task finds its file (the order
\* in which _windows/__init__.py writes, registers, unregisters and removes).
THEOREM TaskCanStart == Spec => []DefinitionBacked
<1>1. SafeInv => DefinitionBacked
  BY DEF SafeInv, FileInv
<1>2. QED
  BY <1>1, Safe, PTL

\* An uninstall that reports success has left nothing running and nothing on disk.
THEOREM UninstallLeavesNothing == Spec => []UninstallComplete
<1>1. SafeInv => UninstallComplete
  BY DEF SafeInv, RemoveInv
<1>2. QED
  BY <1>1, Safe, PTL
-----------------------------------------------------------------------------
(* What install reports.                                                   *)

\* The job object of a supervisor that ends takes only its proxy with it, and nothing
\* else starts or stops.
LEMMA EndsProc ==
  ASSUME TypeInv, ProcInv, SupervisorEnds, UNCHANGED <<serves, job>>
  PROVE  /\ ProcInv'
         /\ \A p \in Proxies : /\ proxy'[p] = "starting" => proxy[p] = "starting" /\ p \notin job
                               /\ proxy'[p] = "listening" => proxy[p] = "listening"
         /\ sup' = "none" /\ (~excused' => ~excused /\ sup # "assign")
<1> USE DEF SupervisorEnds, TypeInv, TypeOK, ProcessTypes
<1>1. SpecInv' /\ ChildInv'
  BY DEF SpecInv, ChildInv
<1>2. JobInv'
  BY DEF ProcInv, JobInv
<1>3. ServesInv'
  BY DEF ProcInv, ServesInv
<1>4. QED
  BY <1>1, <1>2, <1>3 DEF ProcInv

\* ... so that no proxy of it is left that has not listened yet, unless it ended before
\* the proxy was in the job object.
LEMMA StartingEnds ==
  ASSUME TypeInv, ProcInv, StartingInv, SupervisorEnds, UNCHANGED <<serves, job>>,
         ~excused', at \in Installing
  PROVE  \A p \in Proxies : proxy'[p] # "starting"
<1> SUFFICES ASSUME NEW p \in Proxies, proxy'[p] = "starting"
             PROVE  FALSE
  OBVIOUS
<1>1. proxy[p] = "starting" /\ p \notin job /\ ~excused /\ sup # "assign"
  BY EndsProc
<1>2. p = child
  BY <1>1 DEF StartingInv
<1>3. sup = "wait"
  BY <1>1, <1>2, ServiceAssumption DEF TypeInv, TypeOK, ProcessTypes
<1>4. QED
  BY <1>1, <1>2, <1>3 DEF ProcInv, ChildInv

\* A proxy's exit breaks nothing that is said of the others.
LEMMA ExitProc ==
  ASSUME TypeInv, ProcInv, NEW p \in Proxies, Exit(p), UNCHANGED <<supVars>>
  PROVE  /\ ProcInv'
         /\ \A q \in Proxies : proxy'[q] # "gone" => proxy'[q] = proxy[q] /\ serves'[q] = serves[q]
<1> USE DEF Exit, supVars, TypeInv, TypeOK, ProcessTypes
<1>1. \A q \in Proxies : proxy'[q] # "gone" => q # p /\ proxy'[q] = proxy[q] /\ serves'[q] = serves[q]
  OBVIOUS
<1>2. SpecInv'
  BY DEF ProcInv, SpecInv
<1>3. ChildInv'
  BY <1>1 DEF ProcInv, ChildInv
<1>4. JobInv'
  BY DEF ProcInv, JobInv
<1>5. ServesInv'
  BY <1>1 DEF ProcInv, ServesInv
<1>6. QED
  BY <1>1, <1>2, <1>3, <1>4, <1>5 DEF ProcInv

\* The processes stay as ProcInv says.
LEMMA WorldProc ==
  ASSUME TypeInv, ProcInv, World
  PROVE  ProcInv'
<1> USE DEF TypeInv, TypeOK, ProcessTypes, TaskTypes, supVars, proxyVars
<1>1. CASE Logon
  BY <1>1 DEF Logon, ProcInv, SpecInv, ChildInv, JobInv, ServesInv
<1>2. CASE ReadSpec
  BY <1>2 DEF ReadSpec, ProcInv, SpecInv, ChildInv, JobInv, ServesInv
<1>3. CASE OpenLogs
  BY <1>3 DEF OpenLogs, ProcInv, SpecInv, ChildInv, JobInv, ServesInv
<1>4. CASE Launch
  <2>1. SpecInv'
    BY <1>4 DEF Launch, ProcInv, SpecInv
  <2>2. ChildInv'
    BY <1>4, ServiceAssumption DEF Launch, ProcInv, ChildInv, JobInv, Alive
  <2>3. JobInv'
    BY <1>4 DEF Launch, ProcInv, JobInv, Alive
  <2>4. ServesInv'
    BY <1>4 DEF Launch, ProcInv, SpecInv, ServesInv, Alive
  <2>5. QED
    BY <2>1, <2>2, <2>3, <2>4 DEF ProcInv
<1>5. CASE Assign
  <2>1. child \in Proxies /\ child \notin job
    BY <1>5, ServiceAssumption DEF Assign, ProcInv, ChildInv
  <2>2. SpecInv'
    BY <1>5 DEF Assign, ProcInv, SpecInv
  <2>3. ChildInv'
    BY <1>5 DEF Assign, ProcInv, ChildInv
  <2>4. JobInv'
    BY <1>5, <2>1 DEF Assign, ProcInv, JobInv
  <2>5. ServesInv'
    BY <1>5, <2>1 DEF Assign, ProcInv, ServesInv
  <2>6. QED
    BY <2>2, <2>3, <2>4, <2>5 DEF ProcInv
<1>6. CASE Await
  BY <1>6 DEF Await, ProcInv, SpecInv, ChildInv, JobInv, ServesInv
<1>7. CASE Sleep
  BY <1>7 DEF Sleep, ProcInv, SpecInv, ChildInv, JobInv, ServesInv
<1>8. CASE SupervisorCrash
  BY <1>8, EndsProc DEF SupervisorCrash
<1>9. CASE OtherProgram
  BY <1>9 DEF OtherProgram, ProcInv, SpecInv, ChildInv, JobInv, ServesInv
<1>10. ASSUME NEW p \in Proxies, Bind(p), ~Exit(p)
       PROVE  ProcInv'
  <2>1. SpecInv'
    BY <1>10 DEF Bind, ProcInv, SpecInv
  <2>2. ChildInv'
    BY <1>10 DEF Bind, ProcInv, ChildInv
  <2>3. JobInv'
    BY <1>10 DEF Bind, ProcInv, JobInv
  <2>4. ServesInv'
    BY <1>10 DEF Bind, ProcInv, ServesInv
  <2>5. QED
    BY <2>1, <2>2, <2>3, <2>4 DEF ProcInv
<1>11. ASSUME NEW p \in Proxies, Bind(p) \/ Vanish(p) \/ ProxyCrash(p), Exit(p)
       PROVE  ProcInv'
  BY <1>11, ExitProc DEF Bind, Vanish, ProxyCrash
<1>12. ASSUME NEW p \in Proxies, Vanish(p) \/ ProxyCrash(p)
       PROVE  Exit(p)
  BY <1>12 DEF Vanish, ProxyCrash
<1>13. QED
  BY <1>1, <1>2, <1>3, <1>4, <1>5, <1>6, <1>7, <1>8, <1>9, <1>10, <1>11, <1>12 DEF World, Supervisor

\* A command starts the supervisor or ends it; the rest happens by itself.
LEMMA CommandProc ==
  ASSUME TypeInv, ProcInv,
         (\E s \in Specs : StartInstall(s)) \/ StartUninstall \/ Command \/ Abort
  PROVE  ProcInv'
<1> DEFINE Same == UNCHANGED <<supVars, proxyVars>>
<1>1. Same => ProcInv'
  BY DEF supVars, proxyVars, ProcInv, SpecInv, ChildInv, JobInv, ServesInv
<1>2. ASSUME EndTask("closing") \/ EndTask("drain")
      PROVE  ProcInv'
  BY <1>1, <1>2, EndsProc DEF EndTask, worldVars, proxyVars
<1>3. CASE Start
  BY <1>3 DEF Start, worldVars, ProcInv, SpecInv, ChildInv, JobInv, ServesInv
<1>4. CASE (\E s \in Specs : StartInstall(s)) \/ StartUninstall \/ Abort \/ CheckArguments
             \/ WriteConfig
  BY <1>1, <1>4 DEF StartInstall, StartUninstall, Abort, CheckArguments, WriteConfig, Elsewhere,
                    worldVars, proxyVars
<1>5. CASE PortOfOldCloses \/ Register \/ PortOpens \/ RemoveWrapper
  BY <1>1, <1>5 DEF PortOfOldCloses, PortCloses, Register, PortOpens, RemoveWrapper, Elsewhere,
                    worldVars, proxyVars
<1>6. CASE ReadConfig \/ Drain \/ Unregister \/ RemoveFiles
  BY <1>1, <1>6 DEF ReadConfig, Drain, PortCloses, Unregister, RemoveFiles, Elsewhere, worldVars,
                    proxyVars
<1>7. QED
  BY <1>2, <1>3, <1>4, <1>5, <1>6 DEF Command, EndOld, Stop

\* What comes in between is seen or excused.
LEMMA WorldTruth ==
  ASSUME SafeInv, ProcInv, TruthInv, World
  PROVE  TruthInv'
<1> USE DEF SafeInv, TypeInv, TypeOK, ProcessTypes
<1>1. UNCHANGED <<task, config, wrapper, cmdVars>>
  BY WorldFrame
<1>2. /\ at' = at /\ want' = want /\ answered' = answered /\ result' = result /\ task' = task
      /\ config' = config
  BY <1>1 DEF cmdVars
<1>3. ~excused' => ~excused
  BY DEF World, Logon, Supervisor, ReadSpec, OpenLogs, Launch, Assign, Await, Sleep,
         SupervisorCrash, SupervisorEnds, OtherProgram, Bind, Vanish, ProxyCrash
<1>4. AnswerInv' /\ InstallTruthful'
  BY <1>2, <1>3 DEF TruthInv, AnswerInv, InstallTruthful
<1>5. ASSUME ~excused', at \in {"register", "start", "opening"}
      PROVE  PortOf[want] \notin foreign'
  BY <1>3, <1>5 DEF TruthInv, PortInv, World, Logon, Supervisor, ReadSpec, OpenLogs, Launch, Assign,
                    Await, Sleep, SupervisorCrash, OtherProgram, Bind, Vanish, ProxyCrash
<1>6. ASSUME supVars' = supVars \/ sup' \in {"none", "begin"}
      PROVE  NewSpecInv'
  BY <1>2, <1>3, <1>6 DEF TruthInv, NewSpecInv, supVars
<1>7. ASSUME \A p \in Proxies :
               /\ proxy'[p] = "starting" => proxy[p] = "starting" /\ (p = child => p = child')
               /\ proxy'[p] = "listening" => proxy[p] = "listening" /\ serves'[p] = serves[p]
      PROVE  StartingInv' /\ PortInv'
  <2>1. StartingInv'
    BY <1>2, <1>3, <1>7 DEF TruthInv, StartingInv
  <2>2. PortInv'
    BY <1>2, <1>3, <1>5, <1>7 DEF TruthInv, PortInv
  <2>3. QED
    BY <2>1, <2>2
<1>8. CASE Logon
  BY <1>4, <1>6, <1>7, <1>8 DEF Logon, proxyVars, TruthInv
<1>9. CASE ReadSpec
  <2>1. NewSpecInv'
    BY <1>2, <1>3, <1>9 DEF ReadSpec, NewSpecInv, FileInv, Installing
  <2>2. QED
    BY <1>4, <1>7, <1>9, <2>1 DEF ReadSpec, proxyVars, TruthInv
<1>10. CASE OpenLogs \/ Sleep
  <2>1. NewSpecInv'
    BY <1>2, <1>3, <1>10 DEF OpenLogs, Sleep, TruthInv, NewSpecInv
  <2>2. QED
    BY <1>4, <1>7, <1>10, <2>1 DEF OpenLogs, Sleep, proxyVars, TruthInv
<1>11. CASE Launch
  <2>1. NewSpecInv'
    BY <1>2, <1>3, <1>11 DEF Launch, TruthInv, NewSpecInv
  <2>2. StartingInv'
    BY <1>2, <1>3, <1>11, ServiceAssumption DEF Launch, TruthInv, StartingInv
  <2>3. PortInv'
    BY <1>2, <1>3, <1>5, <1>11 DEF Launch, TruthInv, PortInv, Alive
  <2>4. QED
    BY <1>4, <2>1, <2>2, <2>3 DEF TruthInv
<1>12. CASE Assign
  <2>1. NewSpecInv'
    BY <1>2, <1>3, <1>12 DEF Assign, TruthInv, NewSpecInv
  <2>2. \A p \in Proxies :
          /\ proxy'[p] = "starting" => proxy[p] = "starting" /\ (p = child => p = child')
          /\ proxy'[p] = "listening" => proxy[p] = "listening" /\ serves'[p] = serves[p]
    BY <1>12 DEF Assign
  <2>3. QED
    BY <1>4, <1>7, <2>1, <2>2 DEF TruthInv
<1>13. CASE Await
  <2>1. NewSpecInv'
    BY <1>2, <1>3, <1>13 DEF Await, TruthInv, NewSpecInv
  <2>2. QED
    BY <1>4, <1>7, <1>13, <2>1 DEF Await, proxyVars, TruthInv
<1>14. CASE SupervisorCrash
  <2>1. /\ \A p \in Proxies : /\ proxy'[p] = "starting" => proxy[p] = "starting" /\ p \notin job
                              /\ proxy'[p] = "listening" => proxy[p] = "listening"
        /\ sup' = "none" /\ (~excused' => ~excused /\ sup # "assign") /\ serves' = serves
    BY <1>14, EndsProc DEF SupervisorCrash
  <2>2. StartingInv'
    <3>1. ASSUME ~excused', at \in Installing
          PROVE  \A p \in Proxies : proxy'[p] # "starting"
      BY <1>14, <3>1, StartingEnds DEF SupervisorCrash, TruthInv
    <3>2. QED
      BY <1>2, <3>1 DEF StartingInv
  <2>3. PortInv'
    BY <1>2, <1>5, <2>1 DEF TruthInv, PortInv
  <2>4. QED
    BY <1>4, <1>6, <2>1, <2>2, <2>3 DEF TruthInv
<1>15. CASE OtherProgram
  BY <1>4, <1>6, <1>7, <1>15 DEF OtherProgram, supVars, proxyVars, TruthInv
<1>16. ASSUME NEW p \in Proxies, Bind(p), ~Exit(p)
       PROVE  TruthInv'
  <2>1. StartingInv'
    BY <1>2, <1>3, <1>16 DEF Bind, supVars, TruthInv, StartingInv
  <2>2. PortInv'
    <3>1. ASSUME ~excused', at \in {"register", "start", "opening"}
          PROVE  serves[p] = want
      <4>1. p = child /\ proxy[p] = "starting"
        BY <1>3, <1>16, <3>1 DEF Bind, TruthInv, StartingInv, Installing
      <4>2. sup \in {"assign", "wait"}
        BY <4>1, ServiceAssumption
      <4>3. serves[p] = spec
        BY <4>1, <4>2 DEF ProcInv, ChildInv
      <4>4. QED
        BY <1>3, <3>1, <4>2, <4>3 DEF TruthInv, NewSpecInv
    <3>2. serves' = serves /\ \A q \in Proxies : q # p => proxy'[q] = proxy[q]
      BY <1>16 DEF Bind
    <3>3. QED
      BY <1>2, <1>3, <1>5, <3>1, <3>2 DEF TruthInv, PortInv
  <2>3. QED
    BY <1>4, <1>6, <1>16, <2>1, <2>2 DEF Bind, TruthInv
<1>17. ASSUME NEW p \in Proxies, Bind(p) \/ Vanish(p) \/ ProxyCrash(p), Exit(p)
       PROVE  TruthInv'
  <2>1. supVars' = supVars
    BY <1>17 DEF Bind, Vanish, ProxyCrash
  <2>2. \A q \in Proxies : proxy'[q] # "gone" => proxy'[q] = proxy[q] /\ serves'[q] = serves[q]
    BY <1>17, <2>1, ExitProc
  <2>3. QED
    BY <1>4, <1>6, <1>7, <2>1, <2>2 DEF supVars, TruthInv
<1>18. ASSUME NEW p \in Proxies, Vanish(p) \/ ProxyCrash(p)
       PROVE  Exit(p)
  BY <1>18 DEF Vanish, ProxyCrash
<1>19. QED
  BY <1>8, <1>9, <1>10, <1>11, <1>12, <1>13, <1>14, <1>15, <1>16, <1>17, <1>18 DEF World, Supervisor

\* An install reports success only with its own answer; it waits for the port after the
\* old task has ended and before the new one starts.
LEMMA CommandTruth ==
  ASSUME SafeInv, ProcInv, TruthInv,
         (\E s \in Specs : StartInstall(s)) \/ StartUninstall \/ Command \/ Abort
  PROVE  TruthInv'
<1> USE DEF SafeInv, TypeInv, TypeOK, ProcessTypes, CommandTypes
<1> DEFINE Same == UNCHANGED <<supVars, proxyVars, foreign, excused>>
<1>1. ASSUME Same, at \in Installing
      PROVE  StartingInv'
  BY <1>1 DEF supVars, proxyVars, TruthInv, StartingInv
<1>2. ASSUME at' \notin Installing, result' # "installed"
      PROVE  TruthInv'
  BY <1>2 DEF TruthInv, StartingInv, NewSpecInv, PortInv, AnswerInv, InstallTruthful, Installing
<1>3. result' = "none" => InstallTruthful'
  BY DEF InstallTruthful
<1>4. at # "idle" => result = "none"
  BY DEF RemoveInv, ReportInv
<1>5. ASSUME NEW s \in Specs, StartInstall(s)
      PROVE  TruthInv'
  <2>1. StartingInv'
    BY <1>5 DEF StartInstall, worldVars, supVars, StartingInv, Orphans, Alive, ProcInv, JobInv
  <2>2. QED
    BY <1>3, <1>5, <2>1 DEF StartInstall, TruthInv, NewSpecInv, PortInv, AnswerInv
<1>6. CASE StartUninstall \/ Abort \/ ReadConfig \/ Stop
  BY <1>2, <1>4, <1>6 DEF StartUninstall, Abort, ReadConfig, Stop, EndTask, Raise, Done, Installing
<1>7. CASE Drain \/ Unregister \/ RemoveFiles
  BY <1>2, <1>4, <1>7 DEF Drain, PortCloses, Unregister, RemoveFiles, Raise, Done, Go, Installing
<1>8. CASE CheckArguments \/ WriteConfig
  <2>1. CASE at' = "idle"
    BY <1>2, <1>8, <2>1 DEF CheckArguments, WriteConfig, Raise, Done, Go, Installing
  <2>2. CASE at' # "idle"
    <3>1. Same /\ at \in {"check", "write"} /\ at' \in {"write", "end"} /\ result' = result
      BY <1>8, <2>2 DEF CheckArguments, WriteConfig, Elsewhere, worldVars, proxyVars, Raise, Done, Go
    <3>2. StartingInv'
      BY <1>1, <3>1 DEF Installing
    <3>3. QED
      BY <1>3, <1>4, <3>1, <3>2 DEF TruthInv, NewSpecInv, PortInv, AnswerInv
  <2>3. QED
    BY <2>1, <2>2
<1>9. CASE EndOld
  <2>1. at = "end" /\ at' = "closing" /\ want' = want /\ result' = result /\ UNCHANGED <<serves, job>>
    BY <1>9 DEF EndOld, EndTask, worldVars
  <2>2. CASE SupervisorEnds
    <3>1. sup' = "none"
      BY <2>2 DEF SupervisorEnds
    <3>2. StartingInv'
      BY <2>1, <2>2, StartingEnds DEF TruthInv, StartingInv, Installing
    <3>3. QED
      BY <1>3, <1>4, <2>1, <3>1, <3>2 DEF TruthInv, NewSpecInv, PortInv, AnswerInv
  <2>3. CASE ~SupervisorEnds
    <3>1. /\ UNCHANGED <<supVars, proxyVars>>
          /\ ~excused' => ~excused /\ sup = "none"
      BY <1>9, <2>3 DEF EndOld, EndTask, worldVars, proxyVars
    <3>2. StartingInv'
      BY <2>1, <3>1 DEF TruthInv, StartingInv, Installing, supVars, proxyVars
    <3>3. QED
      BY <1>3, <1>4, <2>1, <3>1, <3>2 DEF TruthInv, NewSpecInv, PortInv, AnswerInv, supVars
  <2>4. QED
    BY <2>2, <2>3
<1>10. CASE PortOfOldCloses
  <2>1. CASE at' = "idle"
    BY <1>2, <1>10, <2>1 DEF PortOfOldCloses, PortCloses, Raise, Done, Go, Installing
  <2>2. CASE at' # "idle"
    <3>1. /\ Same /\ at = "closing" /\ at' = "register" /\ want' = want /\ result' = result
          /\ Free(PortOf[want])
      BY <1>10, <2>2 DEF PortOfOldCloses, PortCloses, worldVars, proxyVars, Raise, Done, Go
    <3>2. StartingInv'
      BY <1>1, <3>1 DEF Installing
    <3>3. NewSpecInv'
      BY <3>1 DEF TruthInv, NewSpecInv, supVars
    <3>4. PortInv'
      BY <3>1 DEF Free, Listeners, Alive, PortInv, proxyVars
    <3>5. QED
      BY <1>3, <1>4, <3>1, <3>2, <3>3, <3>4 DEF TruthInv, AnswerInv
  <2>3. QED
    BY <2>1, <2>2
<1>11. CASE Register
  <2>1. Same /\ at = "register" /\ at' = "start" /\ want' = want /\ result' = result
    BY <1>11 DEF Register, Elsewhere, worldVars, proxyVars, Go
  <2>2. StartingInv'
    BY <1>1, <2>1 DEF Installing
  <2>3. NewSpecInv' /\ PortInv'
    BY <2>1 DEF TruthInv, NewSpecInv, PortInv, supVars, proxyVars
  <2>4. QED
    BY <1>3, <1>4, <2>1, <2>2, <2>3 DEF TruthInv, AnswerInv
<1>12. CASE Start
  <2>1. /\ UNCHANGED <<proxyVars, foreign, excused, spec, child>>
        /\ at = "start" /\ at' = "opening" /\ want' = want /\ result' = result
        /\ sup' = sup \/ sup' = "begin"
    BY <1>12 DEF Start, worldVars, proxyVars, Go
  <2>2. StartingInv'
    BY <2>1 DEF TruthInv, StartingInv, Installing, proxyVars
  <2>3. NewSpecInv' /\ PortInv'
    BY <2>1 DEF TruthInv, NewSpecInv, PortInv, proxyVars
  <2>4. QED
    BY <1>3, <1>4, <2>1, <2>2, <2>3 DEF TruthInv, AnswerInv
<1>13. CASE PortOpens
  <2>1. CASE at' = "idle"
    BY <1>2, <1>13, <2>1 DEF PortOpens, Raise, Done, Installing
  <2>2. CASE at' # "idle"
    <3>1. Same /\ at = "opening" /\ at' = "unlink" /\ want' = want /\ result' = result
      BY <1>13, <2>2 DEF PortOpens, Elsewhere, worldVars, proxyVars, Raise, Done
    <3>2. StartingInv'
      BY <1>1, <3>1 DEF Installing
    <3>3. AnswerInv'
      <4>1. \/ PortOf[want] \in foreign
            \/ \E p \in Proxies : /\ proxy[p] = "listening" /\ PortOf[serves[p]] = PortOf[want]
                                  /\ answered' = serves[p]
        BY <1>13, <2>2 DEF PortOpens, Listeners, Alive, Raise, Done
      <4>2. QED
        BY <3>1, <4>1 DEF TruthInv, PortInv, AnswerInv
    <3>4. QED
      BY <1>3, <1>4, <3>1, <3>2, <3>3 DEF TruthInv, NewSpecInv, PortInv
  <2>3. QED
    BY <2>1, <2>2
<1>14. CASE RemoveWrapper
  <2>1. /\ at = "unlink" /\ at' = "idle" /\ UNCHANGED <<want, answered, task, excused>>
    BY <1>14 DEF RemoveWrapper, Elsewhere, Done
  <2>2. InstallTruthful'
    BY <2>1 DEF InstallTruthful, TruthInv, AnswerInv, FileInv
  <2>3. QED
    BY <2>1, <2>2 DEF TruthInv, StartingInv, NewSpecInv, PortInv, AnswerInv, Installing
<1>15. QED
  BY <1>5, <1>6, <1>7, <1>8, <1>9, <1>10, <1>11, <1>12, <1>13, <1>14 DEF Command

\* Before any command nothing was reported.
LEMMA InitTruth == Init => ProcInv /\ TruthInv
  BY DEF Init, ProcInv, SpecInv, ChildInv, JobInv, ServesInv, TruthInv, StartingInv, NewSpecInv,
         PortInv, AnswerInv, InstallTruthful, Installing

\* Every step keeps reports true.
LEMMA StepTruth == SafeInv /\ ProcInv /\ TruthInv /\ [Next]_vars => ProcInv' /\ TruthInv'
<1> SUFFICES ASSUME SafeInv, ProcInv, TruthInv, [Next]_vars
             PROVE  ProcInv' /\ TruthInv'
  OBVIOUS
<1>1. TypeInv
  BY DEF SafeInv
<1>2. CASE World
  BY <1>1, <1>2, WorldProc, WorldTruth
<1>3. CASE (\E s \in Specs : StartInstall(s)) \/ StartUninstall \/ Command \/ Abort
  BY <1>1, <1>3, CommandProc, CommandTruth
<1>4. CASE UNCHANGED vars
  BY <1>4 DEF vars, taskVars, supVars, proxyVars, cmdVars, ProcInv, SpecInv, ChildInv, JobInv,
              ServesInv, TruthInv, StartingInv, NewSpecInv, PortInv, AnswerInv, InstallTruthful
<1>5. QED
  BY <1>2, <1>3, <1>4 DEF Next, World

\* When install reports success, its own configuration answers on the port, unless
\* something came in between that it cannot see.
THEOREM InstallReportsTruth == Spec => []InstallTruthful
<1>1. TruthInv => InstallTruthful
  BY DEF TruthInv
<1>2. QED
  BY <1>1, InitTruth, StepTruth, Safe, PTL DEF Spec
=============================================================================
