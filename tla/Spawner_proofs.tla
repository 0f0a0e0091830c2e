--------------------------- MODULE Spawner_proofs ---------------------------
(***************************************************************************)
(* Proofs about Spawner, for any number of hosts, threads and processes.   *)
(***************************************************************************)
EXTENDS Spawner, TLAPS

\* A thread past a spawn has a child, past a look-up a process to work on.
PcInv ==
  /\ \A t \in Openers :
       /\ pc[t] \in {"await", "reap", "record"} => child[t] \in Idas
       /\ pc[t] = "record" => target[t] \in Idas
  /\ \A c \in Closers : pc[c] \notin {"idle", "get", "done", "dead"} => target[c] \in Idas

\* An open fails with no child, or with one that has been waited for.
FailInv ==
  \A t \in Openers :
    /\ pc[t] \in {"idle", "lock", "get", "spawn"} => child[t] = None
    /\ pc[t] \notin {"done", "dead"} => outcome[t] = "none"
    /\ outcome[t] = "failed" /\ child[t] # None => ida[child[t]] = "gone"

\* Past the lock, one has it.
LockInv == \A t \in Openers : Spawning(t) => lock[HostOf[t]] = t

\* The sidecar is of a process that has published it.
SideInv == sidecar # None => ida[sidecar] \notin {"unused", "booting"}

\* Every process has been spawned by an open, and a child is one.
ParentInv ==
  /\ \A p \in Idas : ida[p] # "unused" => \E t \in Openers : parent[p] = HostOf[t]
  /\ \A t \in Openers : child[t] # None => ida[child[t]] # "unused"

\* The threads of a host that is down are gone.
DownInv == \A t \in Threads : ~up[HostOf[t]] => pc[t] \in {"done", "dead"}

IInv ==
  /\ TypeOK /\ PcInv /\ FailInv /\ LockInv /\ SideInv /\ ParentInv /\ DownInv
  /\ KillSwitchOwned

-----------------------------------------------------------------------------
(* With one proxy a child's sidecar is the only one there can be.          *)

\* As in the run spawner.
OneProxyOpens == \A s, t \in Openers : HostOf[s] = HostOf[t]

\* A process that is booting has a thread that waits for it.
BootInv ==
  \A p \in Idas : ida[p] = "booting" /\ up[parent[p]] =>
    \E t \in Openers : child[t] = p /\ pc[t] \in {"await", "reap"}

\* Between the check and the spawn there is no session, after it the child's at most.
OwnInv ==
  \A t \in Openers :
    /\ pc[t] = "spawn" => SessionGet = None
    /\ pc[t] = "await" => SessionGet \in {None, child[t]}
    /\ pc[t] = "record" => target[t] = child[t]

OneInv == BootInv /\ OwnInv /\ HandlesMatch

-----------------------------------------------------------------------------
\* A call of open begins.
LEMMA OpenCallStep ==
  ASSUME IInv, NEW t \in Openers, OpenCall(t)
  PROVE  IInv'
  <1> USE SpawnerAssumption DEF Threads, Hosts
  <1>1. TypeOK'
    BY DEF IInv, TypeOK, OpenerPcs, OpenCall, Goto, hostVars, idaVars, callVars
  <1>2. PcInv'
    BY DEF IInv, PcInv, OpenCall, Goto, callVars
  <1>3. FailInv'
    BY DEF IInv, FailInv, OpenCall, At, Goto, idaVars, callVars
  <1>4. LockInv'
    BY DEF IInv, LockInv, Spawning, OpenCall, Goto
  <1>5. SideInv'
    BY DEF IInv, SideInv, OpenCall, idaVars
  <1>6. ParentInv'
    BY DEF IInv, ParentInv, OpenCall, idaVars, callVars
  <1>7. DownInv'
    BY DEF IInv, DownInv, OpenCall, At, Goto, hostVars
  <1>8. KillSwitchOwned'
    BY DEF IInv, KillSwitchOwned, OpenCall, Goto
  <1> QED
    BY <1>1, <1>2, <1>3, <1>4, <1>5, <1>6, <1>7, <1>8 DEF IInv

\* One thread of a host passes the lock.
LEMMA OpenLockStep ==
  ASSUME IInv, NEW t \in Openers, OpenLock(t)
  PROVE  IInv'
  <1> USE SpawnerAssumption DEF Threads, Hosts
  <1>1. TypeOK'
    BY DEF IInv, TypeOK, OpenerPcs, OpenLock, Goto, hostVars, idaVars, callVars
  <1>2. PcInv'
    BY DEF IInv, PcInv, OpenLock, Goto, callVars
  <1>3. FailInv'
    BY DEF IInv, FailInv, OpenLock, At, Goto, idaVars, callVars
  <1>4. LockInv'
    BY DEF IInv, TypeOK, LockInv, Spawning, OpenLock, Goto
  <1>5. SideInv'
    BY DEF IInv, SideInv, OpenLock, idaVars
  <1>6. ParentInv'
    BY DEF IInv, ParentInv, OpenLock, idaVars, callVars
  <1>7. DownInv'
    BY DEF IInv, DownInv, OpenLock, At, Goto, hostVars
  <1>8. KillSwitchOwned'
    BY DEF IInv, KillSwitchOwned, OpenLock, Goto
  <1> QED
    BY <1>1, <1>2, <1>3, <1>4, <1>5, <1>6, <1>7, <1>8 DEF IInv

\* The check for a live session; an open that ends here gives its own lock back.
LEMMA OpenGetStep ==
  ASSUME IInv, NEW t \in Openers, OpenGet(t)
  PROVE  IInv'
  <1> USE SpawnerAssumption DEF Threads, Hosts
  <1>1. TypeOK'
    <2>1. SessionGet \in Idas \cup {None} /\ sidecar' = SessionGet
      BY DEF OpenGet, CollectSidecar, SessionGet, IInv, TypeOK
    <2>2. /\ pc' \in {[pc EXCEPT ![t] = "done"], [pc EXCEPT ![t] = "spawn"]}
          /\ lock' \in {lock, [lock EXCEPT ![HostOf[t]] = None]}
      BY DEF OpenGet, OpenDone, Goto
    <2>3. /\ target' \in {target, [target EXCEPT ![t] = SessionGet]}
          /\ outcome' \in {outcome, [outcome EXCEPT ![t] = "refused"], [outcome EXCEPT ![t] = "reused"]}
      BY DEF OpenGet, OpenDone
    <2>4. pc' \in [Threads -> OpenerPcs \cup CloserPcs] /\ lock' \in [Hosts -> Openers \cup {None}]
      BY <2>2 DEF IInv, TypeOK, OpenerPcs
    <2>5. target' \in [Threads -> Idas \cup {None}] /\ outcome' \in [Threads -> Outcomes]
      BY <2>1, <2>3 DEF IInv, TypeOK, Outcomes
    <2>6. /\ \A s \in Openers : pc'[s] \in OpenerPcs
          /\ \A s \in Closers : pc'[s] \in CloserPcs
      BY <2>2 DEF IInv, TypeOK, OpenerPcs
    <2> QED
      BY <2>1, <2>4, <2>5, <2>6 DEF OpenGet, hostVars, idaVars, IInv, TypeOK
  <1>2. PcInv'
    BY DEF IInv, TypeOK, PcInv, OpenGet, At, Goto, hostVars, idaVars, callVars, OpenDone,
       CollectSidecar, SessionGet
  <1>3. FailInv'
    BY DEF IInv, TypeOK, PcInv, FailInv, OpenGet, At, Goto, hostVars, idaVars, callVars,
       OpenDone, CollectSidecar, SessionGet
  <1>4. LockInv'
    <2>1. \/ pc' = [pc EXCEPT ![t] = "done"] /\ lock' = [lock EXCEPT ![HostOf[t]] = None]
          \/ pc' = [pc EXCEPT ![t] = "spawn"] /\ lock' = lock
      BY DEF OpenGet, OpenDone, Goto
    <2>2. lock[HostOf[t]] = t
      BY DEF OpenGet, At, IInv, LockInv, Spawning
    <2> QED
      BY <2>1, <2>2 DEF IInv, TypeOK, LockInv, Spawning
  <1>5. SideInv'
    BY DEF IInv, SideInv, OpenGet, idaVars, CollectSidecar, SessionGet
  <1>6. ParentInv'
    BY DEF IInv, ParentInv, OpenGet, idaVars
  <1>7. DownInv'
    BY DEF IInv, TypeOK, DownInv, OpenGet, At, Goto, hostVars, idaVars, callVars, OpenDone,
       CollectSidecar, SessionGet
  <1>8. KillSwitchOwned'
    BY DEF IInv, TypeOK, KillSwitchOwned, OpenGet, At, Goto, hostVars, idaVars, callVars,
       OpenDone, CollectSidecar, SessionGet
  <1> QED
    BY <1>1, <1>2, <1>3, <1>4, <1>5, <1>6, <1>7, <1>8 DEF IInv

\* The child was no process before, and its parent is the host.
LEMMA OpenSpawnStep ==
  ASSUME IInv, NEW t \in Openers, OpenSpawn(t)
  PROVE  IInv'
  <1> USE SpawnerAssumption DEF Threads, Hosts
  <1>1. TypeOK'
    BY DEF IInv, TypeOK, PcInv, IdaStates, OpenerPcs, Outcomes, OpenSpawn, Goto, hostVars,
       idaVars, OpenDone
  <1>2. PcInv'
    BY DEF IInv, TypeOK, PcInv, OpenSpawn, Goto, OpenDone
  <1>3. FailInv'
    BY DEF IInv, TypeOK, FailInv, OpenSpawn, At, Goto, idaVars, OpenDone
  <1>4. LockInv'
    BY DEF IInv, TypeOK, LockInv, Spawning, OpenSpawn, At, Goto, OpenDone
  <1>5. SideInv'
    BY DEF IInv, TypeOK, SideInv, OpenSpawn, idaVars
  <1>6. ParentInv'
    BY DEF IInv, TypeOK, ParentInv, OpenSpawn, idaVars
  <1>7. DownInv'
    BY DEF IInv, TypeOK, DownInv, OpenSpawn, At, Goto, hostVars, OpenDone
  <1>8. KillSwitchOwned'
    BY DEF IInv, TypeOK, KillSwitchOwned, OpenSpawn, Goto, OpenDone
  <1> QED
    BY <1>1, <1>2, <1>3, <1>4, <1>5, <1>6, <1>7, <1>8 DEF IInv

\* What is found is an IDA process; a child that has exited is waited for.
LEMMA OpenAwaitStep ==
  ASSUME IInv, NEW t \in Openers, OpenAwait(t)
  PROVE  IInv'
  <1> USE SpawnerAssumption DEF Threads, Hosts
  <1>1. TypeOK'
    BY DEF IInv, TypeOK, IdaStates, OpenerPcs, OpenAwait, Goto, hostVars, SessionGet,
       CollectSidecar
  <1>2. PcInv'
    BY DEF IInv, TypeOK, PcInv, OpenAwait, At, Goto, SessionGet
  <1>3. FailInv'
    BY DEF IInv, TypeOK, FailInv, OpenAwait, At, Goto
  <1>4. LockInv'
    BY DEF IInv, TypeOK, LockInv, Spawning, OpenAwait, At, Goto
  <1>5. SideInv'
    BY DEF IInv, SideInv, OpenAwait, CollectSidecar
  <1>6. ParentInv'
    BY DEF IInv, TypeOK, ParentInv, OpenAwait
  <1>7. DownInv'
    BY DEF IInv, TypeOK, DownInv, OpenAwait, At, Goto, hostVars
  <1>8. KillSwitchOwned'
    BY DEF IInv, TypeOK, KillSwitchOwned, OpenAwait, Goto
  <1> QED
    BY <1>1, <1>2, <1>3, <1>4, <1>5, <1>6, <1>7, <1>8 DEF IInv

\* The child of an open that fails is waited for.
LEMMA OpenReapStep ==
  ASSUME IInv, NEW t \in Openers, OpenReap(t)
  PROVE  IInv'
  <1> USE SpawnerAssumption DEF Threads, Hosts
  <1>1. TypeOK'
    BY DEF IInv, TypeOK, PcInv, IdaStates, OpenerPcs, Outcomes, OpenReap, At, Goto, hostVars,
       OpenDone
  <1>2. PcInv'
    BY DEF IInv, PcInv, OpenReap, Goto, OpenDone
  <1>3. FailInv'
    BY DEF IInv, TypeOK, FailInv, OpenReap, Goto, OpenDone
  <1>4. LockInv'
    BY DEF IInv, TypeOK, LockInv, Spawning, OpenReap, At, Goto, OpenDone
  <1>5. SideInv'
    BY DEF IInv, SideInv, OpenReap
  <1>6. ParentInv'
    BY DEF IInv, ParentInv, OpenReap
  <1>7. DownInv'
    BY DEF IInv, DownInv, OpenReap, Goto, hostVars, OpenDone
  <1>8. KillSwitchOwned'
    BY DEF IInv, KillSwitchOwned, OpenReap, Goto, OpenDone
  <1> QED
    BY <1>1, <1>2, <1>3, <1>4, <1>5, <1>6, <1>7, <1>8 DEF IInv

\* The handle is of two processes that there are.
LEMMA OpenRecordStep ==
  ASSUME IInv, NEW t \in Openers, OpenRecord(t)
  PROVE  IInv'
  <1> USE SpawnerAssumption DEF Threads, Hosts
  <1>1. TypeOK'
    BY DEF IInv, TypeOK, PcInv, OpenerPcs, Outcomes, OpenRecord, At, Goto, hostVars, idaVars,
       OpenDone
  <1>2. PcInv'
    BY DEF IInv, PcInv, OpenRecord, Goto, OpenDone
  <1>3. FailInv'
    BY DEF IInv, TypeOK, FailInv, OpenRecord, Goto, idaVars, OpenDone
  <1>4. LockInv'
    BY DEF IInv, TypeOK, LockInv, Spawning, OpenRecord, At, Goto, OpenDone
  <1>5. SideInv'
    BY DEF IInv, SideInv, OpenRecord, idaVars
  <1>6. ParentInv'
    BY DEF IInv, ParentInv, OpenRecord, idaVars
  <1>7. DownInv'
    BY DEF IInv, DownInv, OpenRecord, Goto, hostVars, OpenDone
  <1>8. KillSwitchOwned'
    BY DEF IInv, KillSwitchOwned, OpenRecord, Goto, OpenDone
  <1> QED
    BY <1>1, <1>2, <1>3, <1>4, <1>5, <1>6, <1>7, <1>8 DEF IInv

\* A call of close begins.
LEMMA CloseCallStep ==
  ASSUME IInv, NEW c \in Closers, CloseCall(c)
  PROVE  IInv'
  <1> USE SpawnerAssumption DEF Threads, Hosts
  <1>1. TypeOK'
    BY DEF IInv, TypeOK, CloserPcs, CloseCall, Goto, hostVars, idaVars, callVars
  <1>2. PcInv'
    BY DEF IInv, PcInv, CloseCall, Goto, callVars
  <1>3. FailInv'
    BY DEF IInv, FailInv, CloseCall, Goto, idaVars, callVars
  <1>4. LockInv'
    BY DEF IInv, LockInv, Spawning, CloseCall, Goto
  <1>5. SideInv'
    BY DEF IInv, SideInv, CloseCall, idaVars
  <1>6. ParentInv'
    BY DEF IInv, ParentInv, CloseCall, idaVars, callVars
  <1>7. DownInv'
    BY DEF IInv, DownInv, CloseCall, At, Goto, hostVars
  <1>8. KillSwitchOwned'
    BY DEF IInv, KillSwitchOwned, CloseCall, At, Goto
  <1> QED
    BY <1>1, <1>2, <1>3, <1>4, <1>5, <1>6, <1>7, <1>8 DEF IInv

\* close goes on with an IDA process only.
LEMMA CloseGetStep ==
  ASSUME IInv, NEW c \in Closers, CloseGet(c)
  PROVE  IInv'
  <1> USE SpawnerAssumption DEF Threads, Hosts
  <1>1. TypeOK'
    BY DEF IInv, TypeOK, CloserPcs, Outcomes, CloseGet, Goto, hostVars, idaVars, CloseDone,
       CollectSidecar, SessionGet
  <1>2. PcInv'
    BY DEF IInv, TypeOK, PcInv, CloseGet, Goto, CloseDone, SessionGet
  <1>3. FailInv'
    BY DEF IInv, TypeOK, FailInv, CloseGet, Goto, idaVars, CloseDone
  <1>4. LockInv'
    BY DEF IInv, TypeOK, LockInv, Spawning, CloseGet, Goto, CloseDone
  <1>5. SideInv'
    BY DEF IInv, SideInv, CloseGet, idaVars, CollectSidecar, SessionGet
  <1>6. ParentInv'
    BY DEF IInv, ParentInv, CloseGet, idaVars
  <1>7. DownInv'
    BY DEF IInv, TypeOK, DownInv, CloseGet, At, Goto, hostVars, CloseDone
  <1>8. KillSwitchOwned'
    BY DEF IInv, TypeOK, KillSwitchOwned, CloseGet, At, Goto, CloseDone
  <1> QED
    BY <1>1, <1>2, <1>3, <1>4, <1>5, <1>6, <1>7, <1>8 DEF IInv

\* The kill switch is the business of the close that asks for it.
LEMMA CloseRequestStep ==
  ASSUME IInv, NEW c \in Closers, CloseRequest(c)
  PROVE  IInv'
  <1> USE SpawnerAssumption DEF Threads, Hosts
  <1>1. TypeOK'
    BY DEF IInv, TypeOK, PcInv, IdaStates, OpenerPcs, CloserPcs, Outcomes, CloseRequest, At,
       Goto, hostVars, idaVars, callVars
  <1>2. PcInv'
    BY DEF IInv, PcInv, CloseRequest, At, Goto, callVars
  <1>3. FailInv'
    BY DEF IInv, FailInv, CloseRequest, Goto, idaVars, callVars
  <1>4. LockInv'
    BY DEF IInv, LockInv, Spawning, CloseRequest, Goto
  <1>5. SideInv'
    BY DEF IInv, SideInv, CloseRequest, idaVars
  <1>6. ParentInv'
    BY DEF IInv, ParentInv, CloseRequest, idaVars, callVars
  <1>7. DownInv'
    BY DEF IInv, DownInv, CloseRequest, At, Goto, hostVars
  <1>8. KillSwitchOwned'
    BY DEF IInv, TypeOK, KillSwitchOwned, CloseRequest, Goto
  <1> QED
    BY <1>1, <1>2, <1>3, <1>4, <1>5, <1>6, <1>7, <1>8 DEF IInv

\* A signal brings no process back.
LEMMA CloseSigtermStep ==
  ASSUME IInv, NEW c \in Closers, CloseSigterm(c)
  PROVE  IInv'
  <1> USE SpawnerAssumption DEF Threads, Hosts
  <1>1. TypeOK'
    BY DEF IInv, TypeOK, PcInv, IdaStates, CloserPcs, CloseSigterm, At, Goto, hostVars,
       callVars, AfterSigterm, Dead
  <1>2. PcInv'
    BY DEF IInv, PcInv, CloseSigterm, At, Goto, callVars
  <1>3. FailInv'
    BY DEF IInv, FailInv, CloseSigterm, Goto, callVars, AfterSigterm
  <1>4. LockInv'
    BY DEF IInv, LockInv, Spawning, CloseSigterm, Goto
  <1>5. SideInv'
    BY DEF IInv, SideInv, CloseSigterm, AfterSigterm, Dead
  <1>6. ParentInv'
    BY DEF IInv, ParentInv, CloseSigterm, callVars, AfterSigterm, Dead
  <1>7. DownInv'
    BY DEF IInv, DownInv, CloseSigterm, At, Goto, hostVars
  <1>8. KillSwitchOwned'
    BY DEF IInv, KillSwitchOwned, CloseSigterm, Goto
  <1> QED
    BY <1>1, <1>2, <1>3, <1>4, <1>5, <1>6, <1>7, <1>8 DEF IInv

\* The kill switch stays until the cleanup.
LEMMA ClosePollStep ==
  ASSUME IInv, NEW c \in Closers, ClosePoll(c)
  PROVE  IInv'
  <1> USE SpawnerAssumption DEF Threads, Hosts
  <1>1. TypeOK'
    BY DEF IInv, TypeOK, CloserPcs, Outcomes, ClosePoll, Goto, hostVars, idaVars, CollectSidecar
  <1>2. PcInv'
    BY DEF IInv, TypeOK, PcInv, ClosePoll, At, Goto
  <1>3. FailInv'
    BY DEF IInv, TypeOK, FailInv, ClosePoll, Goto, idaVars
  <1>4. LockInv'
    BY DEF IInv, TypeOK, LockInv, Spawning, ClosePoll, Goto
  <1>5. SideInv'
    BY DEF IInv, SideInv, ClosePoll, idaVars, CollectSidecar
  <1>6. ParentInv'
    BY DEF IInv, ParentInv, ClosePoll, idaVars
  <1>7. DownInv'
    BY DEF IInv, TypeOK, DownInv, ClosePoll, At, Goto, hostVars
  <1>8. KillSwitchOwned'
    BY DEF IInv, TypeOK, KillSwitchOwned, ClosePoll, Goto
  <1> QED
    BY <1>1, <1>2, <1>3, <1>4, <1>5, <1>6, <1>7, <1>8 DEF IInv

\* What is killed was running.
LEMMA CloseHardKillStep ==
  ASSUME IInv, NEW c \in Closers, CloseHardKill(c)
  PROVE  IInv'
  <1> USE SpawnerAssumption DEF Threads, Hosts
  <1>1. TypeOK'
    BY DEF IInv, TypeOK, PcInv, IdaStates, CloserPcs, CloseHardKill, At, Goto, hostVars,
       callVars, Dead
  <1>2. PcInv'
    BY DEF IInv, PcInv, CloseHardKill, At, Goto, callVars
  <1>3. FailInv'
    BY DEF IInv, FailInv, CloseHardKill, Goto, callVars, IsRunning
  <1>4. LockInv'
    BY DEF IInv, LockInv, Spawning, CloseHardKill, Goto
  <1>5. SideInv'
    BY DEF IInv, SideInv, CloseHardKill, Dead
  <1>6. ParentInv'
    BY DEF IInv, ParentInv, CloseHardKill, callVars, IsRunning, Dead
  <1>7. DownInv'
    BY DEF IInv, DownInv, CloseHardKill, At, Goto, hostVars
  <1>8. KillSwitchOwned'
    BY DEF IInv, KillSwitchOwned, CloseHardKill, Goto
  <1> QED
    BY <1>1, <1>2, <1>3, <1>4, <1>5, <1>6, <1>7, <1>8 DEF IInv

\* No sidecar is of any process.
LEMMA CloseRemoveStep ==
  ASSUME IInv, NEW c \in Closers, CloseRemove(c)
  PROVE  IInv'
  <1> USE SpawnerAssumption DEF Threads, Hosts
  <1>1. TypeOK'
    BY DEF IInv, TypeOK, CloserPcs, CloseRemove, Goto, hostVars, idaVars, callVars
  <1>2. PcInv'
    BY DEF IInv, PcInv, CloseRemove, At, Goto, callVars
  <1>3. FailInv'
    BY DEF IInv, FailInv, CloseRemove, Goto, idaVars, callVars
  <1>4. LockInv'
    BY DEF IInv, LockInv, Spawning, CloseRemove, Goto
  <1>5. SideInv'
    BY DEF SideInv, CloseRemove
  <1>6. ParentInv'
    BY DEF IInv, ParentInv, CloseRemove, idaVars, callVars
  <1>7. DownInv'
    BY DEF IInv, DownInv, CloseRemove, At, Goto, hostVars
  <1>8. KillSwitchOwned'
    BY DEF IInv, KillSwitchOwned, CloseRemove, Goto
  <1> QED
    BY <1>1, <1>2, <1>3, <1>4, <1>5, <1>6, <1>7, <1>8 DEF IInv

\* No kill switch is anybody's business.
LEMMA CloseCleanupStep ==
  ASSUME IInv, NEW c \in Closers, CloseCleanup(c)
  PROVE  IInv'
  <1> USE SpawnerAssumption DEF Threads, Hosts
  <1>1. TypeOK'
    BY DEF IInv, TypeOK, PcInv, IdaStates, OpenerPcs, CloserPcs, Outcomes, CloseCleanup, At,
       Goto, hostVars, idaVars, callVars
  <1>2. PcInv'
    BY DEF IInv, PcInv, CloseCleanup, At, Goto, callVars
  <1>3. FailInv'
    BY DEF IInv, FailInv, CloseCleanup, Goto, idaVars, callVars
  <1>4. LockInv'
    BY DEF IInv, LockInv, Spawning, CloseCleanup, Goto
  <1>5. SideInv'
    BY DEF IInv, SideInv, CloseCleanup, idaVars
  <1>6. ParentInv'
    BY DEF IInv, ParentInv, CloseCleanup, idaVars, callVars
  <1>7. DownInv'
    BY DEF IInv, DownInv, CloseCleanup, At, Goto, hostVars
  <1>8. KillSwitchOwned'
    BY DEF KillSwitchOwned, CloseCleanup
  <1> QED
    BY <1>1, <1>2, <1>3, <1>4, <1>5, <1>6, <1>7, <1>8 DEF IInv

\* Only what was a zombie is gone now.
LEMMA CloseReapStep ==
  ASSUME IInv, NEW c \in Closers, CloseReap(c)
  PROVE  IInv'
  <1> USE SpawnerAssumption DEF Threads, Hosts
  <1>1. TypeOK'
    BY DEF IInv, TypeOK, IdaStates, CloserPcs, CloseReap, Goto, hostVars, callVars
  <1>2. PcInv'
    BY DEF IInv, PcInv, CloseReap, Goto, callVars
  <1>3. FailInv'
    BY DEF IInv, TypeOK, FailInv, CloseReap, Goto, callVars
  <1>4. LockInv'
    BY DEF IInv, LockInv, Spawning, CloseReap, Goto
  <1>5. SideInv'
    BY DEF IInv, TypeOK, SideInv, CloseReap
  <1>6. ParentInv'
    BY DEF IInv, TypeOK, ParentInv, CloseReap, callVars
  <1>7. DownInv'
    BY DEF IInv, DownInv, CloseReap, Goto, hostVars
  <1>8. KillSwitchOwned'
    BY DEF IInv, KillSwitchOwned, CloseReap, At, Goto
  <1> QED
    BY <1>1, <1>2, <1>3, <1>4, <1>5, <1>6, <1>7, <1>8 DEF IInv

\* A process publishes its sidecar when it is no longer booting.
LEMMA BootStep ==
  ASSUME IInv, NEW p \in Idas, Boot(p), UNCHANGED <<hostVars, lock, handles, pc, callVars>>
  PROVE  IInv'
  <1> USE SpawnerAssumption DEF Threads, Hosts
  <1>1. TypeOK'
    BY DEF IInv, TypeOK, IdaStates, Boot, Become, Dead, hostVars, callVars
  <1>2. PcInv'
    BY DEF IInv, PcInv, callVars
  <1>3. FailInv'
    BY DEF IInv, TypeOK, FailInv, Boot, Become, callVars
  <1>4. LockInv'
    BY DEF IInv, LockInv, Spawning
  <1>5. SideInv'
    BY DEF IInv, TypeOK, SideInv, Boot, Become
  <1>6. ParentInv'
    BY DEF IInv, TypeOK, ParentInv, Boot, Become, Dead, callVars
  <1>7. DownInv'
    BY DEF IInv, DownInv, hostVars
  <1>8. KillSwitchOwned'
    BY DEF IInv, KillSwitchOwned, Boot
  <1> QED
    BY <1>1, <1>2, <1>3, <1>4, <1>5, <1>6, <1>7, <1>8 DEF IInv

\* The loop, or one of the ways around it.
LEMMA StartServingStep ==
  ASSUME IInv, NEW p \in Idas, StartServing(p), UNCHANGED <<hostVars, lock, handles, pc, callVars>>
  PROVE  IInv'
  <1> USE SpawnerAssumption DEF Threads, Hosts
  <1>1. TypeOK'
    BY DEF IInv, TypeOK, PcInv, IdaStates, OpenerPcs, CloserPcs, Outcomes, StartServing, Become,
       Dead, IsRunning, hostVars, callVars
  <1>2. PcInv'
    BY DEF IInv, PcInv, callVars
  <1>3. FailInv'
    BY DEF IInv, TypeOK, FailInv, StartServing, Become, callVars
  <1>4. LockInv'
    BY DEF IInv, LockInv, Spawning
  <1>5. SideInv'
    BY DEF IInv, TypeOK, SideInv, StartServing, Become
  <1>6. ParentInv'
    BY DEF IInv, TypeOK, ParentInv, StartServing, Become, callVars
  <1>7. DownInv'
    BY DEF IInv, DownInv, hostVars
  <1>8. KillSwitchOwned'
    BY DEF IInv, TypeOK, KillSwitchOwned, StartServing, Become, Dead, IsRunning, hostVars,
       callVars
  <1> QED
    BY <1>1, <1>2, <1>3, <1>4, <1>5, <1>6, <1>7, <1>8 DEF IInv

\* The watcher.
LEMMA ObserveKillSwitchStep ==
  ASSUME IInv, NEW p \in Idas, ObserveKillSwitch(p), UNCHANGED <<hostVars, lock, handles, pc, callVars>>
  PROVE  IInv'
  <1> USE SpawnerAssumption DEF Threads, Hosts
  <1>1. TypeOK'
    BY DEF IInv, TypeOK, IdaStates, ObserveKillSwitch, Become, hostVars, callVars
  <1>2. PcInv'
    BY DEF IInv, PcInv, callVars
  <1>3. FailInv'
    BY DEF IInv, FailInv, ObserveKillSwitch, Become, callVars
  <1>4. LockInv'
    BY DEF IInv, LockInv, Spawning
  <1>5. SideInv'
    BY DEF IInv, SideInv, ObserveKillSwitch, Become
  <1>6. ParentInv'
    BY DEF IInv, ParentInv, ObserveKillSwitch, Become, callVars
  <1>7. DownInv'
    BY DEF IInv, DownInv, hostVars
  <1>8. KillSwitchOwned'
    BY DEF IInv, KillSwitchOwned, ObserveKillSwitch
  <1> QED
    BY <1>1, <1>2, <1>3, <1>4, <1>5, <1>6, <1>7, <1>8 DEF IInv

\* The loop ends.
LEMMA LeaveLoopStep ==
  ASSUME IInv, NEW p \in Idas, LeaveLoop(p), UNCHANGED <<hostVars, lock, handles, pc, callVars>>
  PROVE  IInv'
  <1> USE SpawnerAssumption DEF Threads, Hosts
  <1>1. TypeOK'
    BY DEF IInv, TypeOK, IdaStates, LeaveLoop, Become, hostVars, callVars
  <1>2. PcInv'
    BY DEF IInv, PcInv, callVars
  <1>3. FailInv'
    BY DEF IInv, FailInv, LeaveLoop, Become, callVars
  <1>4. LockInv'
    BY DEF IInv, LockInv, Spawning
  <1>5. SideInv'
    BY DEF IInv, SideInv, LeaveLoop, Become
  <1>6. ParentInv'
    BY DEF IInv, ParentInv, LeaveLoop, Become, callVars
  <1>7. DownInv'
    BY DEF IInv, DownInv, hostVars
  <1>8. KillSwitchOwned'
    BY DEF IInv, KillSwitchOwned, LeaveLoop
  <1> QED
    BY <1>1, <1>2, <1>3, <1>4, <1>5, <1>6, <1>7, <1>8 DEF IInv

\* A process takes the kill switch away.
LEMMA CleanupKillSwitchStep ==
  ASSUME IInv, NEW p \in Idas, CleanupKillSwitch(p), UNCHANGED <<hostVars, lock, handles, pc, callVars>>
  PROVE  IInv'
  <1> USE SpawnerAssumption DEF Threads, Hosts
  <1>1. TypeOK'
    BY DEF IInv, TypeOK, PcInv, IdaStates, OpenerPcs, CloserPcs, Outcomes, CleanupKillSwitch,
       Become, Dead, IsRunning, hostVars, callVars
  <1>2. PcInv'
    BY DEF IInv, PcInv, callVars
  <1>3. FailInv'
    BY DEF IInv, FailInv, CleanupKillSwitch, Become, callVars
  <1>4. LockInv'
    BY DEF IInv, LockInv, Spawning
  <1>5. SideInv'
    BY DEF IInv, SideInv, CleanupKillSwitch, Become
  <1>6. ParentInv'
    BY DEF IInv, ParentInv, CleanupKillSwitch, Become, callVars
  <1>7. DownInv'
    BY DEF IInv, DownInv, hostVars
  <1>8. KillSwitchOwned'
    BY DEF KillSwitchOwned, CleanupKillSwitch
  <1> QED
    BY <1>1, <1>2, <1>3, <1>4, <1>5, <1>6, <1>7, <1>8 DEF IInv

\* A process takes the sidecar away.
LEMMA WithdrawStep ==
  ASSUME IInv, NEW p \in Idas, Withdraw(p), UNCHANGED <<hostVars, lock, handles, pc, callVars>>
  PROVE  IInv'
  <1> USE SpawnerAssumption DEF Threads, Hosts
  <1>1. TypeOK'
    BY DEF IInv, TypeOK, IdaStates, Withdraw, Become, hostVars, callVars
  <1>2. PcInv'
    BY DEF IInv, PcInv, callVars
  <1>3. FailInv'
    BY DEF IInv, FailInv, Withdraw, Become, callVars
  <1>4. LockInv'
    BY DEF IInv, LockInv, Spawning
  <1>5. SideInv'
    BY DEF SideInv, Withdraw
  <1>6. ParentInv'
    BY DEF IInv, ParentInv, Withdraw, Become, callVars
  <1>7. DownInv'
    BY DEF IInv, DownInv, hostVars
  <1>8. KillSwitchOwned'
    BY DEF IInv, KillSwitchOwned, Withdraw
  <1> QED
    BY <1>1, <1>2, <1>3, <1>4, <1>5, <1>6, <1>7, <1>8 DEF IInv

\* It does so again when it exits.
LEMMA ExitStep ==
  ASSUME IInv, NEW p \in Idas, Exit(p), UNCHANGED <<hostVars, lock, handles, pc, callVars>>
  PROVE  IInv'
  <1> USE SpawnerAssumption DEF Threads, Hosts
  <1>1. TypeOK'
    BY DEF IInv, TypeOK, IdaStates, Exit, Become, Dead, hostVars, callVars
  <1>2. PcInv'
    BY DEF IInv, PcInv, callVars
  <1>3. FailInv'
    BY DEF IInv, FailInv, Exit, Become, callVars
  <1>4. LockInv'
    BY DEF IInv, LockInv, Spawning
  <1>5. SideInv'
    BY DEF SideInv, Exit
  <1>6. ParentInv'
    BY DEF IInv, ParentInv, Exit, Become, Dead, callVars
  <1>7. DownInv'
    BY DEF IInv, DownInv, hostVars
  <1>8. KillSwitchOwned'
    BY DEF IInv, KillSwitchOwned, Exit
  <1> QED
    BY <1>1, <1>2, <1>3, <1>4, <1>5, <1>6, <1>7, <1>8 DEF IInv

\* A process that dies leaves everything in place.
LEMMA CrashStep ==
  ASSUME IInv, NEW p \in Idas, Crash(p), UNCHANGED <<hostVars, lock, handles, pc, callVars>>
  PROVE  IInv'
  <1> USE SpawnerAssumption DEF Threads, Hosts
  <1>1. TypeOK'
    BY DEF IInv, TypeOK, IdaStates, Crash, Become, Dead, hostVars, callVars
  <1>2. PcInv'
    BY DEF IInv, PcInv, callVars
  <1>3. FailInv'
    BY DEF IInv, FailInv, Crash, Become, IsRunning, callVars
  <1>4. LockInv'
    BY DEF IInv, LockInv, Spawning
  <1>5. SideInv'
    BY DEF IInv, SideInv, Crash, Become, Dead
  <1>6. ParentInv'
    BY DEF IInv, ParentInv, Crash, Become, Dead, IsRunning, callVars
  <1>7. DownInv'
    BY DEF IInv, DownInv, hostVars
  <1>8. KillSwitchOwned'
    BY DEF IInv, KillSwitchOwned, Crash
  <1> QED
    BY <1>1, <1>2, <1>3, <1>4, <1>5, <1>6, <1>7, <1>8 DEF IInv

\* A host takes its threads along, and a close that dies may leave the kill switch.
LEMMA HostDiesStep ==
  ASSUME IInv, NEW h \in Hosts, HostDies(h)
  PROVE  IInv'
  <1> USE SpawnerAssumption DEF Threads, Hosts
  <1>1. TypeOK'
    BY DEF IInv, TypeOK, IdaStates, OpenerPcs, CloserPcs, HostDies, callVars
  <1>2. PcInv'
    BY DEF IInv, PcInv, HostDies, callVars
  <1>3. FailInv'
    BY DEF IInv, TypeOK, FailInv, HostDies, callVars
  <1>4. LockInv'
    BY DEF IInv, LockInv, Spawning, HostDies
  <1>5. SideInv'
    BY DEF IInv, TypeOK, SideInv, HostDies
  <1>6. ParentInv'
    BY DEF IInv, TypeOK, ParentInv, HostDies, callVars
  <1>7. DownInv'
    BY DEF IInv, DownInv, HostDies
  <1>8. KillSwitchOwned'
    BY DEF IInv, KillSwitchOwned, HostDies
  <1> QED
    BY <1>1, <1>2, <1>3, <1>4, <1>5, <1>6, <1>7, <1>8 DEF IInv

\* Every step keeps the invariant.
LEMMA InvStep == IInv /\ [Next]_vars => IInv'
  <1> SUFFICES ASSUME IInv, [Next]_vars PROVE IInv'
    OBVIOUS
  <1>1. ASSUME NEW t \in Openers, OpenCall(t) \/ Open(t)
        PROVE  IInv'
    BY <1>1, OpenCallStep, OpenLockStep, OpenGetStep, OpenSpawnStep, OpenAwaitStep, OpenReapStep,
       OpenRecordStep DEF Open
  <1>2. ASSUME NEW c \in Closers, CloseCall(c) \/ Close(c)
        PROVE  IInv'
    BY <1>2, CloseCallStep, CloseGetStep, CloseRequestStep, CloseSigtermStep, ClosePollStep,
       CloseHardKillStep, CloseRemoveStep, CloseCleanupStep, CloseReapStep DEF Close
  <1>3. ASSUME NEW p \in Idas, Ida(p), UNCHANGED <<hostVars, lock, handles, pc, callVars>>
        PROVE  IInv'
    BY <1>3, BootStep, StartServingStep, ObserveKillSwitchStep, LeaveLoopStep,
       CleanupKillSwitchStep,
       WithdrawStep, ExitStep, CrashStep DEF Ida
  <1>4. ASSUME NEW h \in Hosts, HostDies(h)
        PROVE  IInv'
    BY <1>4, HostDiesStep
  <1>5. CASE UNCHANGED vars
    BY <1>5 DEF vars, IInv, TypeOK, PcInv, FailInv, LockInv, Spawning, SideInv, ParentInv,
       DownInv,
       KillSwitchOwned
  <1> QED
    BY <1>1, <1>2, <1>3, <1>4, <1>5 DEF Next

\* Nobody has called and nothing was spawned.
LEMMA Initially == Init => IInv
  <1> SUFFICES ASSUME Init PROVE IInv
    OBVIOUS
  <1> USE SpawnerAssumption DEF Threads
  <1>1. TypeOK
    BY DEF Init, TypeOK, IdaStates, OpenerPcs, CloserPcs, Outcomes
  <1>2. PcInv /\ FailInv /\ LockInv
    BY DEF Init, PcInv, FailInv, LockInv, Spawning
  <1>3. SideInv /\ ParentInv /\ DownInv /\ KillSwitchOwned
    BY DEF Init, SideInv, ParentInv, DownInv, Hosts, KillSwitchOwned
  <1> QED
    BY <1>1, <1>2, <1>3 DEF IInv

\* The invariant holds in every reachable state.
LEMMA Invariance == Spec => []IInv
  BY Initially, InvStep, PTL DEF Spec

-----------------------------------------------------------------------------
(* One proxy.                                                              *)

\* A session that is there after a step was there before, if none is published and no
\* process is raised from the dead.
LEMMA SessionKept ==
  ASSUME IInv, sidecar' \in {None, sidecar},
         \A p \in Idas : ida[p] = "gone" => ida'[p] = "gone"
  PROVE  SessionGet' \in {None, SessionGet}
  BY DEF IInv, TypeOK, SideInv, SessionGet, IsPidAlive

\* A thread that waits for the lock relies on nothing.
LEMMA OpenCallOwn ==
  ASSUME IInv, OneProxyOpens, OneInv, NEW t \in Openers, OpenCall(t)
  PROVE  OneInv'
  <1> USE SpawnerAssumption DEF Threads, Hosts
  <1>1. BootInv'
    BY DEF IInv, ParentInv, OneInv, BootInv, OneProxyOpens, OpenCall, At, Goto, idaVars, callVars
  <1>2. OwnInv'
    <2>1. SessionGet' \in {None, SessionGet}
      <3>1. sidecar' \in {None, sidecar}
        BY DEF OpenCall
      <3>2. \A q \in Idas : ida[q] = "gone" => ida'[q] = "gone"
        BY DEF OpenCall, idaVars
      <3> QED
        BY <3>1, <3>2, SessionKept
    <2> QED
      BY <2>1 DEF OneInv, OwnInv, OpenCall, Goto, callVars
  <1>3. HandlesMatch'
    BY DEF OneInv, HandlesMatch, OpenCall
  <1> QED
    BY <1>1, <1>2, <1>3 DEF OneInv

\* Nor does one that has it.
LEMMA OpenLockOwn ==
  ASSUME IInv, OneProxyOpens, OneInv, NEW t \in Openers, OpenLock(t)
  PROVE  OneInv'
  <1> USE SpawnerAssumption DEF Threads, Hosts
  <1>1. BootInv'
    BY DEF IInv, LockInv, Spawning, ParentInv, OneInv, BootInv, OneProxyOpens, OpenLock, At,
       idaVars
  <1>2. OwnInv'
    <2>1. SessionGet' \in {None, SessionGet}
      <3>1. sidecar' \in {None, sidecar}
        BY DEF OpenLock
      <3>2. \A q \in Idas : ida[q] = "gone" => ida'[q] = "gone"
        BY DEF OpenLock, idaVars
      <3> QED
        BY <3>1, <3>2, SessionKept
    <2> QED
      BY <2>1 DEF OneInv, OwnInv, OpenLock, Goto, callVars
  <1>3. HandlesMatch'
    BY DEF OneInv, HandlesMatch, OpenLock
  <1> QED
    BY <1>1, <1>2, <1>3 DEF OneInv

\* Nobody else is past the lock, so what was not there stays away.
LEMMA OpenGetOwn ==
  ASSUME IInv, OneProxyOpens, OneInv, NEW t \in Openers, OpenGet(t)
  PROVE  OneInv'
  <1> USE SpawnerAssumption DEF Threads, Hosts
  <1>1. BootInv'
    BY DEF IInv, LockInv, Spawning, ParentInv, OneInv, BootInv, OneProxyOpens, OpenGet, At,
       Goto, idaVars
  <1>2. OwnInv'
    <2>1. SessionGet' \in {None, SessionGet}
      <3>1. sidecar' \in {None, sidecar} /\ UNCHANGED ida
        BY DEF SessionGet, CollectSidecar, OpenGet, idaVars
      <3> QED
        BY <3>1, SessionKept
    <2>2. \/ pc' = [pc EXCEPT ![t] = "done"]
          \/ pc' = [pc EXCEPT ![t] = "spawn"] /\ SessionGet = None
      BY DEF OpenGet, OpenDone, Goto
    <2>3. UNCHANGED child /\ \A s \in Openers \ {t} : target'[s] = target[s]
      BY DEF OpenGet, IInv, TypeOK
    <2> QED
      BY <2>1, <2>2, <2>3 DEF IInv, TypeOK, OneInv, OwnInv
  <1>3. HandlesMatch'
    BY DEF OneInv, HandlesMatch, OpenGet
  <1> QED
    BY <1>1, <1>2, <1>3 DEF OneInv

\* The child has its thread.
LEMMA OpenSpawnOwn ==
  ASSUME IInv, OneProxyOpens, OneInv, NEW t \in Openers, OpenSpawn(t)
  PROVE  OneInv'
  <1> USE SpawnerAssumption DEF Threads, Hosts
  <1>1. BootInv'
    BY DEF IInv, TypeOK, LockInv, Spawning, ParentInv, OneInv, BootInv, OneProxyOpens,
       OpenSpawn, At, Goto, idaVars
  <1>2. OwnInv'
    <2>1. SessionGet' \in {None, SessionGet}
      <3>1. sidecar' \in {None, sidecar}
        BY DEF OpenSpawn
      <3>2. \A q \in Idas : ida[q] = "gone" => ida'[q] = "gone"
        BY DEF IInv, TypeOK, OpenSpawn, idaVars
      <3> QED
        BY <3>1, <3>2, SessionKept
    <2> QED
      BY <2>1 DEF IInv, TypeOK, OneInv, OwnInv, OpenSpawn, At, Goto, OpenDone
  <1>3. HandlesMatch'
    BY DEF OneInv, HandlesMatch, OpenSpawn
  <1> QED
    BY <1>1, <1>2, <1>3 DEF OneInv

\* A sidecar that ends the wait is the child's, who has booted.
LEMMA OpenAwaitOwn ==
  ASSUME IInv, OneProxyOpens, OneInv, NEW t \in Openers, OpenAwait(t)
  PROVE  OneInv'
  <1> USE SpawnerAssumption DEF Threads, Hosts
  <1>1. BootInv'
    BY DEF IInv, TypeOK, SideInv, ParentInv, OneInv, BootInv, OwnInv, SessionGet, OneProxyOpens,
       OpenAwait, At, Goto
  <1>2. OwnInv'
    <2>1. SessionGet' \in {None, SessionGet}
      <3>1. sidecar' \in {None, sidecar}
        BY DEF CollectSidecar, OpenAwait
      <3>2. \A q \in Idas : ida[q] = "gone" => ida'[q] = "gone"
        BY DEF IInv, TypeOK, OpenAwait
      <3> QED
        BY <3>1, <3>2, SessionKept
    <2> QED
      BY <2>1 DEF IInv, TypeOK, OneInv, OwnInv, OpenAwait, At, Goto
  <1>3. HandlesMatch'
    BY DEF OneInv, HandlesMatch, OpenAwait
  <1> QED
    BY <1>1, <1>2, <1>3 DEF OneInv

\* The child does not boot any more.
LEMMA OpenReapOwn ==
  ASSUME IInv, OneProxyOpens, OneInv, NEW t \in Openers, OpenReap(t)
  PROVE  OneInv'
  <1> USE SpawnerAssumption DEF Threads, Hosts
  <1>1. BootInv'
    BY DEF IInv, TypeOK, LockInv, Spawning, ParentInv, OneInv, BootInv, OneProxyOpens, OpenReap,
       At
  <1>2. OwnInv'
    <2>1. SessionGet' \in {None, SessionGet}
      <3>1. sidecar' \in {None, sidecar}
        BY DEF OpenReap
      <3>2. \A q \in Idas : ida[q] = "gone" => ida'[q] = "gone"
        BY DEF OpenReap
      <3> QED
        BY <3>1, <3>2, SessionKept
    <2> QED
      BY <2>1 DEF OneInv, OwnInv, OpenReap, Goto, OpenDone
  <1>3. HandlesMatch'
    BY DEF OneInv, HandlesMatch, OpenReap
  <1> QED
    BY <1>1, <1>2, <1>3 DEF OneInv

\* The session that was found is the child's.
LEMMA OpenRecordOwn ==
  ASSUME IInv, OneProxyOpens, OneInv, NEW t \in Openers, OpenRecord(t)
  PROVE  OneInv'
  <1> USE SpawnerAssumption DEF Threads, Hosts
  <1>1. BootInv'
    BY DEF IInv, LockInv, Spawning, ParentInv, OneInv, BootInv, SessionGet, OneProxyOpens,
       OpenRecord, At, idaVars
  <1>2. OwnInv'
    <2>1. SessionGet' \in {None, SessionGet}
      <3>1. sidecar' \in {None, sidecar}
        BY DEF OpenRecord
      <3>2. \A q \in Idas : ida[q] = "gone" => ida'[q] = "gone"
        BY DEF OpenRecord, idaVars
      <3> QED
        BY <3>1, <3>2, SessionKept
    <2> QED
      BY <2>1 DEF OneInv, OwnInv, OpenRecord, Goto, OpenDone
  <1>3. HandlesMatch'
    BY DEF OneInv, OwnInv, HandlesMatch, OpenRecord, At
  <1> QED
    BY <1>1, <1>2, <1>3 DEF OneInv

\* close reads and removes sidecars, and makes none.
LEMMA CloseCallOwn ==
  ASSUME IInv, OneProxyOpens, OneInv, NEW c \in Closers, CloseCall(c)
  PROVE  OneInv'
  <1> USE SpawnerAssumption DEF Threads, Hosts
  <1>1. BootInv'
    BY DEF OneInv, BootInv, CloseCall, Goto, hostVars, idaVars, callVars
  <1>2. OwnInv'
    <2>1. SessionGet' \in {None, SessionGet}
      <3>1. sidecar' \in {None, sidecar}
        BY DEF CloseCall
      <3>2. \A q \in Idas : ida[q] = "gone" => ida'[q] = "gone"
        BY DEF CloseCall, idaVars
      <3> QED
        BY <3>1, <3>2, SessionKept
    <2> QED
      BY <2>1 DEF OneInv, OwnInv, CloseCall, Goto, callVars
  <1>3. HandlesMatch'
    BY DEF OneInv, HandlesMatch, CloseCall
  <1> QED
    BY <1>1, <1>2, <1>3 DEF OneInv

\* A dead process's sidecar is collected.
LEMMA CloseGetOwn ==
  ASSUME IInv, OneProxyOpens, OneInv, NEW c \in Closers, CloseGet(c)
  PROVE  OneInv'
  <1> USE SpawnerAssumption DEF Threads, Hosts
  <1>1. BootInv'
    BY DEF IInv, TypeOK, OneInv, BootInv, CloseGet, Goto, hostVars, idaVars, CloseDone
  <1>2. OwnInv'
    <2>1. SessionGet' \in {None, SessionGet}
      <3>1. sidecar' \in {None, sidecar}
        BY DEF SessionGet, CollectSidecar, CloseGet
      <3>2. \A q \in Idas : ida[q] = "gone" => ida'[q] = "gone"
        BY DEF CloseGet, idaVars
      <3> QED
        BY <3>1, <3>2, SessionKept
    <2> QED
      BY <2>1 DEF IInv, TypeOK, OneInv, OwnInv, CloseGet, Goto, CloseDone
  <1>3. HandlesMatch'
    BY DEF OneInv, HandlesMatch, CloseGet
  <1> QED
    BY <1>1, <1>2, <1>3 DEF OneInv

\* A kill switch changes no session.
LEMMA CloseRequestOwn ==
  ASSUME IInv, OneProxyOpens, OneInv, NEW c \in Closers, CloseRequest(c)
  PROVE  OneInv'
  <1> USE SpawnerAssumption DEF Threads, Hosts
  <1>1. BootInv'
    BY DEF OneInv, BootInv, CloseRequest, Goto, hostVars, idaVars, callVars
  <1>2. OwnInv'
    <2>1. SessionGet' \in {None, SessionGet}
      <3>1. sidecar' \in {None, sidecar}
        BY DEF CloseRequest
      <3>2. \A q \in Idas : ida[q] = "gone" => ida'[q] = "gone"
        BY DEF CloseRequest, idaVars
      <3> QED
        BY <3>1, <3>2, SessionKept
    <2> QED
      BY <2>1 DEF OneInv, OwnInv, CloseRequest, Goto, callVars
  <1>3. HandlesMatch'
    BY DEF OneInv, HandlesMatch, CloseRequest
  <1> QED
    BY <1>1, <1>2, <1>3 DEF OneInv

\* A signal makes no session.
LEMMA CloseSigtermOwn ==
  ASSUME IInv, OneProxyOpens, OneInv, NEW c \in Closers, CloseSigterm(c)
  PROVE  OneInv'
  <1> USE SpawnerAssumption DEF Threads, Hosts
  <1>1. BootInv'
    BY DEF OneInv, BootInv, CloseSigterm, Goto, hostVars, callVars, AfterSigterm, Dead
  <1>2. OwnInv'
    <2>1. SessionGet' \in {None, SessionGet}
      <3>1. sidecar' \in {None, sidecar}
        BY DEF CloseSigterm
      <3>2. \A q \in Idas : ida[q] = "gone" => ida'[q] = "gone"
        BY DEF CloseSigterm, AfterSigterm
      <3> QED
        BY <3>1, <3>2, SessionKept
    <2> QED
      BY <2>1 DEF OneInv, OwnInv, CloseSigterm, Goto, callVars
  <1>3. HandlesMatch'
    BY DEF OneInv, HandlesMatch, CloseSigterm
  <1> QED
    BY <1>1, <1>2, <1>3 DEF OneInv

\* Polling makes no session.
LEMMA ClosePollOwn ==
  ASSUME IInv, OneProxyOpens, OneInv, NEW c \in Closers, ClosePoll(c)
  PROVE  OneInv'
  <1> USE SpawnerAssumption DEF Threads, Hosts
  <1>1. BootInv'
    BY DEF IInv, TypeOK, OneInv, BootInv, ClosePoll, Goto, hostVars, idaVars
  <1>2. OwnInv'
    <2>1. SessionGet' \in {None, SessionGet}
      <3>1. sidecar' \in {None, sidecar}
        BY DEF CollectSidecar, ClosePoll
      <3>2. \A q \in Idas : ida[q] = "gone" => ida'[q] = "gone"
        BY DEF ClosePoll, idaVars
      <3> QED
        BY <3>1, <3>2, SessionKept
    <2> QED
      BY <2>1 DEF IInv, TypeOK, OneInv, OwnInv, ClosePoll, Goto
  <1>3. HandlesMatch'
    BY DEF OneInv, HandlesMatch, ClosePoll
  <1> QED
    BY <1>1, <1>2, <1>3 DEF OneInv

\* Killing makes no session.
LEMMA CloseHardKillOwn ==
  ASSUME IInv, OneProxyOpens, OneInv, NEW c \in Closers, CloseHardKill(c)
  PROVE  OneInv'
  <1> USE SpawnerAssumption DEF Threads, Hosts
  <1>1. BootInv'
    BY DEF OneInv, BootInv, CloseHardKill, Goto, hostVars, callVars, Dead
  <1>2. OwnInv'
    <2>1. SessionGet' \in {None, SessionGet}
      <3>1. sidecar' \in {None, sidecar}
        BY DEF CloseHardKill
      <3>2. \A q \in Idas : ida[q] = "gone" => ida'[q] = "gone"
        BY DEF IsRunning, CloseHardKill
      <3> QED
        BY <3>1, <3>2, SessionKept
    <2> QED
      BY <2>1 DEF OneInv, OwnInv, CloseHardKill, Goto, callVars
  <1>3. HandlesMatch'
    BY DEF OneInv, HandlesMatch, CloseHardKill
  <1> QED
    BY <1>1, <1>2, <1>3 DEF OneInv

\* There is no session any more.
LEMMA CloseRemoveOwn ==
  ASSUME IInv, OneProxyOpens, OneInv, NEW c \in Closers, CloseRemove(c)
  PROVE  OneInv'
  <1> USE SpawnerAssumption DEF Threads, Hosts
  <1>1. BootInv'
    BY DEF OneInv, BootInv, CloseRemove, Goto, hostVars, idaVars, callVars
  <1>2. OwnInv'
    <2>1. SessionGet' \in {None, SessionGet}
      <3>1. sidecar' \in {None, sidecar}
        BY DEF CloseRemove
      <3>2. \A q \in Idas : ida[q] = "gone" => ida'[q] = "gone"
        BY DEF CloseRemove, idaVars
      <3> QED
        BY <3>1, <3>2, SessionKept
    <2> QED
      BY <2>1 DEF OneInv, OwnInv, CloseRemove, Goto, callVars
  <1>3. HandlesMatch'
    BY DEF OneInv, HandlesMatch, CloseRemove
  <1> QED
    BY <1>1, <1>2, <1>3 DEF OneInv

\* Nor does taking the kill switch away make one.
LEMMA CloseCleanupOwn ==
  ASSUME IInv, OneProxyOpens, OneInv, NEW c \in Closers, CloseCleanup(c)
  PROVE  OneInv'
  <1> USE SpawnerAssumption DEF Threads, Hosts
  <1>1. BootInv'
    BY DEF OneInv, BootInv, CloseCleanup, Goto, hostVars, idaVars, callVars
  <1>2. OwnInv'
    <2>1. SessionGet' \in {None, SessionGet}
      <3>1. sidecar' \in {None, sidecar}
        BY DEF CloseCleanup
      <3>2. \A q \in Idas : ida[q] = "gone" => ida'[q] = "gone"
        BY DEF CloseCleanup, idaVars
      <3> QED
        BY <3>1, <3>2, SessionKept
    <2> QED
      BY <2>1 DEF OneInv, OwnInv, CloseCleanup, Goto, callVars
  <1>3. HandlesMatch'
    BY DEF OneInv, HandlesMatch, CloseCleanup
  <1> QED
    BY <1>1, <1>2, <1>3 DEF OneInv

\* Handles are only taken out.
LEMMA CloseReapOwn ==
  ASSUME IInv, OneProxyOpens, OneInv, NEW c \in Closers, CloseReap(c)
  PROVE  OneInv'
  <1> USE SpawnerAssumption DEF Threads, Hosts
  <1>1. BootInv'
    BY DEF OneInv, BootInv, CloseReap, Goto, hostVars, callVars
  <1>2. OwnInv'
    <2>1. SessionGet' \in {None, SessionGet}
      <3>1. sidecar' \in {None, sidecar}
        BY DEF CloseReap
      <3>2. \A q \in Idas : ida[q] = "gone" => ida'[q] = "gone"
        BY DEF CloseReap
      <3> QED
        BY <3>1, <3>2, SessionKept
    <2> QED
      BY <2>1 DEF OneInv, OwnInv, CloseReap, Goto, callVars
  <1>3. HandlesMatch'
    BY DEF OneInv, HandlesMatch, CloseReap
  <1> QED
    BY <1>1, <1>2, <1>3 DEF OneInv

\* Who publishes is the child of the one thread past the lock.
LEMMA BootOwn ==
  ASSUME IInv, OneProxyOpens, OneInv, NEW p \in Idas, Boot(p), UNCHANGED <<hostVars, lock, handles, pc, callVars>>
  PROVE  OneInv'
  <1> USE SpawnerAssumption DEF Threads, Hosts
  <1>1. BootInv'
    BY DEF IInv, TypeOK, LockInv, Spawning, ParentInv, OneInv, BootInv, OneProxyOpens, Boot,
       Become, Dead, hostVars
  <1>2. OwnInv'
    <2>1. ASSUME NEW t \in Openers, pc[t] \in {"spawn", "await"}
          PROVE  pc[t] = "await" /\ child[t] = p
      <3>1. ida[p] = "booting"
        BY DEF Boot
      <3>2. PICK s \in Openers : parent[p] = HostOf[s]
        BY <3>1 DEF IInv, ParentInv
      <3>3. up[parent[p]]
        BY <2>1, <3>2 DEF IInv, DownInv, OneProxyOpens
      <3>4. PICK q \in Openers : child[q] = p /\ pc[q] \in {"await", "reap"}
        BY <3>1, <3>3 DEF OneInv, BootInv
      <3>5. q = t
        BY <2>1, <3>4 DEF IInv, LockInv, Spawning, OneProxyOpens
      <3> QED
        BY <2>1, <3>4, <3>5
    <2>2. UNCHANGED <<pc, child, target>>
      BY DEF callVars
    <2>3. CASE sidecar' = p
      BY <2>1, <2>2, <2>3 DEF OneInv, OwnInv, SessionGet
    <2>4. CASE UNCHANGED sidecar
      <3>1. \A q \in Idas : ida[q] = "gone" => ida'[q] = "gone"
        BY DEF Boot, Become, IInv, TypeOK
      <3>2. SessionGet' \in {None, SessionGet}
        BY <2>4, <3>1, SessionKept
      <3> QED
        BY <2>2, <3>2 DEF OneInv, OwnInv
    <2> QED
      BY <2>3, <2>4 DEF Boot
  <1>3. HandlesMatch'
    BY DEF OneInv, HandlesMatch
  <1> QED
    BY <1>1, <1>2, <1>3 DEF OneInv

\* A session may go, and none comes.
LEMMA StartServingOwn ==
  ASSUME IInv, OneProxyOpens, OneInv, NEW p \in Idas, StartServing(p), UNCHANGED <<hostVars, lock, handles, pc, callVars>>
  PROVE  OneInv'
  <1> USE SpawnerAssumption DEF Threads, Hosts
  <1>1. BootInv'
    BY DEF IInv, TypeOK, OneInv, BootInv, StartServing, Become, hostVars, callVars
  <1>2. OwnInv'
    <2>1. SessionGet' \in {None, SessionGet}
      <3>1. sidecar' \in {None, sidecar}
        BY DEF StartServing
      <3>2. \A q \in Idas : ida[q] = "gone" => ida'[q] = "gone"
        BY DEF IInv, TypeOK, StartServing, Become
      <3> QED
        BY <3>1, <3>2, SessionKept
    <2> QED
      BY <2>1 DEF OneInv, OwnInv, callVars
  <1>3. HandlesMatch'
    BY DEF OneInv, HandlesMatch
  <1> QED
    BY <1>1, <1>2, <1>3 DEF OneInv

\* The session stays.
LEMMA ObserveKillSwitchOwn ==
  ASSUME IInv, OneProxyOpens, OneInv, NEW p \in Idas, ObserveKillSwitch(p), UNCHANGED <<hostVars, lock, handles, pc, callVars>>
  PROVE  OneInv'
  <1> USE SpawnerAssumption DEF Threads, Hosts
  <1>1. BootInv'
    BY DEF OneInv, BootInv, ObserveKillSwitch, Become, hostVars, callVars
  <1>2. OwnInv'
    <2>1. SessionGet' \in {None, SessionGet}
      <3>1. sidecar' \in {None, sidecar}
        BY DEF ObserveKillSwitch
      <3>2. \A q \in Idas : ida[q] = "gone" => ida'[q] = "gone"
        BY DEF ObserveKillSwitch, Become
      <3> QED
        BY <3>1, <3>2, SessionKept
    <2> QED
      BY <2>1 DEF OneInv, OwnInv, callVars
  <1>3. HandlesMatch'
    BY DEF OneInv, HandlesMatch
  <1> QED
    BY <1>1, <1>2, <1>3 DEF OneInv

\* The session stays.
LEMMA LeaveLoopOwn ==
  ASSUME IInv, OneProxyOpens, OneInv, NEW p \in Idas, LeaveLoop(p), UNCHANGED <<hostVars, lock, handles, pc, callVars>>
  PROVE  OneInv'
  <1> USE SpawnerAssumption DEF Threads, Hosts
  <1>1. BootInv'
    BY DEF OneInv, BootInv, LeaveLoop, Become, hostVars, callVars
  <1>2. OwnInv'
    <2>1. SessionGet' \in {None, SessionGet}
      <3>1. sidecar' \in {None, sidecar}
        BY DEF LeaveLoop
      <3>2. \A q \in Idas : ida[q] = "gone" => ida'[q] = "gone"
        BY DEF LeaveLoop, Become
      <3> QED
        BY <3>1, <3>2, SessionKept
    <2> QED
      BY <2>1 DEF OneInv, OwnInv, callVars
  <1>3. HandlesMatch'
    BY DEF OneInv, HandlesMatch
  <1> QED
    BY <1>1, <1>2, <1>3 DEF OneInv

\* The session stays.
LEMMA CleanupKillSwitchOwn ==
  ASSUME IInv, OneProxyOpens, OneInv, NEW p \in Idas, CleanupKillSwitch(p), UNCHANGED <<hostVars, lock, handles, pc, callVars>>
  PROVE  OneInv'
  <1> USE SpawnerAssumption DEF Threads, Hosts
  <1>1. BootInv'
    BY DEF OneInv, BootInv, CleanupKillSwitch, Become, hostVars, callVars
  <1>2. OwnInv'
    <2>1. SessionGet' \in {None, SessionGet}
      <3>1. sidecar' \in {None, sidecar}
        BY DEF CleanupKillSwitch
      <3>2. \A q \in Idas : ida[q] = "gone" => ida'[q] = "gone"
        BY DEF CleanupKillSwitch, Become
      <3> QED
        BY <3>1, <3>2, SessionKept
    <2> QED
      BY <2>1 DEF OneInv, OwnInv, callVars
  <1>3. HandlesMatch'
    BY DEF OneInv, HandlesMatch
  <1> QED
    BY <1>1, <1>2, <1>3 DEF OneInv

\* The session goes.
LEMMA WithdrawOwn ==
  ASSUME IInv, OneProxyOpens, OneInv, NEW p \in Idas, Withdraw(p), UNCHANGED <<hostVars, lock, handles, pc, callVars>>
  PROVE  OneInv'
  <1> USE SpawnerAssumption DEF Threads, Hosts
  <1>1. BootInv'
    BY DEF OneInv, BootInv, Withdraw, Become, hostVars, callVars
  <1>2. OwnInv'
    <2>1. SessionGet' \in {None, SessionGet}
      <3>1. sidecar' \in {None, sidecar}
        BY DEF Withdraw
      <3>2. \A q \in Idas : ida[q] = "gone" => ida'[q] = "gone"
        BY DEF Withdraw, Become
      <3> QED
        BY <3>1, <3>2, SessionKept
    <2> QED
      BY <2>1 DEF OneInv, OwnInv, callVars
  <1>3. HandlesMatch'
    BY DEF OneInv, HandlesMatch
  <1> QED
    BY <1>1, <1>2, <1>3 DEF OneInv

\* The session has gone.
LEMMA ExitOwn ==
  ASSUME IInv, OneProxyOpens, OneInv, NEW p \in Idas, Exit(p), UNCHANGED <<hostVars, lock, handles, pc, callVars>>
  PROVE  OneInv'
  <1> USE SpawnerAssumption DEF Threads, Hosts
  <1>1. BootInv'
    BY DEF OneInv, BootInv, Exit, Become, Dead, hostVars, callVars
  <1>2. OwnInv'
    <2>1. SessionGet' \in {None, SessionGet}
      <3>1. sidecar' \in {None, sidecar}
        BY DEF Exit
      <3>2. \A q \in Idas : ida[q] = "gone" => ida'[q] = "gone"
        BY DEF Exit, Become
      <3> QED
        BY <3>1, <3>2, SessionKept
    <2> QED
      BY <2>1 DEF OneInv, OwnInv, callVars
  <1>3. HandlesMatch'
    BY DEF OneInv, HandlesMatch
  <1> QED
    BY <1>1, <1>2, <1>3 DEF OneInv

\* A crash makes no session.
LEMMA CrashOwn ==
  ASSUME IInv, OneProxyOpens, OneInv, NEW p \in Idas, Crash(p), UNCHANGED <<hostVars, lock, handles, pc, callVars>>
  PROVE  OneInv'
  <1> USE SpawnerAssumption DEF Threads, Hosts
  <1>1. BootInv'
    BY DEF OneInv, BootInv, Crash, Become, Dead, hostVars, callVars
  <1>2. OwnInv'
    <2>1. SessionGet' \in {None, SessionGet}
      <3>1. sidecar' \in {None, sidecar}
        BY DEF Crash
      <3>2. \A q \in Idas : ida[q] = "gone" => ida'[q] = "gone"
        BY DEF IsRunning, Crash, Become
      <3> QED
        BY <3>1, <3>2, SessionKept
    <2> QED
      BY <2>1 DEF OneInv, OwnInv, callVars
  <1>3. HandlesMatch'
    BY DEF OneInv, HandlesMatch
  <1> QED
    BY <1>1, <1>2, <1>3 DEF OneInv

\* Without the proxy there are no opens.
LEMMA HostDiesOwn ==
  ASSUME IInv, OneProxyOpens, OneInv, NEW h \in Hosts, HostDies(h)
  PROVE  OneInv'
  <1> USE SpawnerAssumption DEF Threads, Hosts
  <1>1. BootInv'
    BY DEF IInv, TypeOK, ParentInv, OneInv, BootInv, OneProxyOpens, HostDies, callVars
  <1>2. OwnInv'
    <2>1. SessionGet' \in {None, SessionGet}
      <3>1. sidecar' \in {None, sidecar}
        BY DEF HostDies
      <3>2. \A q \in Idas : ida[q] = "gone" => ida'[q] = "gone"
        BY DEF HostDies
      <3> QED
        BY <3>1, <3>2, SessionKept
    <2> QED
      BY <2>1 DEF OneInv, OwnInv, HostDies, callVars
  <1>3. HandlesMatch'
    BY DEF OneInv, HandlesMatch, HostDies
  <1> QED
    BY <1>1, <1>2, <1>3 DEF OneInv

\* With one proxy every step keeps what it can rely on.
LEMMA OneStep ==
  ASSUME OneProxyOpens
  PROVE  IInv /\ OneInv /\ [Next]_vars => OneInv'
  <1> SUFFICES ASSUME IInv, OneInv, [Next]_vars PROVE OneInv'
    OBVIOUS
  <1>1. ASSUME NEW t \in Openers, OpenCall(t) \/ Open(t)
        PROVE  OneInv'
    BY <1>1, OpenCallOwn, OpenLockOwn, OpenGetOwn, OpenSpawnOwn, OpenAwaitOwn, OpenReapOwn,
       OpenRecordOwn DEF Open
  <1>2. ASSUME NEW c \in Closers, CloseCall(c) \/ Close(c)
        PROVE  OneInv'
    BY <1>2, CloseCallOwn, CloseGetOwn, CloseRequestOwn, CloseSigtermOwn, ClosePollOwn,
       CloseHardKillOwn, CloseRemoveOwn, CloseCleanupOwn, CloseReapOwn DEF Close
  <1>3. ASSUME NEW p \in Idas, Ida(p), UNCHANGED <<hostVars, lock, handles, pc, callVars>>
        PROVE  OneInv'
    BY <1>3, BootOwn, StartServingOwn, ObserveKillSwitchOwn, LeaveLoopOwn, CleanupKillSwitchOwn,
       WithdrawOwn, ExitOwn, CrashOwn DEF Ida
  <1>4. ASSUME NEW h \in Hosts, HostDies(h)
        PROVE  OneInv'
    BY <1>4, HostDiesOwn
  <1>5. CASE UNCHANGED vars
    BY <1>5 DEF vars, OneInv, BootInv, OwnInv, HandlesMatch, SessionGet, IsPidAlive
  <1> QED
    BY <1>1, <1>2, <1>3, <1>4, <1>5 DEF Next

\* Nothing was spawned and nobody has looked.
LEMMA OneInitially == Init => OneInv
  BY SpawnerAssumption DEF Init, OneInv, BootInv, OwnInv, HandlesMatch, Threads

-----------------------------------------------------------------------------
(* The theorems.                                                           *)

\* Threads, processes and files are always in one of their states.
THEOREM TypeCorrect == Spec => []TypeOK
  <1>1. IInv => TypeOK
    BY DEF IInv
  <1> QED
    BY <1>1, Invariance, PTL

\* However many hosts open and close, and wherever one dies, a kill switch is some
\* close's business (Spawner.close, kill_switch.py).
THEOREM KillSwitchesOwned == Spec => []KillSwitchOwned
  <1>1. IInv => KillSwitchOwned
    BY DEF IInv
  <1> QED
    BY <1>1, Invariance, PTL

\* However many hosts there are, an open that failed has reaped what it spawned
\* (_best_effort_reap).
THEOREM FailedOpensReap == Spec => []FailedOpenLeavesNoChild
  <1>1. IInv => FailedOpenLeavesNoChild
    BY DEF IInv, FailInv, FailedOpenLeavesNoChild
  <1> QED
    BY <1>1, Invariance, PTL

\* If one proxy makes all the opens, its lock has them one after the other, and no child
\* of its is left to itself (Spawner.open).
THEOREM OpensSerialised ==
  ASSUME OneProxyOpens
  PROVE  Spec => []SpawnsSerialised
  <1>1. IInv /\ OneInv => SpawnsSerialised
    BY DEF IInv, LockInv, OneInv, BootInv, SpawnsSerialised
  <1> QED
    BY <1>1, Invariance, OneInitially, OneStep, PTL DEF Spec

\* If one proxy makes all the opens, the handle it keeps for a pid is of that process:
\* the session it found is its child's (Spawner._handles).
THEOREM HandlesOfTheirPids ==
  ASSUME OneProxyOpens
  PROVE  Spec => []HandlesMatch
  <1>1. OneInv => HandlesMatch
    BY DEF OneInv
  <1> QED
    BY <1>1, Invariance, OneInitially, OneStep, PTL DEF Spec
=============================================================================
