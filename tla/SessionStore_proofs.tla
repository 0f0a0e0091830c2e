------------------------ MODULE SessionStore_proofs ------------------------
(***************************************************************************)
(* Proofs about SessionStore, for any number of ids, processes and         *)
(* readers.                                                                *)
(***************************************************************************)
EXTENDS SessionStore, TLAPS

\* A temporary file belongs to its writer, and is complete once written.
TempInv ==
  \A p \in Processes :
    /\ file[p] \in {NoFile, Partial, p}
    /\ step[p] = "filled" => file[p] # Partial
    /\ step[p] # "boot" => proc[p] # "unborn"

SidecarInv ==
  \A id \in Ids : file[id] # NoFile =>
    file[id] \in Processes /\ sid[file[id]] = id

\* Only processes that were started have files, or are read about.
BornInv ==
  /\ \A x \in Paths : file[x] \in Processes => proc[file[x]] # "unborn"
  /\ \A r \in Readers : seen[r] \in Processes => proc[seen[r]] # "unborn"

DropInv ==
  \A r \in Readers : rd[r] = "drop" /\ seen[r] \in Processes => proc[seen[r]] = "gone"

SoundInv ==
  \A r \in Readers :
    /\ \A p \in old[r] : proc[p] = "gone"
    /\ result[r] \cap old[r] = {}

\* What a reader still has to come across, at each point of its loop.
Ahead(r, p) ==
  \/ p \in result[r]
  \/ rd[r] = "idle"
  \/ rd[r] \in {"next", "load", "check", "drop"} /\ listing[r] /\ sid[p] \in todo[r]
  \/ rd[r] = "load" /\ cur[r] = sid[p]
  \/ rd[r] = "check" /\ seen[r] = p

CompleteInv ==
  \A r \in Readers : \A p \in kept[r] :
    /\ file[sid[p]] = p
    /\ proc[p] = "running"
    /\ Ahead(r, p)

ReaderInv ==
  \A r \in Readers :
    /\ rd[r] \in {"load", "check", "drop"} => cur[r] \in Paths
    /\ rd[r] = "check" => seen[r] \in Processes
    /\ rd[r] = "next" => listing[r]

IInv == /\ TypeOK /\ TempInv /\ SidecarInv /\ BornInv /\ DropInv /\ SoundInv
        /\ CompleteInv /\ ReaderInv

-----------------------------------------------------------------------------
\* The invariant holds before any process was spawned.
LEMMA Initially ==
  ASSUME Init
  PROVE  IInv
  <1> USE StoreAssumption DEF Init, Paths
  <1>1. TypeOK
    BY DEF TypeOK
  <1>2. TempInv /\ SidecarInv /\ BornInv
    BY DEF TempInv, SidecarInv, BornInv
  <1>3. DropInv /\ SoundInv /\ CompleteInv /\ ReaderInv
    BY DEF DropInv, SoundInv, CompleteInv, ReaderInv
  <1> QED
    BY <1>1, <1>2, <1>3 DEF IInv

\* The history of kept processes stays a set of processes.
LEMMA PruneType ==
  ASSUME TypeOK, Prune
  PROVE  kept' \in [Readers -> SUBSET Processes]
  <1>1. \A r \in Readers : StillKept(r) \in SUBSET Processes
    BY DEF TypeOK, StillKept
  <1> QED
    BY <1>1 DEF Prune

\* Every step of a process or of a reader keeps the invariant.
LEMMA InvStep ==
  ASSUME IInv, [Next]_vars
  PROVE  IInv'
  <1> USE StoreAssumption DEF IInv, TypeOK, TempInv, SidecarInv, BornInv, ReaderInv,
        procVars, readVars, Paths
  <1>1. ASSUME NEW p \in Processes, Spawned(p), UNCHANGED readVars, Prune
       PROVE  IInv'
    <2>1. TypeOK'
      <3>1. kept' \in [Readers -> SUBSET Processes]
        BY <1>1, PruneType
      <3> QED
        BY <1>1, <3>1 DEF Spawned
    <2>2. TempInv'
      BY <1>1 DEF Spawned, TempInv
    <2>3. SidecarInv'
      BY <1>1 DEF Spawned, SidecarInv
    <2>4. BornInv'
      BY <1>1 DEF Spawned, BornInv
    <2>5. DropInv'
      BY <1>1 DEF Spawned, DropInv
    <2>6. SoundInv'
      BY <1>1 DEF Spawned, SoundInv
    <2>7. CompleteInv'
      BY <1>1 DEF Spawned, CompleteInv, Ahead, Prune, StillKept
    <2>8. ReaderInv'
      BY <1>1 DEF Spawned, ReaderInv
    <2> QED
      BY <2>1, <2>2, <2>3, <2>4, <2>5, <2>6, <2>7, <2>8 DEF IInv
  <1>2. ASSUME NEW p \in Processes, WriteTemp(p), UNCHANGED readVars, Prune
       PROVE  IInv'
    <2>1. TypeOK'
      <3>1. kept' \in [Readers -> SUBSET Processes]
        BY <1>2, PruneType
      <3> QED
        BY <1>2, <3>1 DEF WriteTemp, Running, Advance
    <2>2. TempInv'
      BY <1>2 DEF WriteTemp, Running, Advance, TempInv
    <2>3. SidecarInv'
      BY <1>2 DEF WriteTemp, Running, Advance, SidecarInv
    <2>4. BornInv'
      BY <1>2 DEF WriteTemp, Running, Advance, BornInv
    <2>5. DropInv'
      BY <1>2 DEF WriteTemp, Running, Advance, DropInv
    <2>6. SoundInv'
      BY <1>2 DEF WriteTemp, Running, Advance, SoundInv
    <2>7. CompleteInv'
      BY <1>2 DEF WriteTemp, Running, Advance, CompleteInv, Ahead, Prune, StillKept
    <2>8. ReaderInv'
      BY <1>2 DEF WriteTemp, Running, Advance, ReaderInv
    <2> QED
      BY <2>1, <2>2, <2>3, <2>4, <2>5, <2>6, <2>7, <2>8 DEF IInv
  <1>3. ASSUME NEW p \in Processes, WriteContent(p), UNCHANGED readVars, Prune
       PROVE  IInv'
    <2>1. TypeOK'
      <3>1. kept' \in [Readers -> SUBSET Processes]
        BY <1>3, PruneType
      <3> QED
        BY <1>3, <3>1 DEF WriteContent, WriteFails, Running, Advance
    <2>2. TempInv'
      BY <1>3 DEF WriteContent, WriteFails, Running, Advance, TempInv
    <2>3. SidecarInv'
      BY <1>3 DEF WriteContent, WriteFails, Running, Advance, SidecarInv
    <2>4. BornInv'
      BY <1>3 DEF WriteContent, WriteFails, Running, Advance, BornInv
    <2>5. DropInv'
      BY <1>3 DEF WriteContent, WriteFails, Running, Advance, DropInv
    <2>6. SoundInv'
      BY <1>3 DEF WriteContent, WriteFails, Running, Advance, SoundInv
    <2>7. CompleteInv'
      BY <1>3 DEF WriteContent, WriteFails, Running, Advance, CompleteInv, Ahead, Prune, StillKept
    <2>8. ReaderInv'
      BY <1>3 DEF WriteContent, WriteFails, Running, Advance, ReaderInv
    <2> QED
      BY <2>1, <2>2, <2>3, <2>4, <2>5, <2>6, <2>7, <2>8 DEF IInv
  <1>4. ASSUME NEW p \in Processes, WriteReplace(p), UNCHANGED readVars, Prune
       PROVE  IInv'
    <2>1. TypeOK'
      <3>1. kept' \in [Readers -> SUBSET Processes]
        BY <1>4, PruneType
      <3> QED
        BY <1>4, <3>1 DEF WriteReplace, WriteFails, Running, Advance
    <2>2. TempInv'
      BY <1>4 DEF WriteReplace, WriteFails, Running, Advance, TempInv
    <2>3. SidecarInv'
      <3>1. CASE file[p] # NoFile /\ file' = [file EXCEPT ![sid[p]] = file[p], ![p] = NoFile]
        <4>1. file[p] = p /\ sid[p] \in Ids
          BY <1>4, <3>1 DEF WriteReplace, Running
        <4>2. \A id \in Ids : file'[id] = IF id = sid[p] THEN p ELSE file[id]
          BY <3>1, <4>1
        <4> QED
          BY <1>4, <4>1, <4>2 DEF WriteReplace, WriteFails, Advance
      <3>2. CASE WriteFails(p)
        BY <1>4, <3>2 DEF WriteFails, Advance
      <3> QED
        BY <1>4, <3>1, <3>2 DEF WriteReplace
    <2>4. BornInv'
      BY <1>4 DEF WriteReplace, WriteFails, Running, Advance, BornInv
    <2>5. DropInv'
      BY <1>4 DEF WriteReplace, WriteFails, Running, Advance, DropInv
    <2>6. SoundInv'
      BY <1>4 DEF WriteReplace, WriteFails, Running, Advance, SoundInv
    <2>7. CompleteInv'
      BY <1>4 DEF WriteReplace, WriteFails, Running, Advance, CompleteInv, Ahead, Prune, StillKept
    <2>8. ReaderInv'
      BY <1>4 DEF WriteReplace, WriteFails, Running, Advance, ReaderInv
    <2> QED
      BY <2>1, <2>2, <2>3, <2>4, <2>5, <2>6, <2>7, <2>8 DEF IInv
  <1>5. ASSUME NEW p \in Processes, Remove(p), UNCHANGED readVars, Prune
       PROVE  IInv'
    <2>1. TypeOK'
      <3>1. kept' \in [Readers -> SUBSET Processes]
        BY <1>5, PruneType
      <3> QED
        BY <1>5, <3>1 DEF Remove, Running, Advance
    <2>2. TempInv'
      BY <1>5 DEF Remove, Running, Advance, TempInv
    <2>3. SidecarInv'
      BY <1>5 DEF Remove, Running, Advance, SidecarInv
    <2>4. BornInv'
      BY <1>5 DEF Remove, Running, Advance, BornInv
    <2>5. DropInv'
      BY <1>5 DEF Remove, Running, Advance, DropInv
    <2>6. SoundInv'
      BY <1>5 DEF Remove, Running, Advance, SoundInv
    <2>7. CompleteInv'
      BY <1>5 DEF Remove, Running, Advance, CompleteInv, Ahead, Prune, StillKept
    <2>8. ReaderInv'
      BY <1>5 DEF Remove, Running, Advance, ReaderInv
    <2> QED
      BY <2>1, <2>2, <2>3, <2>4, <2>5, <2>6, <2>7, <2>8 DEF IInv
  <1>6. ASSUME NEW p \in Processes, Exit(p), UNCHANGED readVars, Prune
       PROVE  IInv'
    <2>1. TypeOK'
      <3>1. kept' \in [Readers -> SUBSET Processes]
        BY <1>6, PruneType
      <3> QED
        BY <1>6, <3>1 DEF Exit
    <2>2. TempInv'
      BY <1>6 DEF Exit, TempInv
    <2>3. SidecarInv'
      BY <1>6 DEF Exit, SidecarInv
    <2>4. BornInv'
      BY <1>6 DEF Exit, BornInv
    <2>5. DropInv'
      BY <1>6 DEF Exit, DropInv
    <2>6. SoundInv'
      BY <1>6 DEF Exit, SoundInv
    <2>7. CompleteInv'
      BY <1>6 DEF Exit, CompleteInv, Ahead, Prune, StillKept
    <2>8. ReaderInv'
      BY <1>6 DEF Exit, ReaderInv
    <2> QED
      BY <2>1, <2>2, <2>3, <2>4, <2>5, <2>6, <2>7, <2>8 DEF IInv
  <1>7. ASSUME NEW p \in Processes, Reaped(p), UNCHANGED readVars, Prune
       PROVE  IInv'
    <2>1. TypeOK'
      <3>1. kept' \in [Readers -> SUBSET Processes]
        BY <1>7, PruneType
      <3> QED
        BY <1>7, <3>1 DEF Reaped
    <2>2. TempInv'
      BY <1>7 DEF Reaped, TempInv
    <2>3. SidecarInv'
      BY <1>7 DEF Reaped, SidecarInv
    <2>4. BornInv'
      BY <1>7 DEF Reaped, BornInv
    <2>5. DropInv'
      BY <1>7 DEF Reaped, DropInv
    <2>6. SoundInv'
      BY <1>7 DEF Reaped, SoundInv
    <2>7. CompleteInv'
      BY <1>7 DEF Reaped, CompleteInv, Ahead, Prune, StillKept
    <2>8. ReaderInv'
      BY <1>7 DEF Reaped, ReaderInv
    <2> QED
      BY <2>1, <2>2, <2>3, <2>4, <2>5, <2>6, <2>7, <2>8 DEF IInv
  <1>8. ASSUME NEW r \in Readers, NextFile(r), UNCHANGED procVars, Prune
       PROVE  IInv'
    <2>1. TypeOK'
      <3>1. kept' \in [Readers -> SUBSET Processes]
        BY <1>8, PruneType
      <3>2. todo' \in [Readers -> SUBSET Paths]
        BY <1>8 DEF NextFile
      <3> QED
        BY <1>8, <3>1, <3>2 DEF NextFile
    <2>2. TempInv'
      BY <1>8 DEF NextFile, TempInv
    <2>3. SidecarInv'
      BY <1>8 DEF NextFile, SidecarInv
    <2>4. BornInv'
      BY <1>8 DEF NextFile, BornInv
    <2>5. DropInv'
      BY <1>8 DEF NextFile, DropInv
    <2>6. SoundInv'
      BY <1>8 DEF NextFile, SoundInv
    <2>7. CompleteInv'
      BY <1>8 DEF NextFile, CompleteInv, Ahead, Prune, StillKept
    <2>8. ReaderInv'
      BY <1>8 DEF NextFile, ReaderInv
    <2> QED
      BY <2>1, <2>2, <2>3, <2>4, <2>5, <2>6, <2>7, <2>8 DEF IInv
  <1>9. ASSUME NEW r \in Readers, Load(r), UNCHANGED procVars, Prune
       PROVE  IInv'
    <2>1. TypeOK'
      <3>1. kept' \in [Readers -> SUBSET Processes]
        BY <1>9, PruneType
      <3> QED
        BY <1>9, <3>1 DEF Load
    <2>2. TempInv'
      BY <1>9 DEF Load, TempInv
    <2>3. SidecarInv'
      BY <1>9 DEF Load, SidecarInv
    <2>4. BornInv'
      BY <1>9 DEF Load, BornInv
    <2>5. DropInv'
      BY <1>9 DEF Load, DropInv
    <2>6. SoundInv'
      BY <1>9 DEF Load, SoundInv
    <2>7. CompleteInv'
      BY <1>9 DEF Load, CompleteInv, Ahead, Prune, StillKept
    <2>8. ReaderInv'
      BY <1>9 DEF Load, ReaderInv
    <2> QED
      BY <2>1, <2>2, <2>3, <2>4, <2>5, <2>6, <2>7, <2>8 DEF IInv
  <1>10. ASSUME NEW r \in Readers, Check(r), UNCHANGED procVars, Prune
       PROVE  IInv'
    <2>1. TypeOK'
      <3>1. kept' \in [Readers -> SUBSET Processes]
        BY <1>10, PruneType
      <3>2. result' \in [Readers -> SUBSET Processes]
        BY <1>10 DEF Check
      <3> QED
        BY <1>10, <3>1, <3>2 DEF Check, FileDone, IsPidAlive
    <2>2. TempInv'
      BY <1>10 DEF Check, FileDone, IsPidAlive, TempInv
    <2>3. SidecarInv'
      BY <1>10 DEF Check, FileDone, IsPidAlive, SidecarInv
    <2>4. BornInv'
      BY <1>10 DEF Check, FileDone, IsPidAlive, BornInv
    <2>5. DropInv'
      BY <1>10 DEF Check, FileDone, IsPidAlive, DropInv
    <2>6. SoundInv'
      BY <1>10 DEF Check, FileDone, IsPidAlive, SoundInv
    <2>7. CompleteInv'
      BY <1>10 DEF Check, FileDone, IsPidAlive, CompleteInv, Ahead, Prune, StillKept
    <2>8. ReaderInv'
      BY <1>10 DEF Check, FileDone, IsPidAlive, ReaderInv
    <2> QED
      BY <2>1, <2>2, <2>3, <2>4, <2>5, <2>6, <2>7, <2>8 DEF IInv
  <1>11. ASSUME NEW r \in Readers, Drop(r), UNCHANGED procVars, Prune
       PROVE  IInv'
    <2>1. TypeOK'
      <3>1. kept' \in [Readers -> SUBSET Processes]
        BY <1>11, PruneType
      <3> QED
        BY <1>11, <3>1 DEF Drop, FileDone
    <2>2. TempInv'
      BY <1>11 DEF Drop, FileDone, TempInv
    <2>3. SidecarInv'
      BY <1>11 DEF Drop, FileDone, SidecarInv
    <2>4. BornInv'
      BY <1>11 DEF Drop, FileDone, BornInv
    <2>5. DropInv'
      BY <1>11 DEF Drop, FileDone, DropInv
    <2>6. SoundInv'
      BY <1>11 DEF Drop, FileDone, SoundInv
    <2>7. CompleteInv'
      BY <1>11 DEF Drop, FileDone, CompleteInv, Ahead, Prune, StillKept
    <2>8. ReaderInv'
      BY <1>11 DEF Drop, FileDone, ReaderInv
    <2> QED
      BY <2>1, <2>2, <2>3, <2>4, <2>5, <2>6, <2>7, <2>8 DEF IInv
  <1>12. ASSUME NEW r \in Readers, Return(r)
       PROVE  IInv'
    <2>1. TypeOK'
      BY <1>12 DEF Return, TypeOK
    <2>2. TempInv'
      BY <1>12 DEF Return, TempInv
    <2>3. SidecarInv'
      BY <1>12 DEF Return, SidecarInv
    <2>4. BornInv'
      BY <1>12 DEF Return, BornInv
    <2>5. DropInv'
      BY <1>12 DEF Return, DropInv
    <2>6. SoundInv'
      BY <1>12 DEF Return, SoundInv
    <2>7. CompleteInv'
      BY <1>12 DEF Return, CompleteInv, Ahead, Prune, StillKept
    <2>8. ReaderInv'
      BY <1>12 DEF Return, ReaderInv
    <2> QED
      BY <2>1, <2>2, <2>3, <2>4, <2>5, <2>6, <2>7, <2>8 DEF IInv
  <1>13. ASSUME NEW r \in Readers, BeginListAll(r), UNCHANGED procVars
       PROVE  IInv'
    <2>1. TypeOK'
      BY <1>13 DEF BeginListAll, Begin, Published, TypeOK
    <2>2. TempInv'
      BY <1>13 DEF BeginListAll, Begin, Published, TempInv
    <2>3. SidecarInv'
      BY <1>13 DEF BeginListAll, Begin, Published, SidecarInv
    <2>4. BornInv'
      BY <1>13 DEF BeginListAll, Begin, Published, BornInv
    <2>5. DropInv'
      BY <1>13 DEF BeginListAll, Begin, Published, DropInv
    <2>6. SoundInv'
      BY <1>13 DEF BeginListAll, Begin, Published, SoundInv
    <2>7. CompleteInv'
      BY <1>13 DEF BeginListAll, Begin, Published, CompleteInv, Ahead, Prune, StillKept
    <2>8. ReaderInv'
      BY <1>13 DEF BeginListAll, Begin, Published, ReaderInv
    <2> QED
      BY <2>1, <2>2, <2>3, <2>4, <2>5, <2>6, <2>7, <2>8 DEF IInv
  <1>14. ASSUME NEW r \in Readers, NEW id \in Ids, BeginGet(r, id), UNCHANGED procVars
       PROVE  IInv'
    <2>1. TypeOK'
      BY <1>14 DEF BeginGet, Begin, Published, TypeOK
    <2>2. TempInv'
      BY <1>14 DEF BeginGet, Begin, Published, TempInv
    <2>3. SidecarInv'
      BY <1>14 DEF BeginGet, Begin, Published, SidecarInv
    <2>4. BornInv'
      BY <1>14 DEF BeginGet, Begin, Published, BornInv
    <2>5. DropInv'
      BY <1>14 DEF BeginGet, Begin, Published, DropInv
    <2>6. SoundInv'
      BY <1>14 DEF BeginGet, Begin, Published, SoundInv
    <2>7. CompleteInv'
      BY <1>14 DEF BeginGet, Begin, Published, CompleteInv, Ahead, Prune, StillKept
    <2>8. ReaderInv'
      BY <1>14 DEF BeginGet, Begin, Published, ReaderInv
    <2> QED
      BY <2>1, <2>2, <2>3, <2>4, <2>5, <2>6, <2>7, <2>8 DEF IInv
  <1>15. CASE UNCHANGED vars
    <2>1. TypeOK'
      BY <1>15 DEF vars, TypeOK
    <2>2. TempInv'
      BY <1>15 DEF vars, TempInv
    <2>3. SidecarInv'
      BY <1>15 DEF vars, SidecarInv
    <2>4. BornInv'
      BY <1>15 DEF vars, BornInv
    <2>5. DropInv'
      BY <1>15 DEF vars, DropInv
    <2>6. SoundInv'
      BY <1>15 DEF vars, SoundInv
    <2>7. CompleteInv'
      BY <1>15 DEF vars, CompleteInv, Ahead, Prune, StillKept
    <2>8. ReaderInv'
      BY <1>15 DEF vars, ReaderInv
    <2> QED
      BY <2>1, <2>2, <2>3, <2>4, <2>5, <2>6, <2>7, <2>8 DEF IInv
  <1> QED
    BY <1>1, <1>2, <1>3, <1>4, <1>5, <1>6, <1>7, <1>8, <1>9, <1>10, <1>11, <1>12, <1>13, <1>14, <1>15
    DEF Next, ProcessStep, ReadStep, Write

\* The inductive invariant holds in every reachable state.
THEOREM Invariance == Spec => []IInv
  <1>1. Init => IInv
    BY Initially
  <1>2. IInv /\ [Next]_vars => IInv'
    BY InvStep
  <1> QED
    BY <1>1, <1>2, PTL DEF Spec

-----------------------------------------------------------------------------
(* The theorems.                                                           *)

\* Processes, files and calls are always in one of their states.
THEOREM TypeCorrect == Spec => []TypeOK
  <1>1. IInv => TypeOK
    BY DEF IInv
  <1> QED
    BY <1>1, Invariance, PTL

\* A sidecar that exists is complete and belongs to its id.
THEOREM SidecarsComplete == Spec => []SidecarComplete
  <1>1. IInv => SidecarComplete
    BY DEF IInv, SidecarInv, SidecarComplete
  <1> QED
    BY <1>1, Invariance, PTL

\* get and list_all only decide to remove what describes a dead process.
THEOREM DropDecisions == Spec => []DropDecisionSound
  <1>1. IInv => DropDecisionSound
    BY DEF IInv, DropInv, DropDecisionSound
  <1> QED
    BY <1>1, Invariance, PTL

\* A session live throughout a call is in its answer.
THEOREM ScansComplete == Spec => []ScanComplete
  <1>1. IInv => ScanComplete
    BY DEF IInv, CompleteInv, Ahead, ScanComplete
  <1> QED
    BY <1>1, Invariance, PTL

\* A process gone before the call began is not in its answer.
THEOREM ScansSound == Spec => []ScanSound
  <1>1. IInv => ScanSound
    BY DEF IInv, SoundInv, ScanSound
  <1> QED
    BY <1>1, Invariance, PTL
=============================================================================
