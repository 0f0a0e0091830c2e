--------------------------- MODULE Control_proofs ---------------------------
(***************************************************************************)
(* Proofs about Control, for any binaries, paths, processes and commands.  *)
(***************************************************************************)
EXTENDS Control, FiniteSetTheorems, WellFoundedInduction, TLAPS

Openers == {"open_file", "reanalyse_file"}

OpenStages == {"lock", "check", "delete", "spawn", "await"}

\* TypeOK, but for the sessions of a command and what becomes of them, which are left to
\* CloseInv below.
TypeInv ==
  /\ ida \in [Idas -> {"unborn", "started", "analysing", "running", "saving", "gone"}]
  /\ bin \in [Idas -> Sessions \cup {None}]
  /\ base \in [Idas -> Idas \cup {Old, None}]
  /\ sidecar \in [Sessions -> Idas \cup {None}]
  /\ db \in [Sessions -> Idas \cup {Old, None}]
  /\ pc \in [Commands -> {"idle", "scan", "contact", "get", "wait", "lock", "check",
                          "delete", "spawn", "await", "done"}]
  /\ req \in [Commands -> Requests]
  /\ targets = [k \in Commands |-> targets[k]]
  /\ left \in [Commands -> SUBSET Sessions]
  /\ listed \in [Commands -> SUBSET Sessions]
  /\ lock \in [Sessions -> Commands \cup {None}]
  /\ child \in [Commands -> Idas \cup {None}]
  /\ kept \in [Commands -> SUBSET Sessions]
  /\ before \in [Commands -> SUBSET Idas]
  /\ unseen \in [Commands -> SUBSET Idas]

\* A process was started on a binary, loads once, and is named by a sidecar only after
\* it has published it.
IdaInv ==
  /\ \A i \in Idas : ida[i] # "unborn" => bin[i] \in Sessions
  /\ \A i \in Idas : ida[i] \in {"unborn", "started"} => base[i] = None
  /\ \A s \in Sessions : sidecar[s] # None =>
       bin[sidecar[s]] = s /\ ida[sidecar[s]] \in {"running", "saving", "gone"}

\* An open knows its session, and has the session's lock from its check to its end.
LockInv ==
  \A k \in Commands :
    /\ pc[k] \in OpenStages => Tool(k) \in Openers /\ Session(k) \in Sessions
    /\ pc[k] \in OpenStages \ {"lock"} => lock[Session(k)] = k

\* What boots is the child of an open that waits for it.
ChildInv ==
  /\ \A k \in Commands :
       /\ child[k] # None => pc[k] \in {"await", "done"} /\ ida[child[k]] # "unborn"
       /\ pc[k] = "await" => child[k] \in Idas /\ bin[child[k]] = Session(k)
  /\ \A j, k \in Commands : child[j] = child[k] /\ child[k] # None => j = k
  /\ \A i \in Idas : ida[i] \in {"started", "analysing"} =>
       \E k \in Commands : pc[k] = "await" /\ child[k] = i

\* What an open found out about processes and sidecars is still so: no other session of
\* the binary appears while it has the lock.
AbsentInv ==
  \A k \in Commands : pc[k] \in {"delete", "spawn", "await"} =>
    \A i \in Idas : Alive(i) =>
      /\ sidecar[Session(k)] = i => child[k] = i
      /\ bin[i] = Session(k) => i \in unseen[k] \cup {child[k]}

\* The database of command k's binary may be loaded by its child.
Clean(k) ==
  \/ db[Session(k)] = None
  \/ db[Session(k)] \in unseen[k] /\ ida[db[Session(k)]] = "gone"
  \/ Session(k) \in kept[k]

\* It may still be loaded.
Pending(k) ==
  \/ pc[k] = "delete" /\ Session(k) \notin left[k]
  \/ pc[k] = "spawn"
  \/ pc[k] = "await" /\ ida[child[k]] = "started"

LoadedClean(k) ==
  \/ base[child[k]] = None
  \/ base[child[k]] \in unseen[k] /\ ida[base[child[k]]] = "gone"
  \/ bin[child[k]] \in kept[k]

FreshInv ==
  \A k \in Commands : Fresh(k) =>
    /\ Pending(k) => Clean(k)
    /\ child[k] # None => LoadedClean(k)

\* Who was advertised when a listing began, and still is, is in it, or yet to come.
ScanInv ==
  \A k \in Commands : \A i \in before[k] :
    /\ ida[i] \in {"running", "saving", "gone"}
    /\ pc[k] = "scan" /\ Advertised(i) => bin[i] \in listed[k] \cup left[k]

IInv == TypeInv /\ IdaInv /\ LockInv /\ ChildInv /\ AbsentInv /\ FreshInv /\ ScanInv

-----------------------------------------------------------------------------
\* The invariant holds when nothing has been asked yet.
LEMMA Initially ==
  ASSUME Init
  PROVE  IInv
  <1> USE ControlAssumption DEF Init
  <1>1. TypeInv
    <2>1. [tool |-> "list_ida_sessions"] \in Requests
      BY DEF Requests, LocalTools
    <2> QED
      BY <2>1 DEF TypeInv
  <1>2. IdaInv
    BY DEF IdaInv
  <1>3. LockInv /\ ChildInv /\ AbsentInv /\ ScanInv
    BY DEF LockInv, ChildInv, AbsentInv, ScanInv, OpenStages
  <1>4. FreshInv
    BY DEF FreshInv, Fresh, Tool
  <1> QED
    BY <1>1, <1>2, <1>3, <1>4 DEF IInv

\* A request to open something names one session.
LEMMA OpenerNames ==
  ASSUME NEW r \in Requests, r.tool \in Openers
  PROVE  /\ Named(r) = <<SessionOf[r.path]>> /\ SessionOf[r.path] \in Sessions
         /\ Begin(r) = "lock"
  <1>1. r.path \in Paths
    BY DEF Requests, Openers
  <1>2. Named(r) = <<SessionOf[r.path]>>
    BY DEF Named, Openers
  <1>3. Begin(r) = "lock"
    BY <1>2 DEF Begin, Openers
  <1> QED
    BY <1>1, <1>2, <1>3, ControlAssumption

\* Another request begins somewhere else.
LEMMA OthersBegin ==
  ASSUME NEW r \in Requests, r.tool \notin Openers
  PROVE  Begin(r) \in {"scan", "contact", "get"}
  <1>1. CASE Named(r) = <<>>
    BY <1>1 DEF Begin, Openers
  <1>2. CASE Named(r) # <<>>
    BY <1>2 DEF Begin, Openers
  <1> QED
    BY <1>1, <1>2

-----------------------------------------------------------------------------
\* IDA loads the database.
LEMMA LoadStep ==
  ASSUME IInv, NEW i \in Idas, Load(i)
  PROVE  IInv'
  <1> USE ControlAssumption DEF IInv
  <1>0. /\ ida[i] = "started" /\ ida' = [ida EXCEPT ![i] = "analysing"]
        /\ base' = [base EXCEPT ![i] = db[bin[i]]]
        /\ UNCHANGED <<bin, sidecar, db, pc, req, targets, left, listed, before, lock, child, kept, unseen>>
    BY DEF Load, Turns, vars, idaVars, disk, cmdVars, callVars, listVars, closeVars, openVars
  <1>1. TypeInv'
    BY <1>0 DEF TypeInv, IdaInv
  <1>2. IdaInv'
    BY <1>0 DEF IdaInv, TypeInv
  <1>3. LockInv'
    BY <1>0 DEF LockInv, TypeInv, Tool, Session, OpenStages
  <1>4. ChildInv'
    BY <1>0 DEF ChildInv, TypeInv, Session
  <1>5. AbsentInv'
    BY <1>0 DEF AbsentInv, TypeInv, Alive, Session
  <1>6. FreshInv'
    <2>1. \A k \in Commands : Fresh(k)' => Fresh(k)
      BY <1>0 DEF Fresh, Tool
    <2>2. ASSUME NEW k \in Commands, Fresh(k), Pending(k)'
          PROVE  Clean(k)'
      BY <1>0, <2>2 DEF FreshInv, Pending, Clean, TypeInv, Session, ChildInv
    <2>3. ASSUME NEW k \in Commands, Fresh(k), child[k] # None, child[k] # i
          PROVE  LoadedClean(k)'
      BY <1>0, <2>3 DEF FreshInv, LoadedClean, TypeInv
    <2>4. ASSUME NEW k \in Commands, Fresh(k), child[k] = i
          PROVE  LoadedClean(k)'
      <3>1. pc[k] = "await" /\ bin[i] = Session(k)
        BY <1>0, <2>4 DEF ChildInv, TypeInv
      <3>2. Clean(k)
        BY <1>0, <2>4, <3>1 DEF FreshInv, Pending
      <3> QED
        BY <1>0, <2>4, <3>1, <3>2 DEF Clean, LoadedClean, TypeInv
    <2> QED
      BY <1>0, <2>1, <2>2, <2>3, <2>4 DEF FreshInv
  <1>7. ScanInv'
    BY <1>0 DEF ScanInv, TypeInv, Advertised
  <1> QED
    BY <1>1, <1>2, <1>3, <1>4, <1>5, <1>6, <1>7

\* IDA publishes its sidecar.
LEMMA PublishStep ==
  ASSUME IInv, NEW i \in Idas, Publish(i)
  PROVE  IInv'
  <1> USE ControlAssumption DEF IInv
  <1>0. /\ ida[i] = "analysing" /\ ida' = [ida EXCEPT ![i] = "running"]
        /\ sidecar' = [sidecar EXCEPT ![bin[i]] = i]
        /\ UNCHANGED <<bin, base, db, pc, req, targets, left, listed, before, lock, child, kept, unseen>>
    BY DEF Publish, Turns, vars, idaVars, disk, cmdVars, callVars, listVars, closeVars, openVars
  <1>1. TypeInv'
    BY <1>0 DEF TypeInv
  <1>2. IdaInv'
    BY <1>0 DEF IdaInv, TypeInv
  <1>3. LockInv'
    BY <1>0 DEF LockInv, TypeInv, Tool, Session, OpenStages
  <1>4. ChildInv'
    BY <1>0 DEF ChildInv, TypeInv, Session
  <1>5. AbsentInv'
        <2> SUFFICES ASSUME NEW k \in Commands, pc'[k] \in {"delete", "spawn", "await"},
                        NEW j \in Idas, Alive(j)'
                 PROVE  /\ sidecar'[Session(k)'] = j => child'[k] = j
                        /\ bin'[j] = Session(k)' => j \in unseen'[k] \cup {child'[k]}
      BY DEF AbsentInv
    <2>1. Session(k)' = Session(k) /\ Session(k) \in Sessions /\ lock[Session(k)] = k /\ Alive(j)
      BY <1>0 DEF LockInv, OpenStages, Session, Alive, TypeInv
    <2>2. CASE Session(k) # bin[i]
      BY <1>0, <2>1, <2>2 DEF AbsentInv, TypeInv
    <2>3. CASE Session(k) = bin[i]
      <3>1. PICK h \in Commands : pc[h] = "await" /\ child[h] = i
        BY <1>0 DEF ChildInv
      <3>2. h = k
        BY <3>1, <2>1, <2>3 DEF ChildInv, LockInv, OpenStages
      <3> QED
        BY <1>0, <2>1, <2>3, <3>1, <3>2 DEF AbsentInv, TypeInv, IdaInv
    <2> QED
      BY <2>2, <2>3
  <1>6. FreshInv'
    BY <1>0 DEF FreshInv, Pending, Clean, LoadedClean, TypeInv, Fresh, Tool, Session
  <1>7. ScanInv'
    BY <1>0 DEF ScanInv, TypeInv, Advertised
  <1> QED
    BY <1>1, <1>2, <1>3, <1>4, <1>5, <1>6, <1>7

\* IDA withdraws what is published under its id.
LEMMA WithdrawStep ==
  ASSUME IInv, NEW i \in Idas, Withdraw(i)
  PROVE  IInv'
  <1> USE ControlAssumption DEF IInv
  <1>0. /\ ida[i] = "running" /\ ida' = [ida EXCEPT ![i] = "saving"]
        /\ sidecar' = [sidecar EXCEPT ![bin[i]] = None]
        /\ UNCHANGED <<bin, base, db, pc, req, targets, left, listed, before, lock, child, kept, unseen>>
    BY DEF Withdraw, Turns, vars, idaVars, disk, cmdVars, callVars, listVars, closeVars, openVars
  <1>1. TypeInv'
    BY <1>0 DEF TypeInv
  <1>2. IdaInv'
    BY <1>0 DEF IdaInv, TypeInv
  <1>3. LockInv'
    BY <1>0 DEF LockInv, TypeInv, Tool, Session, OpenStages
  <1>4. ChildInv'
    BY <1>0 DEF ChildInv, TypeInv, Session
  <1>5. AbsentInv'
    BY <1>0 DEF AbsentInv, TypeInv, Alive, Session
  <1>6. FreshInv'
    BY <1>0 DEF FreshInv, Pending, Clean, LoadedClean, TypeInv, Fresh, Tool, Session
  <1>7. ScanInv'
    BY <1>0 DEF ScanInv, TypeInv, Advertised
  <1> QED
    BY <1>1, <1>2, <1>3, <1>4, <1>5, <1>6, <1>7

\* IDA writes the database and ends.
LEMMA SaveStep ==
  ASSUME IInv, NEW i \in Idas, Save(i)
  PROVE  IInv'
  <1> USE ControlAssumption DEF IInv
  <1>0. /\ ida[i] = "saving" /\ ida' = [ida EXCEPT ![i] = "gone"]
        /\ db' = [db EXCEPT ![bin[i]] = i]
        /\ UNCHANGED <<bin, base, sidecar, pc, req, targets, left, listed, before, lock, child, kept, unseen>>
    BY DEF Save, Turns, vars, idaVars, disk, cmdVars, callVars, listVars, closeVars, openVars
  <1>1. TypeInv'
    BY <1>0 DEF TypeInv
  <1>2. IdaInv'
    BY <1>0 DEF IdaInv, TypeInv
  <1>3. LockInv'
    BY <1>0 DEF LockInv, TypeInv, Tool, Session, OpenStages
  <1>4. ChildInv'
    BY <1>0 DEF ChildInv, TypeInv, Session
  <1>5. AbsentInv'
    BY <1>0 DEF AbsentInv, TypeInv, Alive, Session
  <1>6. FreshInv'
    <2>1. ASSUME NEW k \in Commands
          PROVE  Fresh(k)' = Fresh(k) /\ Session(k)' = Session(k) /\ (Pending(k)' => Pending(k))
      BY <1>0 DEF Fresh, Tool, Pending, Session, ChildInv, TypeInv
    <2>2. ASSUME NEW k \in Commands, Fresh(k), Pending(k)
          PROVE  Clean(k)'
      <3>1. Clean(k) /\ Session(k) \in Sessions
        BY <2>2 DEF FreshInv, Pending, LockInv, OpenStages
      <3>2. CASE bin[i] # Session(k)
        BY <1>0, <2>1, <3>1, <3>2 DEF Clean, TypeInv
      <3>3. CASE bin[i] = Session(k)
        <4>1. i \in unseen[k]
          BY <1>0, <2>2, <3>3 DEF AbsentInv, Alive, Pending, ChildInv
        <4> QED
          BY <1>0, <2>1, <3>1, <4>1, <3>3 DEF Clean, TypeInv, IdaInv
      <3> QED
        BY <3>2, <3>3
    <2>3. ASSUME NEW k \in Commands, Fresh(k), child[k] # None
          PROVE  LoadedClean(k)'
      BY <1>0, <2>3 DEF FreshInv, LoadedClean, TypeInv
    <2> QED
      BY <1>0, <2>1, <2>2, <2>3 DEF FreshInv
  <1>7. ScanInv'
    BY <1>0 DEF ScanInv, TypeInv, Advertised
  <1> QED
    BY <1>1, <1>2, <1>3, <1>4, <1>5, <1>6, <1>7

\* IDA dies.
LEMMA CrashStep ==
  ASSUME IInv, NEW i \in Idas, Crash(i)
  PROVE  IInv'
  <1> USE ControlAssumption DEF IInv
  <1>0. /\ ida[i] # "unborn" /\ ida' = [ida EXCEPT ![i] = "gone"]
        /\ UNCHANGED <<bin, base, sidecar, db, pc, req, targets, left, listed, before, lock, child, kept, unseen>>
    BY DEF Crash, Alive, vars, idaVars, disk, cmdVars, callVars, listVars, closeVars, openVars
  <1>1. TypeInv'
    BY <1>0 DEF TypeInv
  <1>2. IdaInv'
    BY <1>0 DEF IdaInv, TypeInv
  <1>3. LockInv'
    BY <1>0 DEF LockInv, TypeInv, Tool, Session, OpenStages
  <1>4. ChildInv'
    BY <1>0 DEF ChildInv, TypeInv, Session
  <1>5. AbsentInv'
    BY <1>0 DEF AbsentInv, TypeInv, Alive, Session
  <1>6. FreshInv'
    BY <1>0 DEF FreshInv, Pending, Clean, LoadedClean, TypeInv, Fresh, Tool, Session
  <1>7. ScanInv'
    BY <1>0 DEF ScanInv, TypeInv, Advertised
  <1> QED
    BY <1>1, <1>2, <1>3, <1>4, <1>5, <1>6, <1>7

\* A command begins.
LEMMA StartStep ==
  ASSUME IInv, NEW k \in Commands, NEW r \in Requests, Start(k, r)
  PROVE  IInv'
  <1> USE ControlAssumption DEF IInv
  <1>0. /\ pc[k] = "idle"
        /\ req' = [req EXCEPT ![k] = r]
        /\ before' = [before EXCEPT ![k] = {i \in Idas : Advertised(i) /\ (Begin(r) = "scan" \/ r.tool = "session close")}]
        /\ \/ /\ pc' = [pc EXCEPT ![k] = Begin(r)]
              /\ targets' = [targets EXCEPT ![k] = Named(r)]
              /\ left' = [left EXCEPT ![k] = {s \in Sessions : Begin(r) = "scan" /\ sidecar[s] # None}]
           \/ pc' = [pc EXCEPT ![k] = "done"] /\ UNCHANGED <<targets, left>>
        /\ UNCHANGED <<ida, bin, base, sidecar, db, listed, lock, child, kept, unseen>>
    BY DEF Start, Goes, Ends, vars, idaVars, disk, cmdVars, callVars, listVars, closeVars, openVars
  <1>b. Begin(r) \in {"lock", "scan", "contact", "get"}
    BY OpenerNames, OthersBegin
  <1>c. Begin(r) = "lock" => r.tool \in Openers /\ Named(r)[1] \in Sessions
    BY OpenerNames, OthersBegin
  <1>d. child[k] = None
    BY <1>0 DEF ChildInv
  <1>e. pc'[k] \in {Begin(r), "done"} /\ pc'[k] \in {"lock", "scan", "contact", "get", "done"}
    BY <1>0, <1>b DEF TypeInv
  <1>f. \A h \in Commands \ {k} : /\ pc'[h] = pc[h] /\ req'[h] = req[h]
                                  /\ targets'[h] = targets[h] /\ left'[h] = left[h]
                                  /\ before'[h] = before[h]
    BY <1>0 DEF TypeInv
  <1>g. UNCHANGED <<ida, bin, base, sidecar, db, listed, lock, child, kept, unseen>>
    BY <1>0
  <1>1. TypeInv'
    <2>1. pc' \in [Commands -> {"idle", "scan", "contact", "get", "wait", "lock", "check",
                                "delete", "spawn", "await", "done"}]
      <3>1. CASE pc' = [pc EXCEPT ![k] = Begin(r)]
        BY <1>b, <3>1 DEF TypeInv
      <3>2. CASE pc' = [pc EXCEPT ![k] = "done"]
        BY <3>2 DEF TypeInv
      <3> QED
        BY <1>0, <3>1, <3>2
    <2>2. req' \in [Commands -> Requests] /\ targets' = [h \in Commands |-> targets'[h]]
      BY <1>0 DEF TypeInv
    <2>3. left' \in [Commands -> SUBSET Sessions]
      <3>1. left' = left \/ \E l \in SUBSET Sessions : left' = [left EXCEPT ![k] = l]
        BY <1>0
      <3> QED
        BY <3>1 DEF TypeInv
    <2>4. before' \in [Commands -> SUBSET Idas]
      BY <1>0 DEF TypeInv
    <2> QED
      BY <1>g, <2>1, <2>2, <2>3, <2>4 DEF TypeInv
  <1>2. IdaInv'
    BY <1>g DEF IdaInv
  <1>3. LockInv'
    <2>1. pc'[k] = "lock" => Tool(k)' \in Openers /\ Session(k)' \in Sessions
      BY <1>0, <1>b, <1>c DEF TypeInv, Tool, Session
    <2> QED
      BY <1>e, <1>f, <1>g, <2>1 DEF LockInv, Tool, Session, OpenStages
  <1>4. ChildInv'
    <2>1. ASSUME NEW h \in Commands
          PROVE  /\ child[h] # None => pc'[h] \in {"await", "done"} /\ ida[child[h]] # "unborn"
                 /\ pc'[h] = "await" => child[h] \in Idas /\ bin[child[h]] = Session(h)'
      BY <1>d, <1>e, <1>f, <2>1 DEF ChildInv, Session
    <2>2. \A h \in Commands : pc[h] = "await" => pc'[h] = "await"
      BY <1>0, <1>f
    <2> QED
      BY <1>g, <2>1, <2>2 DEF ChildInv
  <1>5. AbsentInv'
    BY <1>e, <1>f, <1>g DEF AbsentInv, Alive, Session
  <1>6. FreshInv'
    <2>1. ASSUME NEW h \in Commands, h # k, Fresh(h)'
          PROVE  Fresh(h) /\ (Pending(h)' => Pending(h)) /\ (Clean(h) => Clean(h)')
                   /\ (LoadedClean(h) => LoadedClean(h)')
      BY <1>f, <1>g, <2>1 DEF Fresh, Tool, Pending, Session, Clean, LoadedClean
    <2>2. ~Pending(k)'
      BY <1>e DEF Pending
    <2> QED
      BY <1>d, <1>g, <2>1, <2>2 DEF FreshInv
  <1>7. ScanInv'
    <2>1. ASSUME NEW h \in Commands, h # k, NEW i \in before'[h]
          PROVE  /\ ida'[i] \in {"running", "saving", "gone"}
                 /\ pc'[h] = "scan" /\ Advertised(i)' => bin'[i] \in listed'[h] \cup left'[h]
      BY <1>f, <1>g, <2>1 DEF ScanInv, Advertised
    <2>2. ASSUME NEW i \in before'[k]
          PROVE  /\ ida'[i] \in {"running", "saving", "gone"}
                 /\ pc'[k] = "scan" => bin'[i] \in left'[k]
      <3>1. i \in Idas /\ Advertised(i)
        BY <1>0, <2>2 DEF TypeInv
      <3>2. bin[i] \in Sessions /\ sidecar[bin[i]] # None
        BY <3>1 DEF IdaInv, Advertised, TypeInv
      <3>3. ASSUME pc'[k] = "scan"
            PROVE  bin[i] \in left'[k]
        <4>1. pc' = [pc EXCEPT ![k] = Begin(r)] /\ Begin(r) = "scan"
          BY <1>0, <3>3 DEF TypeInv
        <4>2. left' = [left EXCEPT ![k] = {s \in Sessions : Begin(r) = "scan" /\ sidecar[s] # None}]
          BY <1>0, <4>1, <3>3 DEF TypeInv
        <4> QED
          BY <4>1, <4>2, <3>2 DEF TypeInv
      <3> QED
        BY <1>g, <3>1, <3>3 DEF Advertised
    <2> QED
      BY <2>1, <2>2 DEF ScanInv
  <1> QED
    BY <1>1, <1>2, <1>3, <1>4, <1>5, <1>6, <1>7

\* One sidecar is looked at.
LEMMA ScanStep ==
  ASSUME IInv, NEW k \in Commands, NEW s \in Sessions, Scan(k, s)
  PROVE  IInv'
  <1> USE ControlAssumption DEF IInv
  <1>0. /\ pc[k] = "scan"
        /\ left' = [left EXCEPT ![k] = @ \ {s}]
        /\ listed' = [listed EXCEPT ![k] = IF Get(s) # None THEN @ \cup {s} ELSE @]
        /\ UNCHANGED <<ida, bin, base, sidecar, db, pc, req, targets, before, lock, child, kept, unseen>>
    BY DEF Scan, vars, idaVars, disk, cmdVars, callVars, listVars, closeVars, openVars
  <1>1. TypeInv'
    BY <1>0 DEF TypeInv
  <1>2. IdaInv'
    BY <1>0 DEF IdaInv, TypeInv
  <1>3. LockInv'
    BY <1>0 DEF LockInv, TypeInv, Tool, Session, OpenStages
  <1>4. ChildInv'
    BY <1>0 DEF ChildInv, TypeInv, Session
  <1>5. AbsentInv'
    BY <1>0 DEF AbsentInv, TypeInv, Alive, Session
  <1>6. FreshInv'
    BY <1>0 DEF FreshInv, Pending, Clean, LoadedClean, TypeInv, Fresh, Tool, Session
  <1>7. ScanInv'
    BY <1>0 DEF ScanInv, TypeInv, Advertised, IdaInv, Get, Alive
  <1> QED
    BY <1>1, <1>2, <1>3, <1>4, <1>5, <1>6, <1>7

\* A listing is complete.
LEMMA ResolveStep ==
  ASSUME IInv, NEW k \in Commands, Resolve(k)
  PROVE  IInv'
  <1> USE ControlAssumption DEF IInv
  <1>0. /\ pc[k] = "scan"
        /\ \E p \in {"done", "get", "contact"} : pc' = [pc EXCEPT ![k] = p]
        /\ listed' = [listed EXCEPT ![k] = {}]
        /\ before' = [before EXCEPT ![k] = IF Tool(k) = "session close" THEN @ ELSE {}]
        /\ UNCHANGED <<ida, bin, base, sidecar, db, req, left, lock, child, kept, unseen>>
    BY DEF Resolve, Goes, Ends, vars, idaVars, disk, cmdVars, callVars, listVars, closeVars, openVars
  <1>a. UNCHANGED targets \/ \E ts : targets' = [targets EXCEPT ![k] = ts]
    BY DEF Resolve
  <1>b. targets' = [h \in Commands |-> targets'[h]]
    BY <1>0, <1>a DEF TypeInv
  <1>p. PICK p \in {"done", "get", "contact"} : pc' = [pc EXCEPT ![k] = p]
    BY <1>0
  <1>q. pc' \in [Commands -> {"idle", "scan", "contact", "get", "wait", "lock", "check",
                              "delete", "spawn", "await", "done"}]
    BY <1>p DEF TypeInv
  <1>c. pc'[k] \in {"done", "get", "contact"} /\ child[k] = None
    BY <1>0, <1>p DEF TypeInv, ChildInv
  <1>r. before'[k] \subseteq before[k]
    BY <1>0 DEF TypeInv
  <1>d. \A h \in Commands \ {k} : targets'[h] = targets[h] /\ pc'[h] = pc[h]
                                    /\ before'[h] = before[h] /\ listed'[h] = listed[h]
    BY <1>0, <1>a DEF TypeInv
  <1>e. UNCHANGED <<ida, bin, base, sidecar, db, req, left, lock, child, kept, unseen>>
    BY <1>0
  <1>1. TypeInv'
    <2>1. listed' \in [Commands -> SUBSET Sessions]
      BY <1>0 DEF TypeInv
    <2>2. before' \in [Commands -> SUBSET Idas]
      BY <1>0 DEF TypeInv
    <2> QED
      BY <1>b, <1>q, <1>e, <2>1, <2>2 DEF TypeInv
  <1>2. IdaInv'
    BY <1>e DEF IdaInv
  <1>3. LockInv'
    BY <1>c, <1>d, <1>e DEF LockInv, Tool, Session, OpenStages
  <1>4. ChildInv'
    <2>1. ASSUME NEW h \in Commands
          PROVE  /\ child[h] # None => pc'[h] \in {"await", "done"} /\ ida[child[h]] # "unborn"
                 /\ pc'[h] = "await" => child[h] \in Idas /\ bin[child[h]] = Session(h)'
      BY <1>c, <1>d, <2>1 DEF ChildInv, Session
    <2>2. \A h \in Commands : pc[h] = "await" => pc'[h] = "await"
      BY <1>0, <1>d
    <2> QED
      BY <1>e, <2>1, <2>2 DEF ChildInv
  <1>5. AbsentInv'
    BY <1>c, <1>d, <1>e DEF AbsentInv, Alive, Session
  <1>6. FreshInv'
    <2>1. ASSUME NEW h \in Commands, h # k
          PROVE  /\ Fresh(h)' = Fresh(h) /\ Pending(h)' = Pending(h) /\ Clean(h)' = Clean(h)
                 /\ LoadedClean(h)' = LoadedClean(h)
      BY <1>d, <1>e, <2>1 DEF Fresh, Tool, Pending, Session, Clean, LoadedClean
    <2>2. ~Pending(k)'
      BY <1>c DEF Pending
    <2> QED
      BY <1>c, <1>e, <2>1, <2>2 DEF FreshInv
  <1>7. ScanInv'
    BY <1>c, <1>r, <1>d, <1>e DEF ScanInv, Advertised
  <1> QED
    BY <1>1, <1>2, <1>3, <1>4, <1>5, <1>6, <1>7

\* check_connection looks at its session.
LEMMA ContactStep ==
  ASSUME IInv, NEW k \in Commands, Contact(k)
  PROVE  IInv'
  <1> USE ControlAssumption DEF IInv
  <1>0. /\ pc[k] = "contact" /\ pc' = [pc EXCEPT ![k] = "done"]
        /\ UNCHANGED <<ida, bin, base, sidecar, db, req, targets, left, listed, before, lock, child, kept, unseen>>
    BY DEF Contact, Goes, Ends, vars, idaVars, disk, cmdVars, callVars, listVars, closeVars, openVars
  <1>1. TypeInv'
    BY <1>0 DEF TypeInv
  <1>2. IdaInv'
    BY <1>0 DEF IdaInv, TypeInv
  <1>3. LockInv'
    BY <1>0 DEF LockInv, TypeInv, Tool, Session, OpenStages
  <1>4. ChildInv'
    BY <1>0 DEF ChildInv, TypeInv, Session
  <1>5. AbsentInv'
    BY <1>0 DEF AbsentInv, TypeInv, Alive, Session
  <1>6. FreshInv'
    BY <1>0 DEF FreshInv, Pending, Clean, LoadedClean, TypeInv, Fresh, Tool, Session
  <1>7. ScanInv'
    BY <1>0 DEF ScanInv, TypeInv, Advertised
  <1> QED
    BY <1>1, <1>2, <1>3, <1>4, <1>5, <1>6, <1>7

\* close looks for its session.
LEMMA CloseGetStep ==
  ASSUME IInv, NEW k \in Commands, CloseGet(k)
  PROVE  IInv'
  <1> USE ControlAssumption DEF IInv
  <1>0. /\ pc[k] = "get"
        /\ pc' \in {[pc EXCEPT ![k] = p] : p \in {"get", "wait", "done"}}
        /\ UNCHANGED <<ida, bin, base, sidecar, db, req, targets, left, listed, before, lock, child, kept, unseen>>
    BY DEF CloseGet, Outcome, Goes, Ends, vars, idaVars, disk, cmdVars, callVars, listVars, closeVars, openVars
  <1>1. TypeInv'
    BY <1>0 DEF TypeInv
  <1>2. IdaInv'
    BY <1>0 DEF IdaInv, TypeInv
  <1>3. LockInv'
    BY <1>0 DEF LockInv, TypeInv, Tool, Session, OpenStages
  <1>4. ChildInv'
    BY <1>0 DEF ChildInv, TypeInv, Session
  <1>5. AbsentInv'
    BY <1>0 DEF AbsentInv, TypeInv, Alive, Session
  <1>6. FreshInv'
    BY <1>0 DEF FreshInv, Pending, Clean, LoadedClean, TypeInv, Fresh, Tool, Session
  <1>7. ScanInv'
    BY <1>0 DEF ScanInv, TypeInv, Advertised
  <1> QED
    BY <1>1, <1>2, <1>3, <1>4, <1>5, <1>6, <1>7

\* close sees that its session is gone.
LEMMA CloseGracefulStep ==
  ASSUME IInv, NEW k \in Commands, CloseGraceful(k)
  PROVE  IInv'
  <1> USE ControlAssumption DEF IInv
  <1>0. /\ pc[k] = "wait"
        /\ pc' \in {[pc EXCEPT ![k] = p] : p \in {"get", "done"}}
        /\ UNCHANGED <<ida, bin, base, sidecar, db, req, targets, left, listed, before, lock, child, kept, unseen>>
    BY DEF CloseGraceful, Outcome, Goes, Ends, vars, idaVars, disk, cmdVars, callVars, listVars, closeVars, openVars
  <1>1. TypeInv'
    BY <1>0 DEF TypeInv
  <1>2. IdaInv'
    BY <1>0 DEF IdaInv, TypeInv
  <1>3. LockInv'
    BY <1>0 DEF LockInv, TypeInv, Tool, Session, OpenStages
  <1>4. ChildInv'
    BY <1>0 DEF ChildInv, TypeInv, Session
  <1>5. AbsentInv'
    BY <1>0 DEF AbsentInv, TypeInv, Alive, Session
  <1>6. FreshInv'
    BY <1>0 DEF FreshInv, Pending, Clean, LoadedClean, TypeInv, Fresh, Tool, Session
  <1>7. ScanInv'
    BY <1>0 DEF ScanInv, TypeInv, Advertised
  <1> QED
    BY <1>1, <1>2, <1>3, <1>4, <1>5, <1>6, <1>7

\* close kills, and removes the sidecar.
LEMMA CloseEscalateStep ==
  ASSUME IInv, NEW k \in Commands, CloseEscalate(k)
  PROVE  IInv'
  <1> USE ControlAssumption DEF IInv
  <1>0. /\ pc[k] = "wait"
        /\ \E p \in {"get", "done"} : pc' = [pc EXCEPT ![k] = p]
        /\ ida' \in {ida, [ida EXCEPT ![found[k]] = IF Alive(found[k]) THEN "gone" ELSE @]}
        /\ sidecar' = [sidecar EXCEPT ![Target(k)] = None]
        /\ UNCHANGED <<bin, base, db, req, targets, left, listed, before, lock, child, kept, unseen>>
    BY DEF CloseEscalate, Outcome, Goes, Ends, vars, idaVars, disk, cmdVars, callVars,
           listVars, closeVars, openVars
  <1>a. \A i \in Idas : ida'[i] = ida[i] \/ (Alive(i) /\ ida'[i] = "gone")
    BY <1>0 DEF TypeInv
  <1>b. \A s \in Sessions : sidecar'[s] \in {sidecar[s], None}
    BY <1>0 DEF TypeInv
  <1>c. ida' \in [Idas -> {"unborn", "started", "analysing", "running", "saving", "gone"}]
    BY <1>0 DEF TypeInv
  <1>d. \A h \in Commands : pc'[h] = pc[h] \/ (h = k /\ pc[h] = "wait" /\ pc'[h] \in {"get", "done"})
    BY <1>0 DEF TypeInv
  <1>1. TypeInv'
    <2>1. sidecar' \in [Sessions -> Idas \cup {None}]
      BY <1>0 DEF TypeInv
    <2>2. pc' \in [Commands -> {"idle", "scan", "contact", "get", "wait", "lock", "check",
                                "delete", "spawn", "await", "done"}]
      BY <1>0 DEF TypeInv
    <2> QED
      BY <1>0, <1>c, <2>1, <2>2 DEF TypeInv
  <1>2. IdaInv'
    BY <1>0, <1>a, <1>b, <1>d DEF IdaInv, TypeInv, Alive
  <1>3. LockInv'
    BY <1>0, <1>a, <1>b, <1>d DEF LockInv, TypeInv, Tool, Session, OpenStages
  <1>4. ChildInv'
    BY <1>0, <1>a, <1>b, <1>d DEF ChildInv, TypeInv, Session, Alive
  <1>5. AbsentInv'
    BY <1>0, <1>a, <1>b, <1>d DEF AbsentInv, TypeInv, Alive, Session
  <1>6. FreshInv'
    <2>1. ASSUME NEW h \in Commands
          PROVE  /\ Fresh(h)' = Fresh(h)
                 /\ Pending(h)' => Pending(h)
      BY <1>0, <1>a, <1>d DEF Pending, Fresh, Tool, Session, Alive, ChildInv
    <2>2. ASSUME NEW h \in Commands, Pending(h), Clean(h)
          PROVE  Clean(h)'
      <3>1. db[Session(h)] # None => db[Session(h)] \in Idas \cup {Old}
        BY <2>2 DEF TypeInv, LockInv, OpenStages, Pending
      <3> QED
        BY <1>0, <1>a, <2>2, <3>1 DEF Clean, Session, Alive, TypeInv
    <2>3. ASSUME NEW h \in Commands, child[h] # None, LoadedClean(h)
          PROVE  LoadedClean(h)'
      <3>1. unseen[h] \subseteq Idas
        BY DEF TypeInv
      <3> QED
        BY <1>0, <1>a, <2>3, <3>1 DEF LoadedClean, Alive
    <2> QED
      BY <1>0, <2>1, <2>2, <2>3 DEF FreshInv
  <1>7. ScanInv'
    BY <1>0, <1>a, <1>b, <1>d DEF ScanInv, TypeInv, Advertised, Alive
  <1> QED
    BY <1>1, <1>2, <1>3, <1>4, <1>5, <1>6, <1>7

\* open gets the lock of its session.
LEMMA AcquireStep ==
  ASSUME IInv, NEW k \in Commands, Acquire(k)
  PROVE  IInv'
  <1> USE ControlAssumption DEF IInv
  <1>0. /\ pc[k] = "lock" /\ pc' = [pc EXCEPT ![k] = "check"]
        /\ lock[Session(k)] = None /\ lock' = [lock EXCEPT ![Session(k)] = k]
        /\ UNCHANGED <<ida, bin, base, sidecar, db, req, targets, left, listed, before, child, kept, unseen>>
    BY DEF Acquire, Goes, vars, idaVars, disk, cmdVars, callVars, listVars, closeVars, openVars
  <1>1. TypeInv'
    BY <1>0 DEF TypeInv
  <1>2. IdaInv'
    BY <1>0 DEF IdaInv, TypeInv
  <1>3. LockInv'
    BY <1>0 DEF LockInv, TypeInv, Tool, Session, OpenStages
  <1>4. ChildInv'
    BY <1>0 DEF ChildInv, TypeInv, Session
  <1>5. AbsentInv'
    BY <1>0 DEF AbsentInv, TypeInv, Alive, Session
  <1>6. FreshInv'
    BY <1>0 DEF FreshInv, Pending, Clean, LoadedClean, TypeInv, Fresh, Tool, Session
  <1>7. ScanInv'
    BY <1>0 DEF ScanInv, TypeInv, Advertised
  <1> QED
    BY <1>1, <1>2, <1>3, <1>4, <1>5, <1>6, <1>7

\* open finds its session.
LEMMA OpenExistingStep ==
  ASSUME IInv, NEW k \in Commands, OpenExisting(k)
  PROVE  IInv'
  <1> USE ControlAssumption DEF IInv
  <1>0. /\ pc[k] = "check"
        /\ pc' = [pc EXCEPT ![k] = "done"] /\ lock' = [lock EXCEPT ![Session(k)] = None]
        /\ UNCHANGED <<ida, bin, base, sidecar, db, req, targets, left, listed, before, child, kept, unseen>>
    BY DEF OpenExisting, Returns, Goes, Ends, vars, idaVars, disk, cmdVars, callVars, listVars, closeVars, openVars
  <1>1. TypeInv'
    BY <1>0 DEF TypeInv
  <1>2. IdaInv'
    BY <1>0 DEF IdaInv, TypeInv
  <1>3. LockInv'
    BY <1>0 DEF LockInv, TypeInv, Tool, Session, OpenStages
  <1>4. ChildInv'
    BY <1>0 DEF ChildInv, TypeInv, Session
  <1>5. AbsentInv'
    BY <1>0 DEF AbsentInv, TypeInv, Alive, Session
  <1>6. FreshInv'
    BY <1>0 DEF FreshInv, Pending, Clean, LoadedClean, TypeInv, Fresh, Tool, Session
  <1>7. ScanInv'
    BY <1>0 DEF ScanInv, TypeInv, Advertised
  <1> QED
    BY <1>1, <1>2, <1>3, <1>4, <1>5, <1>6, <1>7

\* open finds no session.
LEMMA OpenAbsentStep ==
  ASSUME IInv, NEW k \in Commands, OpenAbsent(k)
  PROVE  IInv'
  <1> USE ControlAssumption DEF IInv
  <1>0. /\ pc[k] = "check" /\ Get(Session(k)) = None
        /\ pc' = [pc EXCEPT ![k] = IF Fresh(k) THEN "delete" ELSE "spawn"]
        /\ left' = [left EXCEPT ![k] = {Session(k), Stem[Session(k)]}]
        /\ unseen' = [unseen EXCEPT ![k] = OnBinary(Session(k))]
        /\ UNCHANGED <<ida, bin, base, sidecar, db, req, targets, listed, before, lock, child, kept>>
    BY DEF OpenAbsent, Goes, vars, idaVars, disk, cmdVars, callVars, listVars, closeVars, openVars
  <1>1. TypeInv'
    BY <1>0 DEF TypeInv, LockInv, OpenStages, OnBinary
  <1>2. IdaInv'
    BY <1>0 DEF IdaInv, TypeInv
  <1>3. LockInv'
    BY <1>0 DEF LockInv, TypeInv, Tool, Session, OpenStages
  <1>4. ChildInv'
    BY <1>0 DEF ChildInv, TypeInv, Session
  <1>5. AbsentInv'
    BY <1>0 DEF AbsentInv, TypeInv, Alive, Session, Get, OnBinary
  <1>6. FreshInv'
    <2>1. \A h \in Commands : Session(h)' = Session(h) /\ Fresh(h)' = Fresh(h) /\ child'[h] = child[h]
      BY <1>0 DEF Session, Fresh, Tool
    <2>2. ~Pending(k)' \/ ~Fresh(k)
      BY <1>0, <2>1 DEF Pending, TypeInv
    <2>3. child[k] = None
      BY <1>0 DEF ChildInv
    <2>4. ASSUME NEW h \in Commands, h # k
          PROVE  /\ Pending(h)' => Pending(h)
                 /\ Clean(h) => Clean(h)'
                 /\ LoadedClean(h) => LoadedClean(h)'
      BY <1>0, <2>1, <2>4 DEF Pending, Clean, LoadedClean, TypeInv
    <2> QED
      BY <2>1, <2>2, <2>3, <2>4 DEF FreshInv
  <1>7. ScanInv'
    BY <1>0 DEF ScanInv, TypeInv, Advertised
  <1> QED
    BY <1>1, <1>2, <1>3, <1>4, <1>5, <1>6, <1>7

\* open deletes a database, or fails to.
LEMMA DeleteStep ==
  ASSUME IInv, NEW k \in Commands, NEW s \in Sessions, Delete(k, s)
  PROVE  IInv'
  <1> USE ControlAssumption DEF IInv
  <1>0. /\ pc[k] = "delete" /\ s \in left[k]
        /\ pc' = [pc EXCEPT ![k] = IF left[k] = {s} THEN "spawn" ELSE @]
        /\ left' = [left EXCEPT ![k] = @ \ {s}]
        /\ \/ db' = [db EXCEPT ![s] = None] /\ UNCHANGED kept
           \/ kept' = [kept EXCEPT ![k] = @ \cup {s}] /\ UNCHANGED db
        /\ UNCHANGED <<ida, bin, base, sidecar, req, targets, listed, before, lock, child, unseen>>
    BY DEF Delete, vars, idaVars, disk, cmdVars, callVars, listVars, closeVars, openVars
  <1>1. TypeInv'
        <2>1. pc' \in [Commands -> {"idle", "scan", "contact", "get", "wait", "lock", "check",
                                "delete", "spawn", "await", "done"}]
      BY <1>0 DEF TypeInv
    <2>2. left' \in [Commands -> SUBSET Sessions]
      BY <1>0 DEF TypeInv
    <2>3. db' \in [Sessions -> Idas \cup {Old, None}] /\ kept' \in [Commands -> SUBSET Sessions]
      BY <1>0 DEF TypeInv
    <2> QED
      BY <1>0, <2>1, <2>2, <2>3 DEF TypeInv
  <1>2. IdaInv'
    BY <1>0 DEF IdaInv, TypeInv
  <1>3. LockInv'
    BY <1>0 DEF LockInv, TypeInv, Tool, Session, OpenStages
  <1>4. ChildInv'
    BY <1>0 DEF ChildInv, TypeInv, Session
  <1>5. AbsentInv'
    BY <1>0 DEF AbsentInv, TypeInv, Alive, Session
  <1>6. FreshInv'
    <2>1. \A h \in Commands : /\ Session(h)' = Session(h) /\ Fresh(h)' = Fresh(h)
                                /\ child'[h] = child[h]
                                /\ kept[h] \subseteq kept'[h]
      BY <1>0 DEF Session, Fresh, Tool, TypeInv
    <2>b. \A x \in Sessions : db'[x] \in {db[x], None}
      BY <1>0 DEF TypeInv
    <2>2. ASSUME NEW h \in Commands
          PROVE  /\ Pending(h) /\ Clean(h) => Clean(h)'
                 /\ LoadedClean(h) => LoadedClean(h)'
      <3>1. Pending(h) => Session(h) \in Sessions
        BY DEF Pending, LockInv, OpenStages
      <3>2. Pending(h) /\ Clean(h) => Clean(h)'
        BY <1>0, <2>1, <2>b, <3>1 DEF Clean
      <3>3. LoadedClean(h) => LoadedClean(h)'
        BY <1>0, <2>1 DEF LoadedClean
      <3> QED
        BY <3>2, <3>3
    <2>a. ASSUME NEW h \in Commands, h # k, Pending(h)'
          PROVE  Pending(h)
      <3>1. pc'[h] = pc[h] /\ left'[h] = left[h] /\ ida' = ida
        BY <1>0, <2>a DEF TypeInv
      <3> QED
        BY <2>1, <2>a, <3>1 DEF Pending
    <2>3. CASE s = Session(k)
      <3>1. Clean(k)'
        BY <1>0, <2>1, <2>3 DEF Clean, TypeInv
      <3> QED
        BY <2>1, <2>2, <2>a, <3>1 DEF FreshInv
    <2>4. CASE s # Session(k)
      <3>1. Pending(k)' => Pending(k)
        BY <1>0, <2>1, <2>4 DEF Pending, TypeInv
      <3> QED
        BY <2>1, <2>2, <2>a, <3>1 DEF FreshInv
    <2> QED
      BY <2>3, <2>4
  <1>7. ScanInv'
    BY <1>0 DEF ScanInv, TypeInv, Advertised
  <1> QED
    BY <1>1, <1>2, <1>3, <1>4, <1>5, <1>6, <1>7

\* open spawns its child.
LEMMA SpawnStep ==
  ASSUME IInv, NEW k \in Commands, NEW i \in Idas, Spawn(k, i)
  PROVE  IInv'
  <1> USE ControlAssumption DEF IInv
  <1>a. Session(k) \in Sessions
    BY DEF LockInv, OpenStages, Spawn, Goes
  <1>0. /\ pc[k] = "spawn" /\ pc' = [pc EXCEPT ![k] = "await"]
        /\ ida[i] = "unborn" /\ ida' = [ida EXCEPT ![i] = "started"]
        /\ bin' = [bin EXCEPT ![i] = Session(k)]
        /\ child' = [child EXCEPT ![k] = i]
        /\ UNCHANGED <<base, sidecar, db, req, targets, left, listed, before, lock, kept, unseen>>
    BY DEF Spawn, Goes, Turns, vars, idaVars, disk, cmdVars, callVars, listVars, closeVars, openVars
  <1>1. TypeInv'
    BY <1>0, <1>a DEF TypeInv
  <1>2. IdaInv'
    BY <1>0 DEF IdaInv, TypeInv, LockInv, OpenStages
  <1>3. LockInv'
    BY <1>0 DEF LockInv, TypeInv, Tool, Session, OpenStages
  <1>4. ChildInv'
    BY <1>0 DEF ChildInv, TypeInv, Session
  <1>5. AbsentInv'
        <2> SUFFICES ASSUME NEW h \in Commands, pc'[h] \in {"delete", "spawn", "await"},
                        NEW j \in Idas, Alive(j)'
                 PROVE  /\ sidecar'[Session(h)'] = j => child'[h] = j
                        /\ bin'[j] = Session(h)' => j \in unseen'[h] \cup {child'[h]}
      BY DEF AbsentInv
    <2>1. Session(h)' = Session(h) /\ Session(h) \in Sessions /\ lock[Session(h)] = h
      BY <1>0 DEF LockInv, OpenStages, Session, TypeInv
    <2>2. CASE j # i
      <3>1. Alive(j) /\ bin'[j] = bin[j]
        BY <1>0, <2>2 DEF Alive, TypeInv
      <3>2. sidecar[Session(h)] = j => child[h] = j
        BY <1>0, <3>1 DEF AbsentInv, TypeInv
      <3>3. bin[j] = Session(h) => j \in unseen[h] \cup {child[h]}
        BY <1>0, <3>1 DEF AbsentInv, TypeInv
      <3>4. h = k => child[h] = None
        BY <1>0 DEF ChildInv
      <3>5. j # None
        OBVIOUS
      <3> QED
        BY <1>0, <2>1, <3>1, <3>2, <3>3, <3>4, <3>5 DEF TypeInv
    <2>3. CASE j = i
      <3>1. sidecar[Session(h)] # i
        BY <1>0, <2>1 DEF IdaInv
      <3>2. Session(h) = Session(k) => h = k
        BY <1>0, <2>1 DEF LockInv, OpenStages
      <3> QED
        BY <1>0, <2>1, <2>3, <3>1, <3>2 DEF TypeInv
    <2> QED
      BY <2>2, <2>3
  <1>6. FreshInv'
    <2>1. \A h \in Commands : Session(h)' = Session(h) /\ Fresh(h)' = Fresh(h)
      BY <1>0 DEF Session, Fresh, Tool
    <2>2. Fresh(k) => Clean(k)
      BY <1>0 DEF FreshInv, Pending
    <2>3. ASSUME NEW h \in Commands
          PROVE  Clean(h) => Clean(h)'
      BY <1>0, <2>1 DEF Clean, TypeInv
    <2>4. ASSUME NEW h \in Commands, h # k
          PROVE  /\ Pending(h)' => Pending(h)
                 /\ child[h] # None /\ LoadedClean(h) => LoadedClean(h)'
      <3>1. child'[h] = child[h] /\ child[h] # i
        BY <1>0, <2>4 DEF ChildInv, TypeInv
      <3>2. child[h] # None => ida'[child[h]] = ida[child[h]] /\ bin'[child[h]] = bin[child[h]]
        BY <1>0, <3>1 DEF TypeInv
      <3>3. Pending(h)' => Pending(h)
        BY <1>0, <2>1, <2>4, <3>1, <3>2 DEF Pending, TypeInv, ChildInv
      <3>4. child[h] # None /\ LoadedClean(h) => LoadedClean(h)'
        BY <1>0, <2>4, <3>1, <3>2 DEF LoadedClean, TypeInv
      <3> QED
        BY <3>3, <3>4
    <2>5. child'[k] # None => LoadedClean(k)'
      BY <1>0 DEF LoadedClean, IdaInv, TypeInv
    <2> QED
      BY <1>0, <2>1, <2>2, <2>3, <2>4, <2>5 DEF FreshInv, TypeInv
  <1>7. ScanInv'
    BY <1>0 DEF ScanInv, TypeInv, Advertised
  <1> QED
    BY <1>1, <1>2, <1>3, <1>4, <1>5, <1>6, <1>7

\* open cannot spawn.
LEMMA SpawnFailsStep ==
  ASSUME IInv, NEW k \in Commands, SpawnFails(k)
  PROVE  IInv'
  <1> USE ControlAssumption DEF IInv
  <1>0. /\ pc[k] = "spawn"
        /\ pc' = [pc EXCEPT ![k] = "done"] /\ lock' = [lock EXCEPT ![Session(k)] = None]
        /\ UNCHANGED <<ida, bin, base, sidecar, db, req, targets, left, listed, before, child, kept, unseen>>
    BY DEF SpawnFails, Returns, Goes, Ends, vars, idaVars, disk, cmdVars, callVars, listVars, closeVars, openVars
  <1>1. TypeInv'
    BY <1>0 DEF TypeInv
  <1>2. IdaInv'
    BY <1>0 DEF IdaInv, TypeInv
  <1>3. LockInv'
    BY <1>0 DEF LockInv, TypeInv, Tool, Session, OpenStages
  <1>4. ChildInv'
    BY <1>0 DEF ChildInv, TypeInv, Session
  <1>5. AbsentInv'
    BY <1>0 DEF AbsentInv, TypeInv, Alive, Session
  <1>6. FreshInv'
    BY <1>0 DEF FreshInv, Pending, Clean, LoadedClean, TypeInv, Fresh, Tool, Session
  <1>7. ScanInv'
    BY <1>0 DEF ScanInv, TypeInv, Advertised
  <1> QED
    BY <1>1, <1>2, <1>3, <1>4, <1>5, <1>6, <1>7

\* open gives its child up.
LEMMA AwaitFailsStep ==
  ASSUME IInv, NEW k \in Commands, AwaitFails(k)
  PROVE  IInv'
  <1> USE ControlAssumption DEF IInv
  <1>0. /\ pc[k] = "await"
        /\ pc' = [pc EXCEPT ![k] = "done"] /\ lock' = [lock EXCEPT ![Session(k)] = None]
        /\ ida' = [ida EXCEPT ![child[k]] = "gone"]
        /\ UNCHANGED <<bin, base, sidecar, db, req, targets, left, listed, before, child, kept, unseen>>
    BY DEF AwaitFails, Returns, Goes, Ends, vars, idaVars, disk, cmdVars, callVars, listVars, closeVars, openVars
  <1>1. TypeInv'
    BY <1>0 DEF TypeInv
  <1>2. IdaInv'
    BY <1>0 DEF IdaInv, TypeInv, ChildInv
  <1>3. LockInv'
    BY <1>0 DEF LockInv, TypeInv, Tool, Session, OpenStages
  <1>4. ChildInv'
    BY <1>0 DEF ChildInv, TypeInv, Session
  <1>5. AbsentInv'
    BY <1>0 DEF AbsentInv, TypeInv, Alive, Session
  <1>6. FreshInv'
    BY <1>0 DEF FreshInv, Pending, Clean, LoadedClean, TypeInv, Fresh, Tool, Session
  <1>7. ScanInv'
    BY <1>0 DEF ScanInv, TypeInv, Advertised
  <1> QED
    BY <1>1, <1>2, <1>3, <1>4, <1>5, <1>6, <1>7

\* open sees its child published.
LEMMA AwaitStep ==
  ASSUME IInv, NEW k \in Commands, Await(k)
  PROVE  IInv'
  <1> USE ControlAssumption DEF IInv
  <1>0. /\ pc[k] = "await" /\ Get(Session(k)) # None
        /\ pc' = [pc EXCEPT ![k] = "done"] /\ lock' = [lock EXCEPT ![Session(k)] = None]
        /\ UNCHANGED <<ida, bin, base, sidecar, db, req, targets, left, listed, before, child, kept, unseen>>
    BY DEF Await, Returns, Goes, Ends, vars, idaVars, disk, cmdVars, callVars, listVars, closeVars, openVars
  <1>1. TypeInv'
    BY <1>0 DEF TypeInv
  <1>2. IdaInv'
    BY <1>0 DEF IdaInv, TypeInv
  <1>3. LockInv'
    BY <1>0 DEF LockInv, TypeInv, Tool, Session, OpenStages
  <1>4. ChildInv'
    <2>1. PICK j \in Idas : sidecar[Session(k)] = j /\ Alive(j)
      BY <1>0 DEF Get, TypeInv, LockInv, OpenStages
    <2>2. child[k] = j /\ ida[j] \notin {"started", "analysing"}
      BY <1>0, <2>1 DEF AbsentInv, IdaInv, LockInv, OpenStages
    <2> QED
      BY <1>0, <2>1, <2>2 DEF ChildInv, TypeInv, Session
  <1>5. AbsentInv'
    BY <1>0 DEF AbsentInv, TypeInv, Alive, Session
  <1>6. FreshInv'
    BY <1>0 DEF FreshInv, Pending, Clean, LoadedClean, TypeInv, Fresh, Tool, Session
  <1>7. ScanInv'
    BY <1>0 DEF ScanInv, TypeInv, Advertised
  <1> QED
    BY <1>1, <1>2, <1>3, <1>4, <1>5, <1>6, <1>7

-----------------------------------------------------------------------------
\* Every step preserves the invariant.
LEMMA InvStep ==
  ASSUME IInv, [Next]_vars
  PROVE  IInv'
  <1>1. ASSUME NEW i \in Idas, Ida(i)
        PROVE  IInv'
    BY <1>1, LoadStep, PublishStep, WithdrawStep, SaveStep, CrashStep DEF Ida
  <1>2. ASSUME NEW k \in Commands, Command(k)
        PROVE  IInv'
    <2>1. CASE \E r \in Requests : Start(k, r)
      BY <2>1, StartStep
    <2>2. CASE \E s \in Sessions : Scan(k, s)
      BY <2>2, ScanStep
    <2>3. CASE Resolve(k) \/ Contact(k)
      BY <2>3, ResolveStep, ContactStep
    <2>4. CASE Close(k)
      BY <2>4, CloseGetStep, CloseGracefulStep, CloseEscalateStep DEF Close
    <2>5. CASE Open(k)
      BY <2>5, AcquireStep, OpenExistingStep, OpenAbsentStep, DeleteStep, SpawnStep,
         SpawnFailsStep, AwaitFailsStep, AwaitStep DEF Open
    <2> QED
      BY <1>2, <2>1, <2>2, <2>3, <2>4, <2>5 DEF Command
  <1>3. CASE UNCHANGED vars
    <2>1. /\ UNCHANGED <<ida, bin, base, sidecar, db, pc, req, targets>>
          /\ UNCHANGED <<left, listed, before, lock, child, kept, unseen, found>>
      BY <1>3 DEF vars, idaVars, disk, cmdVars, callVars, listVars, closeVars, openVars
    <2> QED
      BY <2>1 DEF IInv, TypeInv, IdaInv, LockInv, ChildInv, AbsentInv, FreshInv, ScanInv, Tool,
         Session, Alive, Pending, Clean, LoadedClean, Fresh, Advertised
  <1> QED
    BY <1>1, <1>2, <1>3 DEF Next

\* The invariant holds in every state.
THEOREM Invariance == Spec => []IInv
  <1>1. Init => IInv
    BY Initially
  <1>2. IInv /\ [Next]_vars => IInv'
    BY InvStep
  <1> QED
    BY <1>1, <1>2, PTL DEF Spec

-----------------------------------------------------------------------------
\* A fresh analysis does not start from the database that open deleted.
THEOREM FreshAnalyses == Spec => []FreshAnalysis
  <1>1. IInv => FreshAnalysis
    BY DEF IInv, FreshInv, LoadedClean, FreshAnalysis
  <1> QED
    BY <1>1, Invariance, PTL

\* A listing ends by Resolve only.
LEMMA ListingEnds ==
  ASSUME IInv, [Next]_vars, NEW k \in Commands, pc[k] = "scan", pc'[k] # "scan"
  PROVE  Resolve(k)
  <1> USE DEF IInv, TypeInv
  <1>1. CASE \E i \in Idas : Ida(i)
    BY <1>1 DEF Ida, Load, Publish, Withdraw, Save, Crash, cmdVars, callVars
  <1>2. CASE UNCHANGED vars
    BY <1>2 DEF vars, cmdVars, callVars
  <1>3. ASSUME NEW h \in Commands, Command(h), ~Resolve(h)
        PROVE  FALSE
    <2>1. CASE \E r \in Requests : Start(h, r)
      <3>1. pc[h] = "idle" /\ \E p : pc' = [pc EXCEPT ![h] = p]
        BY <2>1 DEF Start, Goes, Ends
      <3> QED
        BY <3>1
    <2>2. CASE \E s \in Sessions : Scan(h, s)
      BY <2>2 DEF Scan, callVars
    <2>3. CASE Contact(h)
      <3>1. pc[h] = "contact" /\ pc' = [pc EXCEPT ![h] = "done"]
        BY <2>3 DEF Contact, Goes, Ends
      <3> QED
        BY <3>1
    <2>4. CASE Close(h)
      <3>1. pc[h] \in {"get", "wait"} /\ \E p : pc' = [pc EXCEPT ![h] = p]
        BY <2>4 DEF Close, CloseGet, CloseGraceful, CloseEscalate, Outcome, Goes, Ends
      <3> QED
        BY <3>1
    <2>5. CASE Open(h)
      <3>1. pc[h] # "scan" /\ \E p : pc' = [pc EXCEPT ![h] = p]
        BY <2>5 DEF Open, Acquire, OpenExisting, OpenAbsent, Delete, Spawn, SpawnFails,
           AwaitFails, Await, Returns, Goes, Ends
      <3> QED
        BY <3>1
    <2> QED
      BY <1>3, <2>1, <2>2, <2>3, <2>4, <2>5 DEF Command
  <1>4. CASE \E h \in Commands : Resolve(h)
    <2>1. PICK h \in Commands : Resolve(h)
      BY <1>4
    <2>2. \E p : pc' = [pc EXCEPT ![h] = p]
      BY <2>1 DEF Resolve, Goes, Ends
    <2> QED
      BY <2>1, <2>2
  <1> QED
    BY <1>1, <1>2, <1>3, <1>4 DEF Next

\* Whoever is chosen for want of a name is the only one that was there all along.
THEOREM SoleSessions == Spec => SoleSessionOnly
  <1>1. ASSUME IInv, [Next]_vars, NEW k \in Commands,
               pc[k] = "scan", pc'[k] \in {"get", "contact"},
               Tool(k) \in {"close_file", "check_connection"},
               NEW i \in before[k], Advertised(i)
        PROVE  bin[i] = targets'[k][1]
    <2>1. left[k] = {} /\ \E s \in Sessions : listed[k] = {s} /\ targets' = [targets EXCEPT ![k] = <<s>>]
      <3>1. Resolve(k)
        BY <1>1, ListingEnds
      <3> QED
        BY <1>1, <3>1 DEF Resolve, Ends, Goes, IInv, TypeInv
    <2>2. bin[i] \in listed[k]
      BY <1>1, <2>1 DEF IInv, ScanInv
    <2>3. PICK s \in Sessions : listed[k] = {s} /\ targets' = [targets EXCEPT ![k] = <<s>>]
      BY <2>1
    <2>a. targets = [h \in Commands |-> targets[h]]
      BY <1>1 DEF IInv, TypeInv
    <2>4. targets'[k] = <<s>>
      BY <2>3, <2>a
    <2> QED
      BY <2>2, <2>3, <2>4
  <1>2. IInv /\ [Next]_vars => [\A k \in Commands :
       /\ pc[k] = "scan" /\ pc'[k] \in {"get", "contact"}
       /\ Tool(k) \in {"close_file", "check_connection"}
       => \A i \in before[k] : Advertised(i) => bin[i] = targets'[k][1]]_vars
    BY <1>1
  <1> QED
    BY <1>2, Invariance, PTL DEF Spec, SoleSessionOnly

-----------------------------------------------------------------------------
(* Induction: what the lemmas about Ordered rest on.                       *)

\* Any set of natural numbers has a least member.
LEMMA LeastMember ==
  ASSUME NEW T \in SUBSET Nat, T # {}
  PROVE  \E m \in T : \A n \in T : m <= n
  <1> DEFINE Below(n) == {i \in Nat : i < n}
             U == {Below(n) : n \in T}
  <1>1. U \subseteq FiniteSubsetsOf(Nat)
    <2>1. ASSUME NEW n \in Nat
          PROVE  IsFiniteSet(Below(n))
      <3>1. Below(n) = 0..(n - 1)
        OBVIOUS
      <3>2. IsFiniteSet(0..(n - 1))
        <4>1. 0 \in Int /\ n - 1 \in Int
          OBVIOUS
        <4> QED
          BY ONLY <4>1, FS_Interval
      <3> QED
        BY <3>1, <3>2
    <2> QED
      BY <2>1 DEF FiniteSubsetsOf
  <1>2. IsWellFoundedOn(StrictSubsetOrdering(Nat), FiniteSubsetsOf(Nat))
    BY FS_StrictSubsetOrderingWellFounded
  <1>3. U # {}
    OBVIOUS
  <1> HIDE DEF U
  <1>4. PICK B \in U : \A C \in U : <<C, B>> \notin StrictSubsetOrdering(Nat)
    BY <1>1, <1>2, <1>3, WFMin
  <1>5. PICK m \in T : B = Below(m)
    BY DEF U
  <1>6. ASSUME NEW n \in T, n < m
        PROVE  FALSE
    <2>1. <<Below(n), Below(m)>> \notin StrictSubsetOrdering(Nat)
      BY <1>4, <1>5 DEF U
    <2>2. n \in Below(m) /\ n \notin Below(n) /\ Below(n) \subseteq Below(m)
      BY <1>6
    <2> QED
      BY <2>1, <2>2 DEF StrictSubsetOrdering
  <1> QED
    BY <1>6

\* Induction over the natural numbers.
LEMMA Induction ==
  ASSUME NEW T \in SUBSET Nat, 0 \in T, \A n \in T : n + 1 \in T
  PROVE  T = Nat
  <1> SUFFICES ASSUME Nat \ T # {}
               PROVE  FALSE
    OBVIOUS
  <1>1. PICK m \in Nat \ T : \A n \in Nat \ T : m <= n
    BY LeastMember
  <1>2. m # 0 /\ m - 1 \in T
    BY <1>1
  <1> QED
    BY <1>1, <1>2

-----------------------------------------------------------------------------
\* One more candidate is looked at.
Extended(c, list, n) ==
  IF c[n] \in ToSet(list) THEN list ELSE Append(list, c[n])

\* Ordered is what its equation says.
LEMMA OrderedEquation ==
  ASSUME NEW c, Len(c) \in Nat
  PROVE  Ordered(c) = [n \in 0..Len(c) |->
           IF n = 0 THEN <<>> ELSE Extended(c, Ordered(c)[n - 1], n)]
  <1> DEFINE Step(g, n) == IF n = 0 THEN <<>> ELSE Extended(c, g[n - 1], n)
             Solves(g, j) == g = [n \in 0..j |-> Step(g, n)]
             T == {j \in Nat : \E g : Solves(g, j)}
  <1>1. Ordered(c) = CHOOSE g : Solves(g, Len(c))
    BY DEF Ordered, Extended
  <1>2. 0 \in T
    <2>1. Solves([n \in 0..0 |-> <<>>], 0)
      OBVIOUS
    <2> QED
      BY <2>1
  <1>3. ASSUME NEW j \in T
        PROVE  j + 1 \in T
    <2>1. PICK g : Solves(g, j)
      OBVIOUS
    <2> DEFINE h == [n \in 0..(j + 1) |-> IF n = j + 1 THEN Extended(c, g[j], j + 1) ELSE g[n]]
    <2>2. Solves(h, j + 1)
      <3>1. \A n \in 0..(j + 1) : h[n] = Step(h, n)
        BY <2>1
      <3> QED
        BY <3>1
    <2>3. j + 1 \in Nat
      OBVIOUS
    <2> HIDE DEF Solves, h
    <2> QED
      BY <2>2, <2>3
  <1>4. T = Nat
    <2>1. T \in SUBSET Nat
      OBVIOUS
    <2> HIDE DEF T
    <2> QED
      BY <1>2, <1>3, <2>1, Induction
  <1>5. \E g : Solves(g, Len(c))
    BY <1>4
  <1> HIDE DEF Solves
  <1>6. Solves(Ordered(c), Len(c))
    BY <1>1, <1>5
  <1> QED
    BY <1>6 DEF Solves

\* s is mentioned at p for the first time.
FirstAt(c, p, s) == p \in DOMAIN c /\ c[p] = s /\ \A m \in 1..(p - 1) : c[m] # s

\* The list is made of the first n candidates, each once, in the order of first mention.
Dedup(c, n, list) ==
  /\ list \in Seq(Sessions)
  /\ \A m \in 1..n : \E a \in DOMAIN list : list[a] = c[m]
  /\ \A a \in DOMAIN list : \E p \in 1..n : FirstAt(c, p, list[a])
  /\ \A a, b \in DOMAIN list : \A p, q \in DOMAIN c :
       a < b /\ FirstAt(c, p, list[a]) /\ FirstAt(c, q, list[b]) => p < q

\* One more candidate keeps the list free of repetitions and complete.
LEMMA DedupStep ==
  ASSUME NEW c \in Seq(Sessions), NEW n \in 1..Len(c), NEW list, Dedup(c, n - 1, list)
  PROVE  Dedup(c, n, Extended(c, list, n))
  <1> DEFINE new == Extended(c, list, n)
  <1>0. list \in Seq(Sessions) /\ c[n] \in Sessions
    BY DEF Dedup
  <1>1. CASE c[n] \in ToSet(list)
    <2>1. new = list
      BY <1>1 DEF Extended
    <2>2. \E a \in DOMAIN list : list[a] = c[n]
      BY <1>1 DEF ToSet
    <2>3. \A m \in 1..n : m \in 1..(n - 1) \/ m = n
      OBVIOUS
    <2>4. 1..(n - 1) \subseteq 1..n
      OBVIOUS
    <2> QED
      BY <2>1, <2>2, <2>3, <2>4 DEF Dedup
  <1>2. CASE c[n] \notin ToSet(list)
    <2>1. new = Append(list, c[n]) /\ new \in Seq(Sessions) /\ DOMAIN new = 1..(Len(list) + 1)
          /\ new[Len(list) + 1] = c[n] /\ \A a \in DOMAIN list : new[a] = list[a]
      BY <1>0, <1>2 DEF Extended
    <2>2. \A a \in DOMAIN list : list[a] # c[n]
      BY <1>2 DEF ToSet
    <2>3. FirstAt(c, n, c[n])
      BY <2>2 DEF FirstAt, Dedup
    <2>4. \A m \in 1..n : \E a \in DOMAIN new : new[a] = c[m]
      <3>1. \A m \in 1..(n - 1) : \E a \in DOMAIN list : list[a] = c[m]
        BY DEF Dedup
      <3>2. DOMAIN list \subseteq DOMAIN new /\ Len(list) + 1 \in DOMAIN new
        BY <1>0, <2>1
      <3> QED
        BY <2>1, <3>1, <3>2
    <2>5. \A a \in DOMAIN list : \E p \in 1..(n - 1) : FirstAt(c, p, list[a])
      BY DEF Dedup
    <2>6. \A a \in DOMAIN new : a \in DOMAIN list \/ a = Len(list) + 1
      BY <1>0, <2>1
    <2>7. \A a \in DOMAIN new : \E p \in 1..n : FirstAt(c, p, new[a])
      BY <2>1, <2>3, <2>5, <2>6
    <2>8. ASSUME NEW a \in DOMAIN new, NEW b \in DOMAIN new, NEW p \in DOMAIN c, NEW q \in DOMAIN c,
                 a < b, FirstAt(c, p, new[a]), FirstAt(c, q, new[b])
          PROVE  p < q
      <3>1. a \in DOMAIN list
        BY <1>0, <2>1, <2>8
      <3>2. CASE b \in DOMAIN list
        BY <2>1, <2>8, <3>1, <3>2 DEF Dedup
      <3>3. CASE b = Len(list) + 1
        <4>1. PICK p1 \in 1..(n - 1) : FirstAt(c, p1, new[a])
          BY <2>1, <2>5, <3>1
        <4>2. p1 = p
          BY <2>8, <4>1 DEF FirstAt
        <4>3. q = n
          BY <2>1, <2>3, <2>8, <3>3 DEF FirstAt
        <4> QED
          BY <4>1, <4>2, <4>3
      <3> QED
        BY <2>6, <3>2, <3>3
    <2> QED
      BY <2>1, <2>4, <2>7, <2>8 DEF Dedup
  <1> QED
    BY <1>1, <1>2

\* All candidates, each once and in their order: what Ordered ends with.
LEMMA OrderedDedup ==
  ASSUME NEW c \in Seq(Sessions)
  PROVE  Dedup(c, Len(c), Ordered(c)[Len(c)])
  <1>0. Len(c) \in Nat
    OBVIOUS
  <1> DEFINE T == {n \in Nat : n <= Len(c) => Dedup(c, n, Ordered(c)[n])}
  <1>1. 0 \in T
    <2>1. Ordered(c)[0] = <<>>
      BY <1>0, OrderedEquation
    <2>2. Dedup(c, 0, <<>>)
      BY DEF Dedup
    <2> QED
      BY <2>1, <2>2
  <1>2. ASSUME NEW n \in T
        PROVE  n + 1 \in T
    <2> SUFFICES ASSUME n + 1 <= Len(c)
                 PROVE  Dedup(c, n + 1, Ordered(c)[n + 1])
      OBVIOUS
    <2>1. n + 1 \in 1..Len(c) /\ (n + 1) - 1 = n
      BY <1>0
    <2>2. Ordered(c)[n + 1] = Extended(c, Ordered(c)[n], n + 1)
      BY <1>0, <2>1, OrderedEquation
    <2>3. Dedup(c, n, Ordered(c)[n])
      BY <1>0, <2>1
    <2>4. \A list : Dedup(c, n, list) => Dedup(c, n + 1, Extended(c, list, n + 1))
      BY <2>1, DedupStep
    <2> QED
      BY <2>2, <2>3, <2>4
  <1>3. T = Nat
    <2>1. T \in SUBSET Nat
      OBVIOUS
    <2> HIDE DEF T
    <2> QED
      BY <1>1, <1>2, <2>1, Induction
  <1> QED
    BY <1>0, <1>3

-----------------------------------------------------------------------------
(* Closing sessions.  CloseInv rests on IInv, and a step keeps the two      *)
(* together.                                                               *)

\* IDA has published its sidecar, sometime.
Known(i) == ida[i] \in {"running", "saving", "gone"}

\* It has, and is not advertised any more.
Settled(i) == Known(i) /\ ~Advertised(i)

CallTypes ==
  /\ targets \in [Commands -> Seq(Sessions)]
  /\ result \in [Commands -> {"none", "ok", "error", "not found", "ambiguous"}]
  /\ found \in [Commands -> Idas \cup {None}]
  /\ outcomes \in [Commands -> Seq(Outcomes)]

Closers == {"close_file", "session close"}

\* A close has a target while it runs, and asks the process it found there.
StageInv(k) ==
  /\ pc[k] \notin {"get", "wait", "done"} => outcomes[k] = <<>>
  /\ pc[k] \in {"get", "wait"} => Tool(k) \in Closers /\ Len(outcomes[k]) < Len(targets[k])
  /\ pc[k] = "contact" => Tool(k) = "check_connection"
  /\ pc[k] = "wait" => found[k] \in Idas /\ bin[found[k]] = Target(k) /\ Known(found[k])

\* A "session close" that was typed as it should be, and has begun.
Batch(k) == pc[k] # "idle" /\ Tool(k) = "session close" /\ Usage(req[k])

\* Its targets are those it names, or all that were advertised throughout the listing.
TargetInv(k) ==
  Batch(k) =>
    /\ ~req[k].args.all => pc[k] # "scan" /\ targets[k] = Named(req[k])
    /\ req[k].args.all =>
         /\ pc[k] = "scan" => targets[k] = <<>>
         /\ pc[k] # "scan" => \A i \in before[k] : Advertised(i) => bin[i] \in ToSet(targets[k])

\* A session that was reported closed: who was found there and who was there before.
ClosedWell(k, o) ==
  o.closed => /\ o.found \in Idas /\ Settled(o.found)
              /\ \A i \in before[k] : bin[i] = o.session => Settled(i)

\* Every target has its outcome, one after the other.
OutcomeInv(k) ==
  /\ Len(outcomes[k]) <= Len(targets[k])
  /\ \A n \in DOMAIN outcomes[k] :
       outcomes[k][n].session = targets[k][n] /\ ClosedWell(k, outcomes[k][n])
  /\ Batch(k) /\ pc[k] = "done" =>
       /\ Len(outcomes[k]) = Len(targets[k])
       /\ result[k] = "ok" => \A n \in DOMAIN outcomes[k] : outcomes[k][n].closed

CloseInv == CallTypes /\ \A k \in Commands : StageInv(k) /\ TargetInv(k) /\ OutcomeInv(k)

-----------------------------------------------------------------------------
\* Whoever has been published stays on its binary, and is never published again.
LEMMA StaysSettled ==
  ASSUME IInv, [Next]_vars, NEW i \in Idas, Known(i)
  PROVE  Known(i)' /\ bin'[i] = bin[i] /\ (Settled(i) => Settled(i)')
  <1> USE DEF Known, Settled, Advertised
  <1>0. TypeInv /\ ChildInv /\ LockInv /\ i # None
    BY ControlAssumption DEF IInv
  <1>1. ASSUME NEW j \in Idas, Ida(j)
        PROVE  Known(i)' /\ bin'[i] = bin[i] /\ (Settled(i) => Settled(i)')
    <2>1. CASE Load(j)
      BY <1>0, <2>1 DEF Load, Turns, disk, TypeInv
    <2>2. CASE Publish(j)
      BY <1>0, <2>2 DEF Publish, Turns, TypeInv
    <2>3. CASE Withdraw(j)
      BY <1>0, <2>3 DEF Withdraw, Turns, TypeInv
    <2>4. CASE Save(j)
      BY <1>0, <2>4 DEF Save, Turns, TypeInv
    <2>5. CASE Crash(j)
      BY <1>0, <2>5 DEF Crash, disk, TypeInv
    <2> QED
      BY <1>1, <2>1, <2>2, <2>3, <2>4, <2>5 DEF Ida
  <1>2. ASSUME UNCHANGED <<ida, bin, sidecar>>
        PROVE  Known(i)' /\ bin'[i] = bin[i] /\ (Settled(i) => Settled(i)')
    BY <1>2
  <1>3. ASSUME NEW k \in Commands, Command(k)
        PROVE  Known(i)' /\ bin'[i] = bin[i] /\ (Settled(i) => Settled(i)')
    <2>1. CASE (\E r \in Requests : Start(k, r)) \/ (\E s \in Sessions : Scan(k, s)) \/ Resolve(k) \/ Contact(k)
      BY <1>2, <2>1 DEF Start, Scan, Resolve, Contact, idaVars, disk
    <2>2. CASE CloseGet(k) \/ CloseGraceful(k)
      BY <1>2, <2>2 DEF CloseGet, CloseGraceful, idaVars, disk
    <2>3. CASE CloseEscalate(k)
      <3>1. ida' \in {ida, [ida EXCEPT ![found[k]] = IF Alive(found[k]) THEN "gone" ELSE @]}
            /\ sidecar' = [sidecar EXCEPT ![Target(k)] = None] /\ bin' = bin
        BY <2>3 DEF CloseEscalate
      <3>2. ida'[i] \in {ida[i], "gone"}
        BY <1>0, <3>1 DEF TypeInv
      <3>3. sidecar'[bin[i]] \in {sidecar[bin[i]], None}
        <4>1. \A s \in DOMAIN sidecar : sidecar'[s] \in {sidecar[s], None}
          BY <3>1
        <4>2. bin[i] \in DOMAIN sidecar
          BY <1>0 DEF TypeInv, IInv, IdaInv
        <4> QED
          BY <4>1, <4>2
      <3> QED
        BY <1>0, <3>1, <3>2, <3>3
    <2>4. CASE Acquire(k) \/ OpenExisting(k) \/ OpenAbsent(k) \/ SpawnFails(k) \/ Await(k)
      BY <1>2, <2>4 DEF Acquire, OpenExisting, OpenAbsent, SpawnFails, Await, idaVars, disk
    <2>5. CASE \E s \in Sessions : Delete(k, s)
      BY <1>2, <2>5 DEF Delete, idaVars
    <2>6. CASE \E j \in Idas : Spawn(k, j)
      BY <1>0, <2>6 DEF Spawn, Turns, disk, TypeInv
    <2>7. CASE AwaitFails(k)
      BY <1>0, <2>7 DEF AwaitFails, disk, TypeInv
    <2> QED
      BY <1>3, <2>1, <2>2, <2>3, <2>4, <2>5, <2>6, <2>7 DEF Command, Close, Open
  <1>4. CASE UNCHANGED vars
    BY <1>2, <1>4 DEF vars, idaVars, disk
  <1> QED
    BY <1>1, <1>3, <1>4 DEF Next

\* What a command knows about itself.
Quiet(h) ==
  /\ pc'[h] = pc[h] /\ req'[h] = req[h] /\ targets'[h] = targets[h] /\ result'[h] = result[h]
  /\ found'[h] = found[h] /\ outcomes'[h] = outcomes[h] /\ before'[h] = before[h]

\* Processes, and other commands, leave it alone.
LEMMA IdaLeavesAlone ==
  ASSUME NEW i \in Idas, Ida(i)
  PROVE  UNCHANGED cmdVars
  BY DEF Ida, Load, Publish, Withdraw, Save, Crash

\* Another command leaves what a command knows of its own call as it is.
LEMMA OthersLeaveAlone ==
  ASSUME IInv, CallTypes, NEW k \in Commands, Command(k), NEW h \in Commands \ {k}
  PROVE  Quiet(h)
  <1> USE DEF Quiet, IInv, TypeInv, CallTypes, callVars, listVars, closeVars
  <1>1. CASE \E r \in Requests : Start(k, r)
    BY <1>1 DEF Start, Goes, Ends
  <1>2. CASE \E s \in Sessions : Scan(k, s)
    BY <1>2 DEF Scan
  <1>3. CASE Resolve(k)
    BY <1>3 DEF Resolve, Goes, Ends
  <1>4. CASE Contact(k)
    BY <1>4 DEF Contact, Goes, Ends
  <1>5. CASE CloseGet(k)
    BY <1>5 DEF CloseGet, Outcome, Goes, Ends
  <1>6. CASE CloseGraceful(k)
    BY <1>6 DEF CloseGraceful, Outcome, Goes, Ends
  <1>7. CASE CloseEscalate(k)
    BY <1>7 DEF CloseEscalate, Outcome, Goes, Ends
  <1>8. CASE Open(k)
    <2>1. CASE Acquire(k) \/ OpenExisting(k) \/ OpenAbsent(k)
      BY <2>1 DEF Acquire, OpenExisting, OpenAbsent, Returns, Goes, Ends
    <2>2. CASE (\E s \in Sessions : Delete(k, s)) \/ (\E i \in Idas : Spawn(k, i)) \/ SpawnFails(k)
      BY <2>2 DEF Delete, Spawn, SpawnFails, Returns, Goes, Ends
    <2>3. CASE AwaitFails(k) \/ Await(k)
      BY <2>3 DEF AwaitFails, Await, Returns, Goes, Ends
    <2> QED
      BY <1>8, <2>1, <2>2, <2>3 DEF Open
  <1> QED
    BY <1>1, <1>2, <1>3, <1>4, <1>5, <1>6, <1>7, <1>8 DEF Command, Close

\* What a command that does nothing knows stays true.
LEMMA QuietStep ==
  ASSUME IInv, CloseInv, [Next]_vars, NEW h \in Commands, Quiet(h)
  PROVE  StageInv(h)' /\ TargetInv(h)' /\ OutcomeInv(h)'
  <1>0. StageInv(h) /\ TargetInv(h) /\ OutcomeInv(h) /\ TypeInv /\ ScanInv
    BY DEF CloseInv, IInv
  <1>1. \A i \in Idas : Known(i) => Known(i)' /\ bin'[i] = bin[i] /\ (Settled(i) => Settled(i)')
    BY StaysSettled
  <1>2. StageInv(h)'
    BY <1>0, <1>1 DEF Quiet, StageInv, Tool, Target
  <1>a. \A i \in before[h] : i \in Idas /\ Known(i)
    BY <1>0 DEF ScanInv, Known, TypeInv
  <1>3. TargetInv(h)'
    <2>1. Batch(h)' = Batch(h)
      BY DEF Quiet, Batch, Tool
    <2>2. \A i \in before[h] : bin'[i] = bin[i] /\ (Advertised(i)' => Advertised(i))
      BY <1>1, <1>a DEF Settled
    <2> QED
      BY <1>0, <2>1, <2>2 DEF Quiet, TargetInv
  <1>4. OutcomeInv(h)'
    <2>1. Batch(h)' = Batch(h)
      BY DEF Quiet, Batch, Tool
    <2>2. ASSUME NEW o, ClosedWell(h, o)
          PROVE  ClosedWell(h, o)'
      BY <1>1, <1>a, <2>2 DEF ClosedWell, Quiet, Settled
    <2> QED
      BY <1>0, <2>1, <2>2 DEF Quiet, OutcomeInv
  <1> QED
    BY <1>2, <1>3, <1>4

\* Sequences have a length, which is 0 for the empty one only.
LEMMA SeqLength ==
  ASSUME NEW S, NEW s \in Seq(S)
  PROVE  Len(s) \in Nat /\ (s # <<>> => Len(s) > 0)
  OBVIOUS

\* A sequence is a function on its positions.
LEMMA SeqDomain ==
  ASSUME NEW S, NEW s \in Seq(S)
  PROVE  DOMAIN s = 1..Len(s)
  OBVIOUS

\* The empty sequence has none.
LEMMA NoLength == Len(<<>>) = 0 /\ DOMAIN <<>> = {}
  OBVIOUS

\* What a command line names are sessions.
LEMMA CandidatesType ==
  ASSUME NEW ids \in Seq(Sessions), NEW paths \in Seq(Paths)
  PROVE  Candidates(ids, paths) \in Seq(Sessions)
  <1>1. SessionOf \in [Paths -> Sessions]
    BY ControlAssumption
  <1>2. \A n \in 1..Len(paths) : SessionOf[paths[n]] \in Sessions
    BY <1>1
  <1>3. Len(paths) \in Nat /\ DOMAIN paths = 1..Len(paths)
    OBVIOUS
  <1> DEFINE more == [n \in 1..Len(paths) |-> SessionOf[paths[n]]]
  <1>4. more \in [1..Len(paths) -> Sessions]
    BY <1>2
  <1>5. more \in Seq(Sessions)
    BY <1>3, <1>4
  <1>6. Candidates(ids, paths) = ids \o more
    BY <1>3 DEF Candidates
  <1> HIDE DEF more
  <1> QED
    BY <1>5, <1>6

\* The same of a command that has been typed.
LEMMA CandidatesAre ==
  ASSUME NEW r \in Requests, r.tool = "session close"
  PROVE  Candidates(r.args.ids, r.args.paths) \in Seq(Sessions)
  <1>1. r.args \in CommandLines
    BY DEF Requests, LocalTools
  <1>2. r.args.ids \in Seq(Sessions) /\ r.args.paths \in Seq(Paths)
    BY <1>1, ControlAssumption
  <1> QED
    BY <1>2, CandidatesType

\* The sessions of a request, none or more.
LEMMA NamedSessions ==
  ASSUME NEW r \in Requests
  PROVE  Named(r) \in Seq(Sessions)
  <1>1. CASE r.tool \in Openers
    <2>1. \A s \in Sessions : <<s>> \in Seq(Sessions)
      OBVIOUS
    <2> QED
      BY <1>1, <2>1, OpenerNames
  <1>2. CASE r.tool \in {"check_connection", "close_file"}
    <2>1. r.session \in Sessions \cup {None}
      BY <1>2 DEF Requests
    <2>2. Named(r) = IF r.session = None THEN <<>> ELSE <<r.session>>
      BY <1>2 DEF Named
    <2>3. <<>> \in Seq(Sessions) /\ \A s \in Sessions : <<s>> \in Seq(Sessions)
      OBVIOUS
    <2> QED
      BY <2>1, <2>2, <2>3
  <1>3. CASE r.tool = "list_ida_sessions"
    BY <1>3 DEF Named
  <1>4. CASE r.tool = "session close"
    <2>1. Named(r) = ResolveTargets(r.args.ids, r.args.paths)
      BY <1>4 DEF Named
    <2>2. Candidates(r.args.ids, r.args.paths) \in Seq(Sessions)
      BY <1>4, CandidatesAre
    <2> QED
      BY <2>1, <2>2, OrderedDedup DEF ResolveTargets, Dedup
  <1>5. r.tool \in {"open_file", "reanalyse_file", "check_connection", "close_file",
                    "list_ida_sessions", "session close"}
    BY DEF Requests, LocalTools
  <1> QED
    BY <1>1, <1>2, <1>3, <1>4, <1>5 DEF Openers

\* A sequence of all members of a finite set, each once.
LEMMA OrdersOf ==
  ASSUME NEW S \in SUBSET Sessions, NEW order \in SetToSeqs(S)
  PROVE  order \in Seq(Sessions) /\ ToSet(order) = S /\ Len(order) = Cardinality(S)
         /\ (S # {} => order # <<>>)
  <1>1. IsFiniteSet(S)
    BY ControlAssumption, FS_Subset
  <1> DEFINE D == 1..Cardinality(S)
  <1>2. Cardinality(S) \in Nat
    BY <1>1, FS_CardinalityType
  <1>3. order \in Injection(D, S)
    BY DEF SetToSeqs, Injection, IsInjective
  <1>4. Cardinality(D) = Cardinality(S)
    BY <1>2, FS_Interval
  <1>5. order \in Surjection(D, S)
    BY <1>1, <1>3, <1>4, FS_Injection
  <1>6. order \in [D -> S]
    BY <1>3 DEF Injection
  <1>7. order \in Seq(Sessions) /\ Len(order) = Cardinality(S)
    BY <1>2, <1>6
  <1>8. ToSet(order) = S
    BY <1>5, <1>6 DEF ToSet, Surjection
  <1>9. S # {} => order # <<>>
    BY <1>8 DEF ToSet
  <1> QED
    BY <1>7, <1>8, <1>9

\* Nobody is asked twice: a command that waits has found a process.
LEMMA GetFinds ==
  ASSUME IInv, NEW s \in Sessions
  PROVE  /\ Get(s) \in Idas \cup {None}
         /\ Get(s) # None => Get(s) \in Idas /\ bin[Get(s)] = s /\ Known(Get(s))
         /\ Get(s) = None => \A i \in Idas : bin[i] = s => ~Advertised(i)
  <1>1. sidecar[s] \in Idas \cup {None}
    BY DEF IInv, TypeInv
  <1>2. sidecar[s] # None => bin[sidecar[s]] = s /\ Known(sidecar[s])
    BY DEF IInv, IdaInv, Known
  <1>3. Get(s) \in {sidecar[s], None}
    BY DEF Get
  <1>4. ASSUME Get(s) = None, NEW i \in Idas, bin[i] = s, Advertised(i)
        PROVE  FALSE
    BY <1>4, ControlAssumption DEF Get, Advertised, Alive
  <1> QED
    BY <1>1, <1>2, <1>3, <1>4

-----------------------------------------------------------------------------
\* A command begins: the sessions it names, or all there are, are what it is about.
LEMMA StartCloses ==
  ASSUME IInv, CloseInv, NEW k \in Commands, NEW r \in Requests, Start(k, r)
  PROVE  CallTypes' /\ StageInv(k)' /\ TargetInv(k)' /\ OutcomeInv(k)'
  <1>0. /\ CallTypes /\ outcomes[k] = <<>> /\ pc[k] = "idle" /\ pc = [h \in Commands |-> pc[h]]
        /\ req'[k] = r /\ UNCHANGED <<found, outcomes>>
    BY DEF Start, CloseInv, StageInv, Goes, Ends, closeVars, IInv, TypeInv
  <1>b. Begin(r) \in {"lock", "scan", "contact", "get"}
    BY OpenerNames, OthersBegin
  <1>1. Named(r) \in Seq(Sessions)
    BY NamedSessions
  <1>2. CASE Usage(r) /\ pc' = [pc EXCEPT ![k] = Begin(r)] /\ targets' = [targets EXCEPT ![k] = Named(r)]
             /\ result' = result
    <2>1. CallTypes' /\ targets'[k] = Named(r) /\ outcomes'[k] = <<>>
      BY <1>0, <1>1, <1>2 DEF CallTypes
    <2>2. pc'[k] = Begin(r)
      BY <1>0, <1>2
    <2>3. StageInv(k)'
      <3>1. Begin(r) = "get" => r.tool \in Closers /\ Named(r) # <<>>
        <4>1. r.tool \in {"open_file", "reanalyse_file", "check_connection", "close_file",
                          "list_ida_sessions", "session close"}
          BY DEF Requests, LocalTools
        <4>2. r.tool = "list_ida_sessions" => Named(r) = <<>>
          BY DEF Named
        <4> QED
          BY <4>1, <4>2 DEF Begin, Closers
      <3>2. Begin(r) = "contact" => r.tool = "check_connection"
        BY DEF Begin
      <3>3. Named(r) # <<>> => Len(Named(r)) > 0
        BY <1>1, SeqLength
      <3>4. Tool(k)' = r.tool
        BY <1>0 DEF Tool
      <3>5. Len(outcomes'[k]) = 0
        BY <2>1, SeqLength, NoLength
      <3> QED
        BY <1>b, <2>1, <2>2, <3>1, <3>2, <3>3, <3>4, <3>5 DEF StageInv
    <2>4. TargetInv(k)'
      <3>1. r.tool = "session close" /\ ~r.args.all => Named(r) # <<>> /\ Begin(r) # "scan"
        BY <1>2 DEF Usage, Begin
      <3>2. r.tool = "session close" /\ r.args.all => Named(r) = <<>> /\ Begin(r) = "scan"
        BY <1>2 DEF Usage, Begin
      <3> QED
        BY <1>0, <2>1, <2>2, <3>1, <3>2 DEF TargetInv, Batch, Tool
    <2>5. OutcomeInv(k)'
      <3>1. pc'[k] # "done"
        BY <1>b, <2>2
      <3>2. Len(outcomes'[k]) = 0 /\ DOMAIN outcomes'[k] = {} /\ Len(targets'[k]) \in Nat
        BY <1>1, <2>1, SeqLength, NoLength
      <3> QED
        BY <3>1, <3>2 DEF OutcomeInv
    <2> QED
      BY <2>1, <2>3, <2>4, <2>5
  <1>3. CASE /\ ~Usage(r) \/ r.tool \in Openers
             /\ pc' = [pc EXCEPT ![k] = "done"] /\ result' = [result EXCEPT ![k] = "error"]
             /\ UNCHANGED targets
    <2>1. CallTypes' /\ targets'[k] \in Seq(Sessions) /\ outcomes'[k] = <<>>
      BY <1>0, <1>3 DEF CallTypes
    <2>2. pc'[k] = "done"
      BY <1>0, <1>3
    <2>3. ~Batch(k)'
      BY <1>0, <1>3 DEF Batch, Tool, Openers
    <2>4. OutcomeInv(k)'
      <3>1. Len(outcomes'[k]) = 0 /\ DOMAIN outcomes'[k] = {} /\ Len(targets'[k]) \in Nat
        BY <2>1, SeqLength, NoLength
      <3> QED
        BY <2>3, <3>1 DEF OutcomeInv
    <2>5. StageInv(k)' /\ TargetInv(k)'
      BY <2>2, <2>3 DEF StageInv, TargetInv
    <2> QED
      BY <2>1, <2>4, <2>5
  <1>4. \/ Usage(r) /\ pc' = [pc EXCEPT ![k] = Begin(r)] /\ targets' = [targets EXCEPT ![k] = Named(r)]
             /\ result' = result
        \/ /\ ~Usage(r) \/ r.tool \in Openers
           /\ pc' = [pc EXCEPT ![k] = "done"] /\ result' = [result EXCEPT ![k] = "error"]
           /\ UNCHANGED targets
    BY DEF Start, Goes, Ends, Openers
  <1> QED
    BY <1>2, <1>3, <1>4

\* A listing goes on.
LEMMA ScanCloses ==
  ASSUME IInv, CloseInv, NEW k \in Commands, NEW s \in Sessions, Scan(k, s)
  PROVE  CallTypes' /\ StageInv(k)' /\ TargetInv(k)' /\ OutcomeInv(k)'
  <1>0. UNCHANGED <<ida, bin, sidecar, pc, req, targets, result, before, found, outcomes>>
    BY DEF Scan, idaVars, disk, callVars, closeVars
  <1>1. CallTypes /\ StageInv(k) /\ TargetInv(k) /\ OutcomeInv(k)
    BY DEF CloseInv
  <1>2. CallTypes'
    BY <1>0, <1>1 DEF CallTypes
  <1>3. StageInv(k)'
    BY <1>0, <1>1 DEF StageInv, Tool, Target, Known
  <1>4. TargetInv(k)'
    BY <1>0, <1>1 DEF TargetInv, Batch, Tool, Advertised
  <1>5. OutcomeInv(k)'
    BY <1>0, <1>1 DEF OutcomeInv, ClosedWell, Batch, Tool, Known, Settled, Advertised
  <1> QED
    BY <1>2, <1>3, <1>4, <1>5

\* A listing is complete: it has everyone who was advertised all along.
LEMMA ResolveCloses ==
  ASSUME IInv, CloseInv, NEW k \in Commands, Resolve(k)
  PROVE  CallTypes' /\ StageInv(k)' /\ TargetInv(k)' /\ OutcomeInv(k)'
  <1>0. /\ CallTypes /\ outcomes[k] = <<>> /\ pc[k] = "scan" /\ left[k] = {}
        /\ UNCHANGED <<ida, bin, sidecar, req, found, outcomes>>
        /\ before' = [before EXCEPT ![k] = IF Tool(k) = "session close" THEN @ ELSE {}]
        /\ Tool(k)' = Tool(k)
    BY DEF Resolve, CloseInv, StageInv, Goes, Ends, idaVars, disk, closeVars, Tool
  <1>t. /\ pc = [h \in Commands |-> pc[h]] /\ before \in [Commands -> SUBSET Idas]
        /\ listed[k] \in SUBSET Sessions /\ targets[k] \in Seq(Sessions)
    BY <1>0 DEF IInv, TypeInv, CallTypes
  <1>1. \A i \in before[k] : Advertised(i) => bin[i] \in listed[k]
    BY <1>0 DEF ScanInv, IInv
  <1>2. TargetInv(k) /\ (Batch(k) => req[k].args.all /\ targets[k] = <<>>)
    BY <1>0 DEF CloseInv, TargetInv
  <1>4. \A i : Advertised(i)' = Advertised(i)
    BY <1>0 DEF Advertised
  <1>b. Batch(k)' => Batch(k) /\ Tool(k) = "session close" /\ before'[k] = before[k] /\ req'[k] = req[k]
    BY <1>0, <1>t DEF Batch
  <1>5. ASSUME NEW res, res \in {"ok", "error", "not found", "ambiguous"},
               pc' = [pc EXCEPT ![k] = "done"], result' = [result EXCEPT ![k] = res],
               targets' = targets,
               Tool(k) = "session close" => listed[k] = {}
        PROVE  CallTypes' /\ StageInv(k)' /\ TargetInv(k)' /\ OutcomeInv(k)'
    <2>1. CallTypes' /\ outcomes'[k] = <<>> /\ targets'[k] = targets[k]
      BY <1>0, <1>5 DEF CallTypes
    <2>2. pc'[k] = "done"
      BY <1>5, <1>t
    <2>4. TargetInv(k)'
      <3>1. Batch(k)' => \A i \in before'[k] : ~Advertised(i)'
        BY <1>1, <1>4, <1>5, <1>b
      <3> QED
        BY <1>2, <1>b, <2>2, <3>1 DEF TargetInv
    <2>5. OutcomeInv(k)'
      <3>1. Len(outcomes'[k]) = 0 /\ DOMAIN outcomes'[k] = {} /\ Len(targets'[k]) \in Nat
        BY <1>t, <2>1, SeqLength, NoLength
      <3>2. CASE Batch(k)'
        <4>1. targets'[k] = <<>>
          BY <1>2, <1>b, <2>1, <3>2
        <4>2. Len(targets'[k]) = 0
          BY <4>1, NoLength
        <4> QED
          BY <3>1, <4>2 DEF OutcomeInv
      <3>3. CASE ~Batch(k)'
        BY <3>1, <3>3 DEF OutcomeInv
      <3> QED
        BY <3>2, <3>3
    <2> QED
      BY <2>1, <2>2, <2>4, <2>5 DEF StageInv
  <1>6. ASSUME NEW order \in Seq(Sessions), order # <<>>, NEW p \in {"get", "contact"},
               pc' = [pc EXCEPT ![k] = p], targets' = [targets EXCEPT ![k] = order],
               result' = result,
               p = "get" => Tool(k) \in Closers,
               p = "contact" => Tool(k) = "check_connection",
               Tool(k) = "session close" => ToSet(order) = listed[k]
        PROVE  CallTypes' /\ StageInv(k)' /\ TargetInv(k)' /\ OutcomeInv(k)'
    <2>1. CallTypes' /\ outcomes'[k] = <<>> /\ targets'[k] = order
      BY <1>0, <1>6 DEF CallTypes
    <2>2. pc'[k] = p
      BY <1>6, <1>t
    <2>3. StageInv(k)'
      <3>1. Len(order) > 0 /\ Len(outcomes'[k]) = 0
        BY <1>6, <2>1, SeqLength, NoLength
      <3> QED
        BY <1>0, <1>6, <2>1, <2>2, <3>1 DEF StageInv
    <2>4. TargetInv(k)'
      <3>1. Batch(k)' => \A i \in before'[k] : Advertised(i)' => bin'[i] \in ToSet(targets'[k])
        BY <1>0, <1>1, <1>4, <1>6, <1>b, <2>1
      <3> QED
        BY <1>2, <1>6, <1>b, <2>2, <3>1 DEF TargetInv
    <2>5. OutcomeInv(k)'
      <3>1. /\ Len(outcomes'[k]) = 0 /\ DOMAIN outcomes'[k] = {} /\ Len(targets'[k]) \in Nat
            /\ pc'[k] # "done"
        BY <1>6, <2>1, <2>2, SeqLength, NoLength
      <3> QED
        BY <3>1 DEF OutcomeInv
    <2> QED
      BY <2>1, <2>3, <2>4, <2>5
  <1>7. CASE Tool(k) = "list_ida_sessions" /\ Ends(k, "scan", "ok") /\ UNCHANGED targets
    BY <1>5, <1>7 DEF Ends, Goes
  <1>8. CASE Tool(k) = "session close" /\ listed[k] = {} /\ Ends(k, "scan", "ok") /\ UNCHANGED targets
    BY <1>5, <1>8 DEF Ends, Goes
  <1>9. CASE /\ Tool(k) = "session close" /\ listed[k] # {} /\ Goes(k, "scan", "get") /\ UNCHANGED result
             /\ \E order \in SetToSeqs(listed[k]) : targets' = [targets EXCEPT ![k] = order]
    <2>1. PICK order \in SetToSeqs(listed[k]) : targets' = [targets EXCEPT ![k] = order]
      BY <1>9
    <2>2. order \in Seq(Sessions) /\ ToSet(order) = listed[k] /\ order # <<>>
      BY <1>9, <1>t, OrdersOf
    <2> QED
      BY <1>6, <1>9, <2>1, <2>2 DEF Goes, Closers
  <1>10. CASE /\ Tool(k) \in {"close_file", "check_connection"} /\ UNCHANGED targets
              /\ Ends(k, "scan", IF listed[k] = {} THEN "not found" ELSE "ambiguous")
    BY <1>5, <1>10 DEF Ends, Goes
  <1>11. CASE /\ Tool(k) \in {"close_file", "check_connection"} /\ UNCHANGED result
              /\ \E s \in Sessions :
                   /\ listed[k] = {s}
                   /\ Goes(k, "scan", IF Tool(k) = "close_file" THEN "get" ELSE "contact")
                   /\ targets' = [targets EXCEPT ![k] = <<s>>]
    <2>1. PICK s \in Sessions :
            /\ Goes(k, "scan", IF Tool(k) = "close_file" THEN "get" ELSE "contact")
            /\ targets' = [targets EXCEPT ![k] = <<s>>]
      BY <1>11
    <2>2. <<s>> \in Seq(Sessions) /\ <<s>> # <<>>
      OBVIOUS
    <2> QED
      BY <1>6, <1>11, <2>1, <2>2 DEF Goes, Closers
  <1> QED
    BY <1>7, <1>8, <1>9, <1>10, <1>11 DEF Resolve

\* What was true of an outcome stays true.
LEMMA OutcomesStay ==
  ASSUME IInv, [Next]_vars, NEW k \in Commands, before'[k] = before[k], NEW o, ClosedWell(k, o)
  PROVE  ClosedWell(k, o)'
  <1>1. \A i \in Idas : Known(i) => Known(i)' /\ bin'[i] = bin[i] /\ (Settled(i) => Settled(i)')
    BY StaysSettled
  <1>2. \A i \in before[k] : i \in Idas /\ Known(i)
    BY DEF IInv, ScanInv, TypeInv, Known
  <1> QED
    BY <1>1, <1>2 DEF ClosedWell, Settled

\* The targets of a close that goes on are those it had.
LEMMA TargetsStay ==
  ASSUME IInv, CloseInv, [Next]_vars, NEW k \in Commands, pc[k] \in {"get", "wait"},
         pc'[k] \notin {"idle", "scan"}, UNCHANGED <<req, targets, before>>
  PROVE  TargetInv(k)' /\ (Batch(k)' <=> Batch(k))
  <1>1. Batch(k)' <=> Batch(k)
    BY DEF Batch, Tool
  <1>2. \A i \in Idas : Known(i) => Known(i)' /\ bin'[i] = bin[i] /\ (Settled(i) => Settled(i)')
    BY StaysSettled
  <1>3. \A i \in before[k] : i \in Idas /\ Known(i)
    BY DEF IInv, ScanInv, TypeInv, Known
  <1>4. \A i \in before[k] : bin'[i] = bin[i] /\ (Advertised(i)' => Advertised(i))
    BY <1>2, <1>3 DEF Settled
  <1>5. TargetInv(k)
    BY DEF CloseInv
  <1> QED
    BY <1>1, <1>4, <1>5 DEF TargetInv

\* One outcome more.
LEMMA OutcomeCloses ==
  ASSUME IInv, CloseInv, [Next]_vars, NEW k \in Commands, NEW from, from \in {"get", "wait"},
         pc[k] = from, UNCHANGED <<req, targets, before>>,
         found' \in [Commands -> Idas \cup {None}],
         NEW closed \in BOOLEAN, NEW graceful \in BOOLEAN, Outcome(k, from, closed, graceful),
         closed => /\ \E i \in Idas : i = found'[k] /\ Settled(i)'
                   /\ \A i \in before[k] : bin'[i] = Target(k) => Settled(i)'
  PROVE  CallTypes' /\ StageInv(k)' /\ TargetInv(k)' /\ OutcomeInv(k)'
  <1> DEFINE o == [session |-> Target(k), found |-> found'[k], closed |-> closed, graceful |-> graceful]
             all == Append(outcomes[k], o)
             settled == {i \in Idas : Settled(i)'}
             Well(x) == x.closed => /\ x.found \in settled
                                    /\ \A i \in before[k] : bin'[i] = x.session => i \in settled
  <1>0. /\ CallTypes /\ StageInv(k) /\ OutcomeInv(k) /\ pc = [h \in Commands |-> pc[h]]
        /\ Tool(k) \in Closers /\ Tool(k)' = Tool(k)
    BY DEF CloseInv, IInv, TypeInv, StageInv, Tool
  <1>1. outcomes[k] \in Seq(Outcomes) /\ targets[k] \in Seq(Sessions) /\ Len(outcomes[k]) < Len(targets[k])
    BY <1>0 DEF CallTypes, StageInv
  <1>2. Target(k) \in Sessions /\ Len(outcomes[k]) + 1 \in 1..Len(targets[k])
    BY <1>1 DEF Target
  <1>3. o \in Outcomes
    BY <1>2 DEF Outcomes
  <1>4. /\ all \in Seq(Outcomes) /\ Len(all) = Len(outcomes[k]) + 1 /\ all[Len(all)] = o
        /\ DOMAIN all = 1..Len(all) /\ \A n \in DOMAIN all : n # Len(all) => n \in DOMAIN outcomes[k] /\ all[n] = outcomes[k][n]
    BY <1>1, <1>3
  <1>5. /\ outcomes' = [outcomes EXCEPT ![k] = all]
        /\ IF Len(all) < Len(targets[k])
           THEN Goes(k, from, "get") /\ UNCHANGED result
           ELSE Ends(k, from, IF \A x \in ToSet(all) : x.closed THEN "ok" ELSE "error")
    BY DEF Outcome
  <1> HIDE DEF o, all
  <1>6. outcomes'[k] = all
    BY <1>0, <1>5 DEF CallTypes
  <1>7. CallTypes'
    <2>1. outcomes' \in [Commands -> Seq(Outcomes)]
      BY <1>0, <1>4, <1>5 DEF CallTypes
    <2>2. result' \in [Commands -> {"none", "ok", "error", "not found", "ambiguous"}]
      <3>1. result' = result \/ \E res : res \in {"ok", "error"} /\ result' = [result EXCEPT ![k] = res]
        BY <1>5 DEF Ends
      <3> QED
        BY <1>0, <3>1 DEF CallTypes
    <2> QED
      BY <1>0, <2>1, <2>2 DEF CallTypes
  <1>b. before[k] \subseteq Idas
    BY DEF IInv, TypeInv
  <1>8. \A n \in DOMAIN all : all[n].session = targets[k][n] /\ Well(all[n])
    <2>1. ASSUME NEW x, ClosedWell(k, x)
          PROVE  Well(x)
      <3>1. ClosedWell(k, x)'
        BY <2>1, OutcomesStay
      <3> QED
        BY <1>b, <3>1 DEF ClosedWell
    <2>2. \A n \in DOMAIN outcomes[k] : outcomes[k][n].session = targets[k][n] /\ Well(outcomes[k][n])
      BY <1>0, <2>1 DEF OutcomeInv
    <2>3. o.session = targets[k][Len(all)]
      BY <1>4 DEF o, Target
    <2>4. Well(o)
      BY <1>b DEF o
    <2> HIDE DEF Well
    <2> QED
      BY <1>4, <2>2, <2>3, <2>4
  <1>9. \A n \in DOMAIN outcomes'[k] :
          outcomes'[k][n].session = targets'[k][n] /\ ClosedWell(k, outcomes[k][n])'
    BY <1>6, <1>8 DEF ClosedWell, Settled, Known, Advertised
  <1>a. CASE Len(all) < Len(targets[k])
    <2>1. pc'[k] = "get"
      BY <1>0, <1>5, <1>a DEF Goes
    <2>2. StageInv(k)'
      BY <1>0, <1>6, <1>a, <2>1 DEF StageInv
    <2>3. TargetInv(k)'
      BY <2>1, TargetsStay
    <2>4. OutcomeInv(k)'
      <3>1. Len(all) <= Len(targets[k])
        BY <1>1, <1>4, <1>a
      <3> QED
        BY <1>6, <1>9, <2>1, <3>1 DEF OutcomeInv
    <2> QED
      BY <1>7, <2>2, <2>3, <2>4
  <1>c. CASE ~(Len(all) < Len(targets[k]))
    <2>1. pc'[k] = "done" /\ result'[k] = IF \A x \in ToSet(all) : x.closed THEN "ok" ELSE "error"
      BY <1>0, <1>5, <1>c DEF Ends, Goes, CallTypes
    <2>2. StageInv(k)'
      BY <2>1 DEF StageInv
    <2>3. TargetInv(k)'
      BY <2>1, TargetsStay
    <2>4. OutcomeInv(k)'
      <3>1. Len(all) = Len(targets[k])
        BY <1>1, <1>4, <1>c
      <3>2. result'[k] = "ok" => \A n \in DOMAIN all : all[n].closed
        BY <2>1 DEF ToSet
      <3>3. Len(all) <= Len(targets[k])
        BY <1>1, <3>1
      <3> QED
        BY <1>6, <1>9, <3>1, <3>2, <3>3 DEF OutcomeInv
    <2> QED
      BY <1>7, <2>2, <2>3, <2>4
  <1> QED
    BY <1>a, <1>c

\* check_connection ends.
LEMMA ContactCloses ==
  ASSUME IInv, CloseInv, NEW k \in Commands, Contact(k)
  PROVE  CallTypes' /\ StageInv(k)' /\ TargetInv(k)' /\ OutcomeInv(k)'
  <1>0. /\ CallTypes /\ StageInv(k) /\ OutcomeInv(k) /\ pc[k] = "contact" /\ pc' = [pc EXCEPT ![k] = "done"]
        /\ UNCHANGED <<req, targets, before, found, outcomes>>
    BY DEF Contact, Goes, Ends, CloseInv, listVars, closeVars
  <1>1. \E res : res \in {"ok", "error", "not found"} /\ result' = [result EXCEPT ![k] = res]
    BY DEF Contact, Ends
  <1>2. CallTypes'
    BY <1>0, <1>1 DEF CallTypes
  <1>3. pc'[k] = "done" /\ outcomes'[k] = <<>> /\ targets[k] \in Seq(Sessions)
    BY <1>0 DEF IInv, TypeInv, StageInv, CallTypes
  <1>4. ~Batch(k)'
    BY <1>0 DEF StageInv, Batch, Tool
  <1>5. OutcomeInv(k)'
    <2>1. Len(outcomes'[k]) = 0 /\ DOMAIN outcomes'[k] = {} /\ Len(targets'[k]) \in Nat
      BY <1>0, <1>3, SeqLength, NoLength
    <2> QED
      BY <1>4, <2>1 DEF OutcomeInv
  <1> QED
    BY <1>2, <1>3, <1>4, <1>5 DEF StageInv, TargetInv

\* The session whose turn it is.
LEMMA TargetIs ==
  ASSUME CloseInv, NEW k \in Commands, pc[k] \in {"get", "wait"}
  PROVE  Target(k) \in Sessions
  <1>1. /\ outcomes[k] \in Seq(Outcomes) /\ targets[k] \in Seq(Sessions)
        /\ Len(outcomes[k]) < Len(targets[k])
    BY DEF CloseInv, CallTypes, StageInv
  <1> QED
    BY <1>1 DEF Target

\* close looks for its session.
LEMMA CloseGetCloses ==
  ASSUME IInv, CloseInv, NEW k \in Commands, CloseGet(k)
  PROVE  CallTypes' /\ StageInv(k)' /\ TargetInv(k)' /\ OutcomeInv(k)'
  <1>1. /\ pc[k] = "get" /\ found' = [found EXCEPT ![k] = Get(Target(k))]
        /\ UNCHANGED <<ida, bin, sidecar, req, targets, before>> /\ [Next]_vars
    BY DEF CloseGet, idaVars, disk, listVars, Next, Command, Close
  <1>2. /\ Target(k) \in Sessions /\ CallTypes /\ StageInv(k) /\ OutcomeInv(k)
        /\ pc = [h \in Commands |-> pc[h]]
    BY <1>1, TargetIs DEF CloseInv, IInv, TypeInv
  <1>3. found' \in [Commands -> Idas \cup {None}] /\ found'[k] = Get(Target(k))
    BY <1>1, <1>2, GetFinds DEF CallTypes
  <1>4. CASE found'[k] = None
    <2>1. Outcome(k, "get", FALSE, FALSE)
      BY <1>4 DEF CloseGet
    <2> QED
      BY <1>1, <1>3, <2>1, OutcomeCloses
  <1>5. CASE found'[k] # None
    <2>1. pc' = [pc EXCEPT ![k] = "wait"] /\ UNCHANGED <<outcomes, result>>
      BY <1>5 DEF CloseGet, Goes
    <2>2. pc'[k] = "wait"
      BY <1>2, <2>1
    <2>3. CallTypes'
      BY <1>1, <1>2, <1>3, <2>1 DEF CallTypes
    <2>4. found'[k] \in Idas /\ bin[found'[k]] = Target(k)
          /\ ida[found'[k]] \in {"running", "saving", "gone"}
      BY <1>2, <1>3, <1>5, GetFinds DEF Known
    <2>5. StageInv(k)'
      BY <1>1, <1>2, <2>1, <2>2, <2>4 DEF StageInv, Tool, Target, Known
    <2>6. TargetInv(k)'
      BY <1>1, <2>2, TargetsStay
    <2>7. OutcomeInv(k)'
      BY <1>1, <1>2, <2>1, <2>2 DEF OutcomeInv, ClosedWell, Settled, Known, Advertised
    <2> QED
      BY <2>3, <2>5, <2>6, <2>7
  <1> QED
    BY <1>4, <1>5

\* close sees that its session is gone: nobody is advertised there.
LEMMA CloseGracefulCloses ==
  ASSUME IInv, CloseInv, NEW k \in Commands, CloseGraceful(k)
  PROVE  CallTypes' /\ StageInv(k)' /\ TargetInv(k)' /\ OutcomeInv(k)'
  <1>1. /\ pc[k] = "wait" /\ Get(Target(k)) = None /\ Outcome(k, "wait", TRUE, TRUE)
        /\ UNCHANGED <<ida, bin, sidecar, req, targets, before, found>> /\ [Next]_vars
    BY DEF CloseGraceful, idaVars, disk, listVars, Next, Command, Close
  <1>2. /\ Target(k) \in Sessions /\ CallTypes /\ StageInv(k) /\ before[k] \subseteq Idas
        /\ \A i \in before[k] : Known(i)
    BY <1>1, TargetIs DEF CloseInv, IInv, TypeInv, ScanInv, Known
  <1>3. \A i \in Idas : bin[i] = Target(k) /\ Known(i) => Settled(i)'
    BY <1>1, <1>2, GetFinds DEF Settled, Known, Advertised
  <1>4. found[k] \in Idas /\ bin[found[k]] = Target(k) /\ Known(found[k])
    BY <1>1, <1>2 DEF StageInv
  <1>5. found' \in [Commands -> Idas \cup {None}]
    BY <1>1, <1>2 DEF CallTypes
  <1>6. \E i \in Idas : i = found'[k] /\ Settled(i)'
    BY <1>1, <1>3, <1>4
  <1>7. \A i \in before[k] : bin'[i] = Target(k) => Settled(i)'
    BY <1>1, <1>2, <1>3
  <1>8. UNCHANGED <<req, targets, before>>
    BY <1>1
  <1> QED
    BY <1>1, <1>5, <1>6, <1>7, <1>8, OutcomeCloses

\* close kills, and takes the sidecar away.
LEMMA CloseEscalateCloses ==
  ASSUME IInv, CloseInv, NEW k \in Commands, CloseEscalate(k)
  PROVE  CallTypes' /\ StageInv(k)' /\ TargetInv(k)' /\ OutcomeInv(k)'
  <1>1. /\ pc[k] = "wait" /\ Outcome(k, "wait", TRUE, FALSE)
        /\ sidecar' = [sidecar EXCEPT ![Target(k)] = None]
        /\ UNCHANGED <<bin, req, targets, before, found>> /\ [Next]_vars
    BY DEF CloseEscalate, listVars, Next, Command, Close
  <1>2. /\ Target(k) \in Sessions /\ CallTypes /\ StageInv(k) /\ before[k] \subseteq Idas
        /\ \A i \in before[k] : Known(i)
    BY <1>1, TargetIs DEF CloseInv, IInv, TypeInv, ScanInv, Known
  <1>3. \A i \in Idas : bin[i] = Target(k) /\ Known(i) => Settled(i)'
    <2>1. sidecar'[Target(k)] = None
      BY <1>1, <1>2 DEF IInv, TypeInv
    <2>2. \A i \in Idas : Known(i) => Known(i)'
      BY <1>1, StaysSettled
    <2>3. \A i \in Idas : bin[i] = Target(k) => ~Advertised(i)'
      BY <1>1, <2>1, ControlAssumption DEF Advertised
    <2> QED
      BY <2>2, <2>3 DEF Settled
  <1>4. found[k] \in Idas /\ bin[found[k]] = Target(k) /\ Known(found[k])
    BY <1>1, <1>2 DEF StageInv
  <1>5. found' \in [Commands -> Idas \cup {None}]
    BY <1>1, <1>2 DEF CallTypes
  <1>6. \E i \in Idas : i = found'[k] /\ Settled(i)'
    BY <1>1, <1>3, <1>4
  <1>7. \A i \in before[k] : bin'[i] = Target(k) => Settled(i)'
    BY <1>1, <1>2, <1>3
  <1>8. UNCHANGED <<req, targets, before>>
    BY <1>1
  <1> QED
    BY <1>1, <1>5, <1>6, <1>7, <1>8, OutcomeCloses

\* open closes nothing.
LEMMA OpenCloses ==
  ASSUME IInv, CloseInv, NEW k \in Commands, Open(k)
  PROVE  CallTypes' /\ StageInv(k)' /\ TargetInv(k)' /\ OutcomeInv(k)'
  <1>1. /\ pc[k] \in OpenStages /\ UNCHANGED <<req, targets, found, outcomes>>
        /\ \E p : p \in OpenStages \cup {"done"} /\ pc' = [pc EXCEPT ![k] = p]
        /\ result' = result \/ \E res : res \in {"ok", "error"} /\ result' = [result EXCEPT ![k] = res]
    <2>1. CASE Acquire(k) \/ OpenExisting(k) \/ OpenAbsent(k)
      BY <2>1 DEF Acquire, OpenExisting, OpenAbsent, Returns, Goes, Ends, OpenStages, closeVars
    <2>2. CASE \E s \in Sessions : Delete(k, s)
      BY <2>2 DEF Delete, OpenStages, closeVars
    <2>3. CASE (\E i \in Idas : Spawn(k, i)) \/ SpawnFails(k) \/ AwaitFails(k) \/ Await(k)
      BY <2>3 DEF Spawn, SpawnFails, AwaitFails, Await, Returns, Goes, Ends, OpenStages, closeVars
    <2> QED
      BY <2>1, <2>2, <2>3 DEF Open
  <1>2. /\ CallTypes /\ StageInv(k) /\ OutcomeInv(k) /\ Tool(k) \in Openers
        /\ pc = [h \in Commands |-> pc[h]]
    BY <1>1 DEF CloseInv, IInv, TypeInv, LockInv
  <1>3. CallTypes'
    BY <1>1, <1>2 DEF CallTypes
  <1>4. pc'[k] \in OpenStages \cup {"done"}
    BY <1>1, <1>2
  <1>5. outcomes'[k] = <<>> /\ targets'[k] \in Seq(Sessions)
    BY <1>1, <1>2 DEF StageInv, OpenStages, CallTypes
  <1>6. ~Batch(k)'
    BY <1>1, <1>2 DEF Batch, Tool, Openers
  <1>7. OutcomeInv(k)'
    <2>1. Len(outcomes'[k]) = 0 /\ DOMAIN outcomes'[k] = {} /\ Len(targets'[k]) \in Nat
      BY <1>5, SeqLength, NoLength
    <2> QED
      BY <1>6, <2>1 DEF OutcomeInv
  <1>8. StageInv(k)' /\ TargetInv(k)'
    BY <1>4, <1>5, <1>6 DEF StageInv, TargetInv, OpenStages
  <1> QED
    BY <1>3, <1>7, <1>8

-----------------------------------------------------------------------------
\* Nothing has been called yet.
LEMMA CloseInitially ==
  ASSUME Init
  PROVE  CloseInv
  <1>1. \A k \in Commands : pc[k] = "idle" /\ outcomes[k] = <<>> /\ targets[k] = <<>>
    BY DEF Init
  <1>2. CallTypes
    BY DEF Init, CallTypes
  <1>3. ASSUME NEW k \in Commands
        PROVE  StageInv(k) /\ TargetInv(k) /\ OutcomeInv(k)
    <2>1. Len(outcomes[k]) = 0 /\ DOMAIN outcomes[k] = {} /\ Len(targets[k]) = 0
      BY <1>1, NoLength
    <2>2. pc[k] = "idle" /\ outcomes[k] = <<>>
      BY <1>1
    <2>3. ~Batch(k)
      BY <2>2 DEF Batch
    <2>4. StageInv(k) /\ TargetInv(k)
      BY <2>2, <2>3 DEF StageInv, TargetInv
    <2>5. OutcomeInv(k)
      BY <2>1, <2>3 DEF OutcomeInv
    <2> QED
      BY <2>4, <2>5
  <1> QED
    BY <1>2, <1>3 DEF CloseInv

\* CloseInv is inductive, given IInv: one lemma above for each action.
LEMMA CloseStep ==
  ASSUME IInv, CloseInv, [Next]_vars
  PROVE  CloseInv'
  <1>1. ASSUME UNCHANGED cmdVars
        PROVE  CloseInv'
    <2>1. UNCHANGED <<pc, req, targets, result, found, outcomes, before>>
      BY <1>1 DEF cmdVars, callVars, listVars, closeVars
    <2>2. CallTypes'
      BY <2>1 DEF CloseInv, CallTypes
    <2>3. \A h \in Commands : Quiet(h)
      BY <2>1 DEF Quiet
    <2> QED
      BY <2>2, <2>3, QuietStep DEF CloseInv
  <1>2. CASE \E i \in Idas : Ida(i)
    BY <1>1, <1>2, IdaLeavesAlone
  <1>3. ASSUME NEW k \in Commands, Command(k)
        PROVE  CloseInv'
    <2>1. CallTypes' /\ StageInv(k)' /\ TargetInv(k)' /\ OutcomeInv(k)'
      BY <1>3, StartCloses, ScanCloses, ResolveCloses, ContactCloses, CloseGetCloses,
         CloseGracefulCloses, CloseEscalateCloses, OpenCloses DEF Command, Close
    <2>2. \A h \in Commands \ {k} : StageInv(h)' /\ TargetInv(h)' /\ OutcomeInv(h)'
      BY <1>3, OthersLeaveAlone, QuietStep DEF CloseInv
    <2> QED
      BY <2>1, <2>2 DEF CloseInv
  <1>4. CASE UNCHANGED vars
    BY <1>1, <1>4 DEF vars
  <1> QED
    BY <1>2, <1>3, <1>4 DEF Next

\* What is known of the calls of a command (CloseInv) is always true.
THEOREM CloseInvariance == Spec => []CloseInv
  <1>1. IInv /\ CloseInv /\ [Next]_vars => CloseInv'
    BY CloseStep
  <1> QED
    BY <1>1, CloseInitially, Invariance, PTL DEF Spec

\* All values are of their types.
THEOREM TypeCorrect == Spec => []TypeOK
  <1>1. IInv /\ CloseInv => TypeOK
    BY DEF IInv, TypeInv, CloseInv, CallTypes, TypeOK
  <1> QED
    BY <1>1, Invariance, CloseInvariance, PTL

\* FirstIndex finds what FirstAt says.
LEMMA FirstIndexIs ==
  ASSUME NEW c \in Seq(Sessions), NEW p \in DOMAIN c, NEW s, FirstAt(c, p, s)
  PROVE  FirstIndex(s, c) = p
  BY DEF FirstAt, FirstIndex

\* A "session close" that is done has told the truth about what it was asked for.
LEMMA BatchTold ==
  ASSUME IInv, CloseInv
  PROVE  BatchTruthful
  <1> SUFFICES ASSUME NEW k \in Commands, pc[k] = "done", Tool(k) = "session close", Usage(req[k])
               PROVE  /\ \A n \in DOMAIN outcomes[k] :
                           outcomes[k][n].closed => /\ outcomes[k][n].found # None
                                                    /\ ~Advertised(outcomes[k][n].found)
                      /\ ~req[k].args.all =>
                           /\ {o.session : o \in ToSet(outcomes[k])} = ToSet(Asked(k))
                           /\ \A m, n \in DOMAIN outcomes[k] :
                                m < n => FirstIndex(outcomes[k][m].session, Asked(k))
                                           < FirstIndex(outcomes[k][n].session, Asked(k))
                      /\ result[k] = "ok" =>
                           \A i \in before[k] : req[k].args.all \/ bin[i] \in ToSet(Asked(k)) => ~Advertised(i)
    BY DEF BatchTruthful
  <1>1. Batch(k) /\ CallTypes /\ TargetInv(k) /\ OutcomeInv(k) /\ before[k] \subseteq Idas
    BY DEF Batch, CloseInv, IInv, TypeInv
  <1>2. /\ outcomes[k] \in Seq(Outcomes) /\ targets[k] \in Seq(Sessions)
        /\ DOMAIN outcomes[k] = DOMAIN targets[k]
        /\ \A n \in DOMAIN outcomes[k] : outcomes[k][n].session = targets[k][n] /\ ClosedWell(k, outcomes[k][n])
    <2>1. outcomes[k] \in Seq(Outcomes) /\ targets[k] \in Seq(Sessions)
      BY <1>1 DEF CallTypes
    <2>2. Len(outcomes[k]) = Len(targets[k])
      BY <1>1 DEF OutcomeInv
    <2>3. DOMAIN outcomes[k] = 1..Len(outcomes[k]) /\ DOMAIN targets[k] = 1..Len(targets[k])
      BY <2>1, SeqDomain
    <2>4. \A n \in DOMAIN outcomes[k] : outcomes[k][n].session = targets[k][n] /\ ClosedWell(k, outcomes[k][n])
      BY <1>1 DEF OutcomeInv
    <2> QED
      BY <2>1, <2>2, <2>3, <2>4
  <1>3. ASSUME NEW n \in DOMAIN outcomes[k], outcomes[k][n].closed
        PROVE  outcomes[k][n].found # None /\ ~Advertised(outcomes[k][n].found)
    BY <1>2, <1>3, ControlAssumption DEF ClosedWell, Settled
  <1>4. ASSUME ~req[k].args.all
        PROVE  Asked(k) \in Seq(Sessions) /\ Dedup(Asked(k), Len(Asked(k)), targets[k])
    <2>1. req[k] \in Requests /\ req[k].tool = "session close"
      BY DEF IInv, TypeInv, Tool
    <2>2. Asked(k) \in Seq(Sessions)
      BY <2>1, CandidatesAre DEF Asked
    <2>3. targets[k] = ResolveTargets(req[k].args.ids, req[k].args.paths)
      BY <1>1, <1>4, <2>1 DEF TargetInv, Named
    <2> QED
      BY <2>2, <2>3, OrderedDedup DEF ResolveTargets, Asked
  <1>5. ASSUME ~req[k].args.all
        PROVE  ToSet(targets[k]) = ToSet(Asked(k))
    <2>1. Asked(k) \in Seq(Sessions) /\ Dedup(Asked(k), Len(Asked(k)), targets[k])
      BY <1>4, <1>5
    <2>2. ASSUME NEW n \in DOMAIN targets[k]
          PROVE  targets[k][n] \in ToSet(Asked(k))
      BY <2>1 DEF Dedup, FirstAt, ToSet
    <2>3. ASSUME NEW n \in DOMAIN Asked(k)
          PROVE  Asked(k)[n] \in ToSet(targets[k])
      <3>1. n \in 1..Len(Asked(k))
        BY <2>1, <2>3, SeqDomain
      <3>2. \E a \in DOMAIN targets[k] : targets[k][a] = Asked(k)[n]
        BY <2>1, <3>1 DEF Dedup
      <3> QED
        BY <3>2 DEF ToSet
    <2> QED
      BY <2>2, <2>3 DEF ToSet
  <1>6. ASSUME ~req[k].args.all
        PROVE  {o.session : o \in ToSet(outcomes[k])} = ToSet(Asked(k))
    <2>1. {o.session : o \in ToSet(outcomes[k])} = ToSet(targets[k])
      BY <1>2 DEF ToSet
    <2> QED
      BY <1>5, <1>6, <2>1
  <1>7. ASSUME ~req[k].args.all, NEW m \in DOMAIN outcomes[k], NEW n \in DOMAIN outcomes[k], m < n
        PROVE  FirstIndex(outcomes[k][m].session, Asked(k)) < FirstIndex(outcomes[k][n].session, Asked(k))
    <2>1. Asked(k) \in Seq(Sessions) /\ Dedup(Asked(k), Len(Asked(k)), targets[k])
      BY <1>4, <1>7
    <2>2. PICK p \in DOMAIN Asked(k) : FirstAt(Asked(k), p, targets[k][m])
      BY <1>2, <1>7, <2>1 DEF Dedup, FirstAt
    <2>3. PICK q \in DOMAIN Asked(k) : FirstAt(Asked(k), q, targets[k][n])
      BY <1>2, <1>7, <2>1 DEF Dedup, FirstAt
    <2>4. p < q
      BY <1>2, <1>7, <2>1, <2>2, <2>3 DEF Dedup
    <2>5. FirstIndex(targets[k][m], Asked(k)) = p /\ FirstIndex(targets[k][n], Asked(k)) = q
      BY <2>1, <2>2, <2>3, FirstIndexIs
    <2> QED
      BY <1>2, <2>4, <2>5
  <1>8. ASSUME result[k] = "ok", NEW i \in before[k], req[k].args.all \/ bin[i] \in ToSet(Asked(k)), Advertised(i)
        PROVE  FALSE
    <2>1. bin[i] \in ToSet(targets[k])
      BY <1>1, <1>5, <1>8 DEF TargetInv
    <2>2. PICK n \in DOMAIN targets[k] : bin[i] = targets[k][n]
      BY <2>1 DEF ToSet
    <2>3. outcomes[k][n].closed
      BY <1>1, <1>2, <1>8, <2>2 DEF OutcomeInv
    <2> QED
      BY <1>2, <1>8, <2>2, <2>3 DEF ClosedWell, Settled
  <1> QED
    BY <1>3, <1>6, <1>7, <1>8

\* A finished "session close" tells the truth (BatchTruthful).
THEOREM BatchesTruthful == Spec => []BatchTruthful
  <1>1. IInv /\ CloseInv => BatchTruthful
    BY BatchTold
  <1> QED
    BY <1>1, Invariance, CloseInvariance, PTL
=============================================================================
